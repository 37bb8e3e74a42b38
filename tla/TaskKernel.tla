----------------------------- MODULE TaskKernel -----------------------------
(***************************************************************************)
(* The durable task kernel (src/scp/task_kernel_parts/taskkernel.py, and   *)
(* the functions src/scp/task_kernel.py installs over it): tasks, leases   *)
(* fenced by tokens and by the kill epoch, the event journal, per-owner    *)
(* queue accounts, checkpoints and idempotency keys.                       *)
(*                                                                         *)
(* Every operation of the kernel is one BEGIN IMMEDIATE ... COMMIT, so it  *)
(* is one action here; an operation that raises rolls back and is a        *)
(* disabled action. Instances are TaskKernel objects (one per adapter,     *)
(* watchdog or background job) sharing one database; the only state an     *)
(* instance keeps in memory is _bound_leases.                              *)
(***************************************************************************)
EXTENDS KernelStates, Naturals, FiniteSets

CONSTANTS
  Tasks,       \* task ids
  Owners,      \* values of tasks.owner
  Owner,       \* the owner of each task
  Instances,   \* TaskKernel objects on the database
  LateTasks,   \* tasks whose deadline may pass
  MaxToken,    \* bound: leases granted to one task
  MaxEpoch,    \* bound: times the global kill switch is set
  MaxAttempts, \* tasks.max_attempts
  MaxActive,   \* claim_next's max_active_per_owner
  TTL          \* ticks from a grant or a renewal to the lease's expiry

ASSUME KernelAssumption ==
  /\ IsFiniteSet(Tasks)
  /\ Owner \in [Tasks -> Owners]
  /\ LateTasks \subseteq Tasks
  /\ MaxToken \in Nat \ {0}
  /\ MaxEpoch \in Nat
  /\ MaxAttempts \in Nat \ {0}
  /\ MaxActive \in Nat \ {0}
  /\ TTL \in Nat \ {0}

VARIABLES
  killed,    \* control.global_kill
  epoch,     \* control.global_kill_epoch
  state,     \* tasks.state
  active,    \* tasks.active_lease_id
  latest,    \* MAX(leases.fencing_token) of the task
  held,      \* the task's rows of leases with released=0
  attempts,  \* tasks.attempts
  journal,   \* the last to_state of the task's events that is not NULL
  idem,      \* idempotency.status of the task's side effect
  snapshots, \* the task's checkpoints: those of state UNKNOWN, which the code
             \* asks for, and "WORKING" for those of any other state
  late,      \* whether created_at + deadline_ms is in the past
  accounts,  \* queue_accounts.active
  bound      \* _bound_leases of each instance

control == <<killed, epoch>>
leases == <<active, latest, held>>
effects == <<idem, snapshots>>
vars == <<killed, epoch, state, active, latest, held, attempts, journal, idem,
          snapshots, late, accounts, bound>>

\* A lease is named by the fencing token it was granted with: both are fresh
\* for every grant of a task.
Tokens == 1..MaxToken
NoLease == 0
LeaseRows == [token : Tokens, epoch : 0..MaxEpoch, ttl : 0..TTL]

Outcomes == {"NOT_APPLIED", "APPLIED", "UNKNOWN", "PARTIAL", "CONFLICT"}
FailureClasses == {"uncertain", "retryable", "terminal"}
IdemStates == {"NONE", "CLAIMED", "RETRYABLE", "COMPLETED", "RECONCILED"}

-----------------------------------------------------------------------------
(* What the operations share. *)

\* CASE WHEN active>0 THEN active-1 ELSE 0, applied n times.
Minus(a, n) == IF n \in 0..a THEN a - n ELSE 0

Init ==
  /\ killed = FALSE
  /\ epoch = 0
  /\ state = [t \in Tasks |-> NoTask]
  /\ active = [t \in Tasks |-> NoLease]
  /\ latest = [t \in Tasks |-> 0]
  /\ held = [t \in Tasks |-> {}]
  /\ attempts = [t \in Tasks |-> 0]
  /\ journal = [t \in Tasks |-> NoTask]
  /\ idem = [t \in Tasks |-> "NONE"]
  /\ snapshots = [t \in Tasks |-> {}]
  /\ late = [t \in Tasks |-> FALSE]
  /\ accounts = [o \in Owners |-> 0]
  /\ bound = [i \in Instances |-> [t \in Tasks |-> NoLease]]

\* Faulty: a lease granted before the kill switch was used stays valid.
LeaseValidInAnyEpoch(t, l) ==
  /\ ~killed
  /\ l = latest[t]
  /\ \E r \in held[t] : r.token = l /\ r.ttl > 0

\* _assert_lease: the lease row of token l is unreleased, unexpired, of the
\* current kill epoch with no kill active, and carries the task's last token.
LeaseValid(t, l) ==
  /\ ~killed
  /\ l = latest[t]
  /\ \E r \in held[t] : r.token = l /\ r.epoch = epoch /\ r.ttl > 0

\* The check of every worker operation: the caller presents the lease its
\* instance is bound to, it is the task's active lease and it is valid.
Authorised(i, t) == active[t] = bound[i][t] /\ LeaseValid(t, bound[i][t])

\* The lease gate of transition(): a task under a lease moves only for the
\* instance that holds it; otherwise a presented lease must still be valid.
LeaseGate(i, t, caller) ==
  /\ state[t] \in LeasedStates \/ active[t] # NoLease =>
       /\ caller = bound[i][t]
       /\ active[t] \in {NoLease, caller}
       /\ LeaseValid(t, caller)
  /\ caller # NoLease => LeaseValid(t, caller)

\* UPDATE tasks SET state together with the journal event of the move.
Move(t, s) ==
  /\ state' = [state EXCEPT ![t] = s]
  /\ journal' = [journal EXCEPT ![t] = s]

RowsOf(ts) == UNION {{<<t, r>> : r \in held[t]} : t \in ts}
RowOfLease(t, l) == {p \in RowsOf({t}) : p[2].token = l}

\* Faulty: a sweep decrements each owner's account once, however many leases it
\* releases.
ReleaseCountingOnce(rows) ==
  /\ held' = [t \in Tasks |-> {r \in held[t] : <<t, r>> \notin rows}]
  /\ accounts' = [o \in Owners |->
       IF \E p \in rows : Owner[p[1]] = o THEN Minus(accounts[o], 1) ELSE accounts[o]]

\* Faulty: the account is decremented without looking whether a lease is released.
ReleaseCountingAlways(rows) ==
  /\ held' = [t \in Tasks |-> {r \in held[t] : <<t, r>> \notin rows}]
  /\ accounts' = [o \in Owners |-> accounts[o] - 1]

\* Faulty: the account is not decremented.
ReleaseUncounted(rows) ==
  /\ held' = [t \in Tasks |-> {r \in held[t] : <<t, r>> \notin rows}]
  /\ UNCHANGED accounts

\* UPDATE leases SET released=1 for rows, and one account decrement for each.
Release(rows) ==
  /\ held' = [t \in Tasks |-> {r \in held[t] : <<t, r>> \notin rows}]
  /\ accounts' = [o \in Owners |->
       Minus(accounts[o], Cardinality({p \in rows : Owner[p[1]] = o}))]

\* self._bound_leases.pop(task_id, None)
Unbind(i, ts) ==
  bound' = [bound EXCEPT ![i] =
              [t \in Tasks |-> IF t \in ts THEN NoLease ELSE bound[i][t]]]

Deactivate(t) == active' = [active EXCEPT ![t] = NoLease]

-----------------------------------------------------------------------------
(* Creating, planning, queueing. *)

CreateTask(t) ==
  /\ state[t] = NoTask
  /\ Move(t, "CREATED")
  /\ UNCHANGED <<control, leases, attempts, effects, late, accounts, bound>>

\* transition(): l is the lease_id argument, NoLease when it is not given. The
\* WHY gate may veto a move to RUNNING, CHECKPOINTED or VERIFYING: the step is
\* then not taken.
Transition(i, t, to, l) ==
  LET caller == IF l = NoLease THEN bound[i][t] ELSE l IN
  /\ to \in Allowed(state[t]) \ {"COMPLETED", "FAILED"}
  /\ ~(state[t] = "WAITING_APPROVAL" /\ to = "READY")
  /\ LeaseGate(i, t, caller)
  /\ Move(t, to)
  /\ IF to \in LeaseKept
       THEN /\ active' = [active EXCEPT ![t] = caller]
            /\ UNCHANGED <<held, accounts, bound>>
       ELSE /\ Deactivate(t)
            /\ Release(RowOfLease(t, caller))
            /\ IF caller = NoLease THEN UNCHANGED bound ELSE Unbind(i, {t})
  /\ UNCHANGED <<control, latest, attempts, effects, late>>

\* commit_approval(): the approval token's signature and scope are external.
CommitApproval(t) ==
  /\ ~killed
  /\ state[t] = "WAITING_APPROVAL"
  /\ Move(t, "READY")
  /\ UNCHANGED <<control, leases, attempts, effects, late, accounts, bound>>

\* Faulty: MAX(fencing_token) is reused once there is one.
GrantReusingToken(i, t) ==
  LET token == IF latest[t] = 0 THEN 1 ELSE latest[t] IN
  /\ latest' = [latest EXCEPT ![t] = token]
  /\ held' = [held EXCEPT ![t] =
                @ \cup {[token |-> token, epoch |-> epoch, ttl |-> TTL]}]
  /\ accounts' = [accounts EXCEPT ![Owner[t]] = @ + 1]
  /\ bound' = [bound EXCEPT ![i] = [@ EXCEPT ![t] = token]]

\* The lease that claim() and claim_next() grant; the task's row is updated beside it.
Grant(i, t) ==
  LET token == latest[t] + 1 IN
  /\ token \in Tokens
  /\ latest' = [latest EXCEPT ![t] = token]
  /\ held' = [held EXCEPT ![t] =
                @ \cup {[token |-> token, epoch |-> epoch, ttl |-> TTL]}]
  /\ accounts' = [accounts EXCEPT ![Owner[t]] = @ + 1]
  /\ bound' = [bound EXCEPT ![i] = [@ EXCEPT ![t] = token]]

\* Faulty: a checkpointed task is taken for resumable while its lease is live.
ClaimCheckpointed(i, t) ==
  /\ ~killed
  /\ ~late[t]
  /\ state[t] \in {"QUEUED", "CHECKPOINTED"}
  /\ Grant(i, t)
  /\ active' = [active EXCEPT ![t] = latest'[t]]
  /\ Move(t, "LEASED")
  /\ UNCHANGED <<control, attempts, effects, late>>

Claim(i, t) ==
  /\ ~killed
  /\ ~late[t]
  /\ state[t] = "QUEUED"
  /\ Grant(i, t)
  /\ active' = [active EXCEPT ![t] = latest'[t]]
  /\ Move(t, "LEASED")
  /\ UNCHANGED <<control, attempts, effects, late>>

\* The queued tasks claim_next() would fail, and those it would lease. Which of
\* the late ones precede the leased one in the queue's order is left open.
Overdue == {t \in Tasks : state[t] = "QUEUED" /\ late[t]}
\* Faulty: off by one.
EligibleAtCap == {t \in Tasks : /\ state[t] = "QUEUED" /\ ~late[t]
                                /\ accounts[Owner[t]] <= MaxActive}

Eligible == {t \in Tasks : /\ state[t] = "QUEUED" /\ ~late[t]
                           /\ accounts[Owner[t]] < MaxActive}

\* UPDATE tasks SET state='FAILED' for each, with a DEADLINE_EXPIRED event.
AfterScan(f, gone, granted) ==
  [t \in Tasks |-> IF t \in gone THEN "FAILED"
                   ELSE IF t \in granted THEN "LEASED" ELSE f[t]]

ScanDeactivates(gone) == [t \in Tasks |-> IF t \in gone THEN NoLease ELSE active[t]]

ClaimNext(i) ==
  /\ ~killed
  /\ \/ \E t \in Eligible, gone \in SUBSET Overdue :
          /\ Grant(i, t)
          /\ active' = [ScanDeactivates(gone) EXCEPT ![t] = latest'[t]]
          /\ state' = AfterScan(state, gone, {t})
          /\ journal' = AfterScan(journal, gone, {t})
     \/ /\ Eligible = {}
        /\ Overdue # {}
        /\ active' = ScanDeactivates(Overdue)
        /\ state' = AfterScan(state, Overdue, {})
        /\ journal' = AfterScan(journal, Overdue, {})
        /\ UNCHANGED <<latest, held, accounts, bound>>
  /\ UNCHANGED <<control, attempts, effects, late>>

-----------------------------------------------------------------------------
(* What a worker does with its lease. *)

Start(i, t) ==
  /\ LeaseValid(t, bound[i][t])
  /\ state[t] = "LEASED"
  /\ active[t] \in {NoLease, bound[i][t]}
  /\ Move(t, "RUNNING")
  /\ active' = [active EXCEPT ![t] = bound[i][t]]
  /\ UNCHANGED <<control, latest, held, attempts, effects, late, accounts, bound>>

Extend(t, l) ==
  held' = [held EXCEPT ![t] =
             {IF r.token = l THEN [r EXCEPT !.ttl = TTL] ELSE r : r \in @}]

Heartbeat(i, t) ==
  /\ Authorised(i, t)
  /\ state[t] \in LeasedStates
  /\ Extend(t, bound[i][t])
  /\ UNCHANGED <<control, state, active, latest, attempts, journal, effects,
                 late, accounts, bound>>

\* renew_lease() does not look at _bound_leases: the caller presents the Lease
\* its instance granted it, which is the one the instance is bound to until
\* the instance forgets it.
RenewLease(i, t) ==
  /\ Authorised(i, t)
  /\ state[t] \in Renewable
  /\ Extend(t, bound[i][t])
  /\ UNCHANGED <<control, state, active, latest, attempts, journal, effects,
                 late, accounts, bound>>

\* release(): the lease goes, the task's state stays.
ReleaseLease(i, t) ==
  /\ Authorised(i, t)
  /\ Release(RowOfLease(t, bound[i][t]))
  /\ Deactivate(t)
  /\ Unbind(i, {t})
  /\ UNCHANGED <<control, state, latest, attempts, journal, effects, late>>

\* Faulty, as it once was: the snapshot's state is journalled as a transition.
CheckpointAsTransition(i, t) ==
  /\ Authorised(i, t)
  /\ state[t] \in LeaseKept
  /\ snapshots' = [snapshots EXCEPT ![t] = @ \cup {"WORKING"}]
  /\ journal' = [journal EXCEPT ![t] = "WAITING_TOOL"]
  /\ UNCHANGED <<control, state, leases, attempts, idem, late, accounts, bound>>

\* checkpoint(), as its two callers use it: with state RUNNING (the ask adapter) or
\* WAITING_TOOL (the hands bridge). The event has no to_state, so the journal's
\* projection stays.
Checkpoint(i, t) ==
  /\ Authorised(i, t)
  /\ state[t] \in LeaseKept
  /\ snapshots' = [snapshots EXCEPT ![t] = @ \cup {"WORKING"}]
  /\ UNCHANGED <<control, state, leases, attempts, journal, idem, late,
                 accounts, bound>>

\* record_action_dispatched(): the side effect was sent, its result is not
\* known; the lease is kept.
RecordActionDispatched(i, t) ==
  /\ Authorised(i, t)
  /\ state[t] \in {"RUNNING", "WAITING_TOOL"}
  /\ Move(t, "UNKNOWN")
  /\ snapshots' = [snapshots EXCEPT ![t] = @ \cup {"UNKNOWN"}]
  /\ UNCHANGED <<control, leases, attempts, idem, late, accounts, bound>>

\* idempotency_claim() when it answers that the caller now owns the effect.
IdempotencyClaim(i, t) ==
  /\ Authorised(i, t)
  /\ idem[t] \in {"NONE", "RETRYABLE"}
  /\ idem' = [idem EXCEPT ![t] = "CLAIMED"]
  /\ UNCHANGED <<control, state, leases, attempts, journal, snapshots, late,
                 accounts, bound>>

IdempotencyComplete(i, t) ==
  /\ Authorised(i, t)
  /\ idem[t] = "CLAIMED"
  /\ idem' = [idem EXCEPT ![t] = "COMPLETED"]
  /\ UNCHANGED <<control, state, leases, attempts, journal, snapshots, late,
                 accounts, bound>>

\* The end of an attempt: the task moves and its lease is given up.
EndAttempt(i, t, s) ==
  /\ Move(t, s)
  /\ Deactivate(t)
  /\ Release(RowOfLease(t, bound[i][t]))
  /\ Unbind(i, {t})
  /\ UNCHANGED <<control, latest, effects, late>>

\* commit_completed(), alone or under commit_verification_result(), whose
\* checks it repeats; the verifier's receipt is external.
CommitCompleted(i, t) ==
  /\ Authorised(i, t)
  /\ state[t] = "VERIFYING"
  /\ EndAttempt(i, t, "COMPLETED")
  /\ UNCHANGED attempts

AfterFailure(t, class) ==
  CASE class = "uncertain" -> "UNKNOWN"
    [] class = "retryable" /\ attempts[t] + 1 < MaxAttempts -> "RETRY_SCHEDULED"
    [] OTHER -> "FAILED"

\* Faulty: the lease survives the failure it reported.
CommitFailedKeepingLease(i, t, class) ==
  /\ Authorised(i, t)
  /\ state[t] \in LeasedStates
  /\ attempts' = [attempts EXCEPT ![t] = @ + 1]
  /\ Move(t, AfterFailure(t, class))
  /\ UNCHANGED <<control, leases, effects, late, accounts, bound>>

CommitFailed(i, t, class) ==
  /\ Authorised(i, t)
  /\ state[t] \in LeasedStates
  /\ attempts' = [attempts EXCEPT ![t] = @ + 1]
  /\ EndAttempt(i, t, AfterFailure(t, class))

-----------------------------------------------------------------------------
(* Reconciliation of an effect whose result is unknown. *)

\* Faulty: only the task's row and the instance's binding are cleared.
RevokeBindingOnly(i, t) ==
  /\ Deactivate(t)
  /\ Unbind(i, {t})
  /\ UNCHANGED <<held, accounts>>

\* The end of every lease of t, whoever holds it.
Revoke(i, t) ==
  /\ Deactivate(t)
  /\ Release(RowsOf({t}))
  /\ Unbind(i, {t})

EnterReconciling(i, t) ==
  /\ "UNKNOWN" \in snapshots[t]
  /\ state[t] = "UNKNOWN"
  /\ Move(t, "RECONCILING")
  /\ Revoke(i, t)
  /\ UNCHANGED <<control, latest, attempts, effects, late>>

\* Faulty: an outcome is accepted before the worker has been cut off.
ReconcileWithoutEntering(i, t, outcome) ==
  /\ "UNKNOWN" \in snapshots[t]
  /\ state[t] \in {"UNKNOWN", "RECONCILING"}
  /\ idem[t] = "CLAIMED"
  /\ Move(t, IF outcome = "NOT_APPLIED" THEN "QUEUED" ELSE "HUMAN_REVIEW")
  /\ idem' = [idem EXCEPT ![t] = IF outcome = "NOT_APPLIED" THEN "RETRYABLE"
                                 ELSE "RECONCILED"]
  /\ Revoke(i, t)
  /\ UNCHANGED <<control, latest, attempts, snapshots, late>>

ReconcileUnknown(i, t, outcome) ==
  /\ "UNKNOWN" \in snapshots[t]
  /\ state[t] = "RECONCILING"
  /\ idem[t] = "CLAIMED"
  /\ Move(t, IF outcome = "NOT_APPLIED" THEN "QUEUED" ELSE "HUMAN_REVIEW")
  /\ idem' = [idem EXCEPT ![t] = IF outcome = "NOT_APPLIED" THEN "RETRYABLE"
                                 ELSE "RECONCILED"]
  /\ Revoke(i, t)
  /\ UNCHANGED <<control, latest, attempts, snapshots, late>>

-----------------------------------------------------------------------------
(* Operators and watchdogs. *)

SetGlobalKill(on) ==
  /\ killed' = on
  /\ epoch' = IF on THEN epoch + 1 ELSE epoch
  /\ epoch' \in 0..MaxEpoch
  /\ UNCHANGED <<state, leases, attempts, journal, effects, late, accounts,
                 bound>>

\* Faulty: the kill does not look whether the task has ended.
SetTaskKillAlways(i, t) ==
  /\ state[t] # NoTask
  /\ Move(t, "CANCELLED")
  /\ Revoke(i, t)
  /\ UNCHANGED <<control, latest, attempts, effects, late>>

\* set_task_kill(), and cancel(), its alias.
SetTaskKill(i, t) ==
  /\ state[t] \notin Terminal \cup {NoTask}
  /\ Move(t, "CANCELLED")
  /\ Revoke(i, t)
  /\ UNCHANGED <<control, latest, attempts, effects, late>>

\* Faulty: only the leases of tasks that will move are swept.
ExpiredRowsOfSweepable ==
  {p \in RowsOf(Tasks) : p[2].ttl = 0 /\ state[p[1]] \in Sweepable}

ExpiredRows == {p \in RowsOf(Tasks) : p[2].ttl = 0}

\* expire_leases(), over every task of the database.
ExpireLeases(i) ==
  LET swept == {p[1] : p \in ExpiredRows}
      Swept(f) == [t \in Tasks |-> IF t \in swept /\ AfterExpiry(state[t]) # state[t]
                                   THEN AfterExpiry(state[t]) ELSE f[t]]
  IN
  /\ ExpiredRows # {}
  /\ state' = Swept(state)
  /\ journal' = Swept(journal)
  /\ active' = [t \in Tasks |->
       IF t \in swept /\ (\/ AfterExpiry(state[t]) # state[t]
                          \/ \E p \in ExpiredRows : p[1] = t /\ p[2].token = active[t])
         THEN NoLease ELSE active[t]]
  /\ Release(ExpiredRows)
  /\ Unbind(i, swept)
  /\ UNCHANGED <<control, latest, attempts, effects, late>>

\* Faulty: only tasks that still have a lease row are looked at.
OrphanWithLease(t) ==
  /\ state[t] \in Sweepable
  /\ held[t] # {}
  /\ \A r \in held[t] : r.ttl = 0

\* An unexpired unreleased lease still belongs to a live worker.
Orphan(t) ==
  /\ state[t] \in Sweepable
  /\ \A r \in held[t] : r.ttl = 0

\* auto_reconcile_orphans(): stale is the set of tasks whose updated_at is old
\* enough. Each orphan moves twice, through RECOVERING to RECONCILING.
AutoReconcile(i, stale) ==
  LET orphans == {t \in stale : Orphan(t)}
      Reconciling(f) == [t \in Tasks |-> IF t \in orphans THEN "RECONCILING" ELSE f[t]]
  IN
  /\ orphans # {}
  /\ state' = Reconciling(state)
  /\ journal' = Reconciling(journal)
  /\ active' = [t \in Tasks |-> IF t \in orphans THEN NoLease ELSE active[t]]
  /\ Release(RowsOf(orphans))
  /\ Unbind(i, orphans)
  /\ UNCHANGED <<control, latest, attempts, effects, late>>

\* The lease the journal and the lease table give a task.
ReplayedLease(t) ==
  IF journal[t] \in LeasedStates /\ held[t] # {}
    THEN (CHOOSE r \in held[t] : \A q \in held[t] : q.token <= r.token).token
    ELSE NoLease

RebuildProjection(t) ==
  /\ state[t] # NoTask
  /\ state' = [state EXCEPT ![t] = journal[t]]
  /\ active' = [active EXCEPT ![t] = ReplayedLease(t)]
  /\ UNCHANGED <<control, latest, held, attempts, journal, effects, late,
                 accounts, bound>>

-----------------------------------------------------------------------------
(* The environment: time, deadlines, and the end of a process. *)

\* Some time passes, for every unreleased lease alike.
Tick ==
  /\ \E t \in Tasks : \E r \in held[t] : r.ttl > 0
  /\ held' = [t \in Tasks |->
       {[r EXCEPT !.ttl = Minus(@, 1)] : r \in held[t]}]
  /\ UNCHANGED <<control, state, active, latest, attempts, journal, effects,
                 late, accounts, bound>>

DeadlinePasses(t) ==
  /\ t \in LateTasks
  /\ state[t] # NoTask
  /\ ~late[t]
  /\ late' = [late EXCEPT ![t] = TRUE]
  /\ UNCHANGED <<control, state, leases, attempts, journal, effects, accounts,
                 bound>>

\* close(), or the death of the process: the instance is a new object.
Crash(i) ==
  /\ \E t \in Tasks : bound[i][t] # NoLease
  /\ Unbind(i, Tasks)
  /\ UNCHANGED <<control, state, leases, attempts, journal, effects, late,
                 accounts>>

\* An operation that ends a lease drops the binding before its COMMIT: when the
\* event or the COMMIT raises, the database is rolled back and the binding is
\* not. (claim() may so leave a binding to a lease that does not exist: it is
\* never valid and counts as none.)
CommitRaises(i, t) ==
  /\ bound[i][t] # NoLease
  /\ Unbind(i, {t})
  /\ UNCHANGED <<control, state, leases, attempts, journal, effects, late,
                 accounts>>

-----------------------------------------------------------------------------
WorkerStep(i, t) ==
  \/ Claim(i, t)
  \/ Start(i, t)
  \/ Heartbeat(i, t)
  \/ RenewLease(i, t)
  \/ ReleaseLease(i, t)
  \/ Checkpoint(i, t)
  \/ RecordActionDispatched(i, t)
  \/ IdempotencyClaim(i, t)
  \/ IdempotencyComplete(i, t)
  \/ CommitCompleted(i, t)
  \/ \E class \in FailureClasses : CommitFailed(i, t, class)
  \/ \E to \in Allowed(state[t]), l \in Tokens \cup {NoLease} : Transition(i, t, to, l)
  \/ CommitRaises(i, t)

OperatorStep(i, t) ==
  \/ EnterReconciling(i, t)
  \/ \E outcome \in Outcomes : ReconcileUnknown(i, t, outcome)
  \/ SetTaskKill(i, t)

TaskStep(t) ==
  \/ CreateTask(t)
  \/ CommitApproval(t)
  \/ RebuildProjection(t)
  \/ DeadlinePasses(t)

InstanceStep(i) ==
  \/ ClaimNext(i)
  \/ ExpireLeases(i)
  \/ \E stale \in SUBSET Tasks : AutoReconcile(i, stale)
  \/ Crash(i)

Next ==
  \/ \E i \in Instances, t \in Tasks : WorkerStep(i, t) \/ OperatorStep(i, t)
  \/ \E t \in Tasks : TaskStep(t)
  \/ \E i \in Instances : InstanceStep(i)
  \/ \E on \in BOOLEAN : SetGlobalKill(on)
  \/ Tick

Spec == Init /\ [][Next]_vars
=============================================================================
