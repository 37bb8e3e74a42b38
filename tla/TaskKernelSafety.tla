-------------------------- MODULE TaskKernelSafety --------------------------
(***************************************************************************)
(* The safety properties of the task kernel.                               *)
(***************************************************************************)
EXTENDS TaskKernel

\* The type of every variable: the shape of the database rows and of the
\* in-memory bindings.
TypeOK ==
  /\ killed \in BOOLEAN
  /\ epoch \in 0..MaxEpoch
  /\ state \in [Tasks -> TaskStates \cup {NoTask}]
  /\ active \in [Tasks -> Tokens \cup {NoLease}]
  /\ latest \in [Tasks -> 0..MaxToken]
  /\ held \in [Tasks -> SUBSET LeaseRows]
  /\ attempts \in [Tasks -> Nat]
  /\ journal \in [Tasks -> TaskStates \cup {NoTask}]
  /\ idem \in [Tasks -> IdemStates]
  /\ snapshots \in [Tasks -> SUBSET {"WORKING", "UNKNOWN"}]
  /\ late \in [Tasks -> BOOLEAN]
  /\ accounts \in [Owners -> Nat]
  /\ bound \in [Instances -> [Tasks -> Tokens \cup {NoLease}]]

\* A task has at most one unreleased lease, it is the last one granted and the
\* active one, and the task is in a state that expects a lease. claim() checks
\* only that the task is QUEUED, so every path into QUEUED, or out of the
\* leased states, must have released what was granted before.
OneLiveAttempt ==
  \A t \in Tasks : \A r \in held[t] :
    /\ held[t] = {r}
    /\ r.token = latest[t]
    /\ r.token = active[t]
    /\ state[t] \in LeasedStates

\* "The journal is authoritative; tasks is a rebuildable projection": replaying
\* the journal over the lease table gives the state and the active lease that
\* the tasks row has, so rebuild_projection() never moves a healthy task.
ProjectionIsReplay ==
  \A t \in Tasks : state[t] = journal[t] /\ active[t] = ReplayedLease(t)

\* No two kernel instances can both pass the checks of a worker operation for
\* one task, whatever leases they still remember.
ExclusiveAuthority ==
  \A t \in Tasks : \A i, j \in Instances :
    Authorised(i, t) /\ Authorised(j, t) => i = j

LeasesOf(o) == Cardinality({p \in RowsOf(Tasks) : Owner[p[1]] = o})

\* An owner's queue account counts its unreleased leases: whatever releases a
\* lease, of one task or of all the expired ones, decrements the account as often
\* as it releases.
AccountsMatchLeases ==
  \A o \in Owners :
    accounts[o] = LeasesOf(o)

\* A lease pays for at most one failed attempt, and for none while it is live: a
\* worker cannot charge the retry budget twice.
AttemptChargedOnce ==
  \A t \in Tasks : attempts[t] + Cardinality(held[t]) <= latest[t]

\* What only a worker may write is written only under a live lease of the current
\* kill epoch that no later grant has fenced off: no stale worker, and none
\* under the kill switch, starts, dispatches, verifies, completes or fails a
\* task, or writes its idempotency key.
LiveLease(t) ==
  /\ ~killed
  /\ \E r \in held[t] : /\ r.token = latest[t] /\ r.token = active[t]
                        /\ r.epoch = epoch /\ r.ttl > 0

WorkerOnly(t) ==
  \/ /\ state'[t] # state[t]
     /\ state'[t] \in {"RUNNING", "WAITING_TOOL", "VERIFYING", "UNKNOWN",
                       "COMPLETED", "RETRY_SCHEDULED"}
  \/ attempts'[t] # attempts[t]
  \/ idem'[t] # idem[t] /\ idem'[t] \in {"CLAIMED", "COMPLETED"}

WorkerStepsAreFenced ==
  [][\A t \in Tasks : WorkerOnly(t) => LiveLease(t)]_vars

\* A terminal task is immutable: no late worker, watchdog, operator or replay
\* writes its state, its journal, its attempts, its effect or its checkpoints,
\* or grants a lease on it.
TerminalIsFinal ==
  [][\A t \in Tasks : state[t] \in Terminal =>
       UNCHANGED <<state[t], journal[t], attempts[t], idem[t], snapshots[t],
                   active[t], latest[t], held[t]>>]_vars

\* A claimed effect becomes retryable only by reconciliation of a dispatched
\* action, at a time when no lease on the task is left that could still be
\* producing it; and the task it is handed to is queued, not running.
RetryNeedsReconcile ==
  [][\A t \in Tasks : idem[t] = "CLAIMED" /\ idem'[t] = "RETRYABLE" =>
       /\ state[t] = "RECONCILING"
       /\ held[t] = {}
       /\ "UNKNOWN" \in snapshots[t]
       /\ state'[t] = "QUEUED"]_vars

\* claim_next() never takes an owner over max_active_per_owner, whatever claims,
\* sweeps, kills and releases the count went through before.
OwnerCapKept ==
  [][\A i \in Instances, t \in Tasks :
       ClaimNext(i) /\ latest'[t] # latest[t] => LeasesOf(Owner[t])' <= MaxActive]_vars

-----------------------------------------------------------------------------
\* The kernel implements ExecutionAuthority: a task is held while it has an
\* unreleased lease.
Phase(t) == IF state[t] \in Terminal THEN "closed"
            ELSE IF held[t] # {} THEN "held" ELSE "open"

Authority == INSTANCE ExecutionAuthority
               WITH phase <- [t \in Tasks |-> Phase(t)], attempt <- latest

\* Every step of the kernel is a step of ExecutionAuthority or changes nothing
\* it can see: attempts never overlap, are numbered one by one, and none is
\* granted once the task is closed.
ImplementsAuthority == Authority!ASpec
=============================================================================
