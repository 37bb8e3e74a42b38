------------------------ MODULE TaskKernelStepProofs ------------------------
(***************************************************************************)
(* Proofs about the steps of the task kernel: terminal tasks are final,    *)
(* what a worker writes is fenced, a claimed effect becomes retryable only *)
(* when nobody can be producing it, and every step implements              *)
(* ExecutionAuthority. They rest on the inductive invariant of             *)
(* TaskKernelProofs.                                                       *)
(***************************************************************************)
EXTENDS TaskKernelProofs

\* What the invariant says of one task, in the form the steps need.
LEMMA TaskFacts ==
  ASSUME Sound, NEW u \in Tasks
  PROVE  /\ state[u] = journal[u]
         /\ held[u] # {} => state[u] \in LeasedStates
         /\ NoGhost(u) => ReplayedLease(u) = active[u]
         /\ state[u] \in TaskStates \cup {NoTask}
         /\ attempts[u] \in Nat /\ latest[u] \in Nat
<1>1. Fit(u) /\ TypeOK
  BY DEF Sound
<1> QED
  BY <1>1, ReplayIsActive, KernelAssumption
     DEF Fit, SoleLease, NoGhost, Journalled, TypeOK, KernelAssumption

\* Expiry moves the task of an expired lease, and no other task.
LEMMA ExpiryMoves ==
  ASSUME NEW i \in Instances, ExpireLeases(i), NEW u \in Tasks
  PROVE  /\ held[u] = {} => /\ state'[u] = state[u] /\ journal'[u] = journal[u]
                            /\ active'[u] = active[u]
         /\ state'[u] \in {state[u], AfterExpiry(state[u])}
         /\ held'[u] = {r \in held[u] : r.ttl # 0}
         /\ UNCHANGED <<killed, epoch, latest, attempts, idem, snapshots>>
<1> DEFINE swept == {p[1] : p \in ExpiredRows}
<1>1. held[u] = {} => u \notin swept
  <2>1. \A p \in ExpiredRows : \E v \in Tasks : \E r \in held[v] : p = <<v, r>>
    BY DEF ExpiredRows, RowsOf
  <2> QED
    BY <2>1
<1>2. /\ state'[u] = IF u \in swept /\ AfterExpiry(state[u]) # state[u]
                       THEN AfterExpiry(state[u]) ELSE state[u]
      /\ journal'[u] = IF u \in swept /\ AfterExpiry(state[u]) # state[u]
                         THEN AfterExpiry(state[u]) ELSE journal[u]
      /\ u \notin swept => active'[u] = active[u]
      /\ Release(ExpiredRows)
      /\ UNCHANGED <<killed, epoch, latest, attempts, idem, snapshots>>
  BY DEF ExpireLeases, control, effects
<1> HIDE DEF swept
<1> QED
  BY <1>1, <1>2, ReleaseExpired

-----------------------------------------------------------------------------
(* What the adapters do is the kernel's doing. *)

\* The operations of workers and operators are kernel steps.
LEMMA WorkerStepIsNext ==
  ASSUME NEW i \in Instances, NEW t \in Tasks, WorkerStep(i, t)
  PROVE  Next
BY DEF Next

LEMMA OperatorStepIsNext ==
  ASSUME NEW i \in Instances, NEW t \in Tasks, OperatorStep(i, t)
  PROVE  Next
BY DEF Next

\* The death of a process is the crash of its instance, or changes nothing if the
\* instance held no lease.
LEMMA DeathIsCrash ==
  ASSUME TypeOK, NEW i \in Instances, Unbind(i, Tasks),
         UNCHANGED <<control, state, leases, attempts, journal, effects, late, accounts>>
  PROVE  [Next]_vars
<1>1. CASE \E t \in Tasks : bound[i][t] # NoLease
  <2>1. Crash(i)
    BY <1>1 DEF Crash
  <2> QED BY <2>1 DEF Next, InstanceStep
<1>2. CASE \A t \in Tasks : bound[i][t] = NoLease
  <2>1. bound \in [Instances -> [Tasks -> Tokens \cup {NoLease}]]
    BY DEF TypeOK
  <2>2. bound[i] = [t \in Tasks |-> NoLease]
    BY <1>2, <2>1
  <2>3. bound' = [bound EXCEPT ![i] = [t \in Tasks |-> NoLease]]
    BY <1>2 DEF Unbind
  <2>4. bound' = bound
    BY <2>1, <2>2, <2>3
  <2> QED BY <2>4 DEF vars, control, leases, effects
<1> QED BY <1>1, <1>2

\* A move concerns one task.
LEMMA MoveIsLocal ==
  ASSUME TypeOK, NEW t \in Tasks, NEW s, Move(t, s)
  PROVE  state'[t] = s /\ \A u \in Tasks \ {t} : state'[u] = state[u]
BY DEF Move, TypeOK

-----------------------------------------------------------------------------
(* What a step can do to one task. *)

\* The step is none of the task's business; at most time passes for its lease, or
\* the name of a lease that has ended is cleared.
Idle(u) ==
  /\ state'[u] = state[u] /\ journal'[u] = journal[u]
  /\ NoGhost(u) => active'[u] = active[u]
  /\ latest'[u] = latest[u] /\ attempts'[u] = attempts[u]
  /\ idem'[u] = idem[u] /\ snapshots'[u] = snapshots[u]
  /\ held'[u] = {} <=> held[u] = {}

\* The task is claimed.
Granting(u) ==
  /\ state[u] = "QUEUED" /\ held[u] = {}
  /\ state'[u] = "LEASED" /\ held'[u] # {} /\ latest'[u] = latest[u] + 1
  /\ attempts'[u] = attempts[u] /\ idem'[u] = idem[u]

\* Its worker does something under a live lease.
Working(u) ==
  /\ LiveLease(u)
  /\ latest'[u] = latest[u]
  /\ idem'[u] = "RETRYABLE" => idem[u] = "RETRYABLE"

\* An operator or a watchdog does something: the task has not ended, and is not
\* taken where only a worker may take it; its effect changes only by
\* reconciliation.
Intervening(u) ==
  /\ state[u] \notin Terminal
  /\ latest'[u] = latest[u] /\ attempts'[u] = attempts[u]
  /\ held'[u] \in {held[u], {}}
  /\ state'[u] = state[u] \/ state'[u] \notin {"RUNNING", "WAITING_TOOL", "VERIFYING",
                                             "UNKNOWN", "COMPLETED", "RETRY_SCHEDULED"}
  /\ \/ idem'[u] = idem[u]
     \/ idem'[u] = "RECONCILED"
     \/ /\ idem'[u] = "RETRYABLE" /\ held[u] = {} /\ state[u] = "RECONCILING"
        /\ "UNKNOWN" \in snapshots[u] /\ state'[u] = "QUEUED"

StepOf(u) == Idle(u) \/ Granting(u) \/ Working(u) \/ Intervening(u)

\* A valid lease is a live one in the sense of the property.
LEMMA ValidIsLive ==
  ASSUME Sound, NEW t \in Tasks, NEW l, LeaseValid(t, l)
  PROVE  LiveLease(t)
BY ValidLease DEF LiveLease

\* Every step of the kernel is one of the four for every task.
LEMMA EveryStep ==
  ASSUME Sound, [Next]_vars, NEW u \in Tasks
  PROVE  StepOf(u)
<1> USE DEF StepOf, control, leases, effects
<1>a. TypeOK
  BY DEF Sound
<1>b. /\ state[u] = journal[u]
      /\ held[u] # {} => state[u] \in LeasedStates
      /\ NoGhost(u) => ReplayedLease(u) = active[u]
  BY TaskFacts
<1>1. ASSUME NEW t \in Tasks, CreateTask(t) PROVE StepOf(u)
  BY <1>1, <1>a DEF CreateTask, Move, TypeOK, Idle, Intervening, Terminal, NoTask
<1>2. ASSUME NEW i \in Instances, NEW t \in Tasks, NEW to, NEW l \in Tokens \cup {NoLease},
             Transition(i, t, to, l)
      PROVE StepOf(u)
  <2> DEFINE caller == IF l = NoLease THEN bound[i][t] ELSE l
  <2>1. /\ to \in Allowed(state[t]) /\ to # "COMPLETED"
        /\ UNCHANGED <<latest, attempts, idem, snapshots>>
        /\ Move(t, to) /\ LeaseGate(i, t, caller)
    BY <1>2 DEF Transition
  <2>2. /\ to \in LeaseKept =>
              held' = held /\ active' = [active EXCEPT ![t] = caller]
        /\ to \notin LeaseKept => Deactivate(t) /\ Release(RowOfLease(t, caller))
    BY <1>2 DEF Transition
  <2> HIDE DEF caller
  <2>3. CASE u # t
    <3>1. held'[u] = held[u]
      BY <2>2, <2>3, ReleaseOne
    <3> QED
      BY <2>1, <2>2, <2>3, <3>1, <1>a DEF Move, Deactivate, TypeOK, Idle
  <2>4. CASE u = t /\ caller # NoLease
    <3>1. LiveLease(u)
      BY <2>1, <2>4, ValidIsLive DEF LeaseGate
    <3> QED
      BY <2>1, <3>1 DEF Working
  <2>5. CASE u = t /\ caller = NoLease
    <3>1. held[u] = {} /\ state[u] \notin LeasedStates
      BY <2>1, <2>5, <1>b, ValidLease DEF LeaseGate
    <3>2. held'[u] = {}
      BY <2>2, <2>5, <3>1, ReleaseOne
    <3>3. state'[u] = to
      BY <2>1, <2>5, <1>a DEF Move, TypeOK
    <3> QED
      BY <2>1, <2>5, <3>1, <3>2, <3>3, AllowedFacts DEF Intervening
  <2> QED
    BY <2>3, <2>4, <2>5
<1>3. ASSUME NEW t \in Tasks, CommitApproval(t) PROVE StepOf(u)
  BY <1>3, <1>a DEF CommitApproval, Move, TypeOK, Idle, Intervening, Terminal
<1>4. ASSUME NEW i \in Instances, NEW t \in Tasks, Grant(i, t), state[t] = "QUEUED",
             u = t => state'[u] = "LEASED",
             u # t => state'[u] = state[u] /\ journal'[u] = journal[u] /\ active'[u] = active[u],
             UNCHANGED <<attempts, idem, snapshots>>
      PROVE StepOf(u)
  <2>1. CASE u = t
    <3>1. held[u] = {}
      BY <1>4, <2>1, <1>b DEF LeasedStates
    <3>2. latest'[u] = latest[u] + 1 /\ held'[u] # {}
      BY <1>4, <2>1, <1>a DEF Grant, TypeOK
    <3> QED
      BY <1>4, <2>1, <3>1, <3>2 DEF Granting
  <2>2. CASE u # t
    BY <1>4, <2>2, <1>a DEF Grant, TypeOK, Idle
  <2> QED
    BY <2>1, <2>2
<1>5. ASSUME NEW i \in Instances, NEW t \in Tasks, Claim(i, t) PROVE StepOf(u)
  <2>1. /\ u = t => state'[u] = "LEASED"
        /\ u # t => state'[u] = state[u] /\ journal'[u] = journal[u] /\ active'[u] = active[u]
    BY <1>5, <1>a DEF Claim, Move, TypeOK
  <2> QED
    BY <1>4, <1>5, <2>1 DEF Claim
<1>6. ASSUME NEW i \in Instances, ClaimNext(i) PROVE StepOf(u)
  <2>1. UNCHANGED <<attempts, idem, snapshots>>
    BY <1>6 DEF ClaimNext
  <2>2. ASSUME u \in Overdue, state'[u] = "FAILED", latest'[u] = latest[u], held'[u] = held[u]
        PROVE  StepOf(u)
    BY <2>1, <2>2 DEF Overdue, Intervening, Terminal
  <2>3. ASSUME NEW t \in Eligible, NEW gone \in SUBSET Overdue, Grant(i, t),
               active' = [ScanDeactivates(gone) EXCEPT ![t] = latest'[t]],
               state' = AfterScan(state, gone, {t}), journal' = AfterScan(journal, gone, {t})
        PROVE  StepOf(u)
    <3>1. t \in Tasks /\ state[t] = "QUEUED" /\ t \notin gone
      BY DEF Eligible, Overdue
    <3>2. /\ u \in gone => state'[u] = "FAILED"
          /\ u = t => state'[u] = "LEASED"
          /\ u \notin gone /\ u # t =>
               state'[u] = state[u] /\ journal'[u] = journal[u] /\ active'[u] = active[u]
      BY <2>3, <3>1 DEF AfterScan, ScanDeactivates
    <3>3. CASE u \in gone
      <4>1. latest'[u] = latest[u] /\ held'[u] = held[u]
        BY <2>3, <3>1, <3>3, <1>a DEF Grant, TypeOK
      <4> QED
        BY <2>2, <3>2, <3>3, <4>1
    <3>4. CASE u \notin gone
      BY <1>4, <2>1, <2>3, <3>1, <3>2, <3>4
    <3> QED
      BY <3>3, <3>4
  <2>4. ASSUME state' = AfterScan(state, Overdue, {}), journal' = AfterScan(journal, Overdue, {}),
               active' = ScanDeactivates(Overdue), UNCHANGED <<latest, held>>
        PROVE  StepOf(u)
    <3>1. CASE u \in Overdue
      BY <2>2, <2>4, <3>1 DEF AfterScan
    <3>2. CASE u \notin Overdue
      BY <2>1, <2>4, <3>2 DEF AfterScan, ScanDeactivates, Idle
    <3> QED
      BY <3>1, <3>2
  <2> QED
    BY <1>6, <2>3, <2>4 DEF ClaimNext
<1>7. ASSUME NEW t \in Tasks, LiveLease(t), UNCHANGED latest,
             idem'[u] = "RETRYABLE" => idem[u] = "RETRYABLE", u # t => Idle(u)
      PROVE StepOf(u)
  BY <1>7 DEF Working
<1>8. ASSUME NEW i \in Instances, NEW t \in Tasks, Start(i, t) PROVE StepOf(u)
  <2>1. u # t => Idle(u)
    BY <1>8, <1>a DEF Start, Move, TypeOK, Idle
  <2> QED
    BY <1>7, <1>8, <2>1, ValidIsLive DEF Start
<1>9. ASSUME NEW i \in Instances, NEW t \in Tasks, Heartbeat(i, t) \/ RenewLease(i, t)
      PROVE StepOf(u)
  <2>1. Extend(t, bound[i][t]) /\ LeaseValid(t, bound[i][t])
        /\ UNCHANGED <<state, active, latest, attempts, journal, idem, snapshots>>
    BY <1>9 DEF Heartbeat, RenewLease, Authorised
  <2>2. u # t => Idle(u)
    BY <2>1, <1>a DEF Extend, TypeOK, Idle
  <2> QED
    BY <1>7, <2>1, <2>2, ValidIsLive
<1>10. ASSUME NEW i \in Instances, NEW t \in Tasks, ReleaseLease(i, t) PROVE StepOf(u)
  <2>1. /\ Release(RowOfLease(t, bound[i][t])) /\ LeaseValid(t, bound[i][t]) /\ Deactivate(t)
        /\ UNCHANGED <<state, latest, attempts, journal, idem, snapshots>>
    BY <1>10 DEF ReleaseLease, Authorised
  <2>2. u # t => Idle(u)
    BY <2>1, <1>a, ReleaseOne DEF Deactivate, TypeOK, Idle
  <2> QED
    BY <1>7, <2>1, <2>2, ValidIsLive
<1>11. ASSUME NEW i \in Instances, NEW t \in Tasks,
              \/ Checkpoint(i, t) \/ RecordActionDispatched(i, t)
              \/ IdempotencyClaim(i, t) \/ IdempotencyComplete(i, t)
       PROVE StepOf(u)
  <2>1. LeaseValid(t, bound[i][t]) /\ UNCHANGED latest
    BY <1>11 DEF Checkpoint, RecordActionDispatched, IdempotencyClaim, IdempotencyComplete, Authorised
  <2>2. idem'[u] = "RETRYABLE" => idem[u] = "RETRYABLE"
    BY <1>11, <1>a
       DEF Checkpoint, RecordActionDispatched, IdempotencyClaim, IdempotencyComplete, TypeOK
  <2>3. u # t => Idle(u)
    BY <1>11, <1>a
       DEF Checkpoint, RecordActionDispatched, IdempotencyClaim, IdempotencyComplete, Move, TypeOK, Idle
  <2> QED
    BY <1>7, <2>1, <2>2, <2>3, ValidIsLive
<1>12. ASSUME NEW i \in Instances, NEW t \in Tasks, NEW s, Authorised(i, t), EndAttempt(i, t, s),
              u # t => attempts'[u] = attempts[u]
       PROVE StepOf(u)
  <2>1. /\ Release(RowOfLease(t, bound[i][t])) /\ Deactivate(t) /\ Move(t, s)
        /\ UNCHANGED <<latest, idem, snapshots>>
    BY <1>12 DEF EndAttempt
  <2>2. u # t => Idle(u)
    BY <1>12, <2>1, <1>a, ReleaseOne DEF Deactivate, Move, TypeOK, Idle
  <2> QED
    BY <1>7, <1>12, <2>1, <2>2, ValidIsLive DEF Authorised
<1>13. ASSUME NEW i \in Instances, NEW t \in Tasks,
              CommitCompleted(i, t) \/ \E class \in FailureClasses : CommitFailed(i, t, class)
       PROVE StepOf(u)
  <2>1. u # t => attempts'[u] = attempts[u]
    BY <1>13, <1>a DEF CommitCompleted, CommitFailed, TypeOK
  <2> QED
    BY <1>12, <1>13, <2>1 DEF CommitCompleted, CommitFailed
<1>14. ASSUME NEW i \in Instances, NEW t \in Tasks, NEW s, Revoke(i, t), Move(t, s),
              state[t] \notin Terminal, s \in {"RECONCILING", "QUEUED", "HUMAN_REVIEW", "CANCELLED"},
              UNCHANGED <<latest, attempts, snapshots>>,
              u # t => idem'[u] = idem[u],
              u = t => \/ idem'[u] \in {idem[u], "RECONCILED"}
                       \/ /\ idem'[u] = "RETRYABLE" /\ state[u] = "RECONCILING"
                          /\ "UNKNOWN" \in snapshots[u] /\ s = "QUEUED"
       PROVE StepOf(u)
  <2>1. CASE u = t
    <3>1. held'[u] = {} /\ state'[u] = s
      BY <1>14, <2>1, <1>a, RevokeEnds DEF Move, TypeOK
    <3>2. state[u] = "RECONCILING" => held[u] = {}
      BY <1>b DEF LeasedStates
    <3> QED
      BY <1>14, <2>1, <3>1, <3>2 DEF Intervening
  <2>2. CASE u # t
    BY <1>14, <2>2, <1>a, RevokeEnds DEF Move, TypeOK, Idle
  <2> QED
    BY <2>1, <2>2
<1>15. ASSUME NEW i \in Instances, NEW t \in Tasks, EnterReconciling(i, t) \/ SetTaskKill(i, t)
       PROVE StepOf(u)
  BY <1>14, <1>15 DEF EnterReconciling, SetTaskKill, Terminal
<1>16. ASSUME NEW i \in Instances, NEW t \in Tasks, NEW outcome \in Outcomes,
              ReconcileUnknown(i, t, outcome)
       PROVE StepOf(u)
  <2> DEFINE s == IF outcome = "NOT_APPLIED" THEN "QUEUED" ELSE "HUMAN_REVIEW"
  <2>1. /\ Revoke(i, t) /\ Move(t, s) /\ UNCHANGED <<latest, attempts, snapshots>>
        /\ state[t] = "RECONCILING" /\ "UNKNOWN" \in snapshots[t]
    BY <1>16 DEF ReconcileUnknown
  <2>2. /\ u # t => idem'[u] = idem[u]
        /\ u = t => \/ idem'[u] = "RECONCILED"
                    \/ idem'[u] = "RETRYABLE" /\ s = "QUEUED"
    BY <1>16, <1>a DEF ReconcileUnknown, TypeOK
  <2>3. s \in {"QUEUED", "HUMAN_REVIEW"}
    OBVIOUS
  <2> HIDE DEF s
  <2> QED
    BY <1>14, <2>1, <2>2, <2>3 DEF Terminal
<1>17. ASSUME NEW on, SetGlobalKill(on) PROVE StepOf(u)
  BY <1>17 DEF SetGlobalKill, Idle
<1>18. ASSUME NEW i \in Instances, ExpireLeases(i) PROVE StepOf(u)
  <2>1. CASE held[u] = {}
    BY <1>18, <2>1, ExpiryMoves DEF Idle
  <2>2. CASE held[u] # {}
    <3>1. held'[u] \in {held[u], {}}
      <4>1. PICK r \in held[u] : held[u] = {r}
        BY <2>2 DEF Sound, Fit, SoleLease
      <4> QED
        BY <1>18, <4>1, ExpiryMoves
    <3>2. state[u] \notin Terminal
      BY <2>2, <1>b, StateSets
    <3>3. state'[u] = state[u] \/ state'[u] \in {"RECOVERING", "HUMAN_REVIEW", "QUEUED"}
      BY <1>18, ExpiryMoves, ExpiryFacts, TaskFacts
    <3> QED
      BY <1>18, <3>1, <3>2, <3>3, ExpiryMoves DEF Intervening
  <2> QED
    BY <2>1, <2>2
<1>19. ASSUME NEW i \in Instances, NEW stale \in SUBSET Tasks, AutoReconcile(i, stale)
       PROVE StepOf(u)
  <2> DEFINE orphans == {t \in stale : Orphan(t)}
  <2>1. /\ state'[u] = IF u \in orphans THEN "RECONCILING" ELSE state[u]
        /\ journal'[u] = IF u \in orphans THEN "RECONCILING" ELSE journal[u]
        /\ active'[u] = IF u \in orphans THEN NoLease ELSE active[u]
        /\ UNCHANGED <<latest, attempts, idem, snapshots>> /\ Release(RowsOf(orphans))
    BY <1>19 DEF AutoReconcile
  <2>2. u \in orphans => state[u] \notin Terminal
    BY DEF Orphan, Sweepable, Terminal
  <2> HIDE DEF orphans
  <2>3. held'[u] = IF u \in orphans THEN {} ELSE held[u]
    BY <2>1, ReleaseAll
  <2>4. CASE u \in orphans
    BY <2>1, <2>2, <2>3, <2>4 DEF Intervening
  <2>5. CASE u \notin orphans
    BY <2>1, <2>3, <2>5 DEF Idle
  <2> QED
    BY <2>4, <2>5
<1>20. ASSUME NEW t \in Tasks, RebuildProjection(t) PROVE StepOf(u)
  <2>1. state'[u] = state[u] /\ (NoGhost(u) => active'[u] = active[u])
    BY <1>20, <1>a, <1>b DEF RebuildProjection, TypeOK
  <2> QED
    BY <1>20, <2>1 DEF RebuildProjection, Idle
<1>21. ASSUME Tick PROVE StepOf(u)
  <2>1. held'[u] = {[r EXCEPT !.ttl = Minus(r.ttl, 1)] : r \in held[u]}
    BY <1>21 DEF Tick
  <2> QED
    BY <1>21, <2>1 DEF Tick, Idle
<1>22. ASSUME NEW t \in Tasks, DeadlinePasses(t) PROVE StepOf(u)
  BY <1>22 DEF DeadlinePasses, Idle
<1>23. ASSUME NEW i \in Instances, Crash(i) PROVE StepOf(u)
  BY <1>23 DEF Crash, Idle
<1>24. ASSUME NEW i \in Instances, NEW t \in Tasks, CommitRaises(i, t) PROVE StepOf(u)
  BY <1>24 DEF CommitRaises, Idle
<1>25. CASE UNCHANGED vars
  BY <1>25 DEF vars, Idle
<1> QED
  BY <1>1, <1>2, <1>3, <1>5, <1>6, <1>8, <1>9, <1>10, <1>11, <1>13, <1>15,
     <1>16, <1>17, <1>18, <1>19, <1>20, <1>21, <1>22, <1>23, <1>24, <1>25
     DEF Next, WorkerStep, OperatorStep, TaskStep, InstanceStep

-----------------------------------------------------------------------------
(* What a step never does. *)

\* A terminal task is immutable: it has no lease for a worker to write under, it
\* is not queued, and no operator or watchdog touches it.
THEOREM TerminalTasksAreFinal == Spec => TerminalIsFinal
<1> DEFINE Untouchable(t) ==
      state[t] \in Terminal =>
        UNCHANGED <<state[t], journal[t], attempts[t], idem[t], snapshots[t],
                    active[t], latest[t], held[t]>>
<1>1. IInv /\ [Next]_vars => \A t \in Tasks : Untouchable(t)
  <2> SUFFICES ASSUME IInv, [Next]_vars, NEW t \in Tasks, state[t] \in Terminal
               PROVE  UNCHANGED <<state[t], journal[t], attempts[t], idem[t], snapshots[t],
                                  active[t], latest[t], held[t]>>
    OBVIOUS
  <2>1. held[t] = {} /\ NoGhost(t)
    BY TaskFacts, StateSets DEF IInv
  <2>2. StepOf(t)
    BY EveryStep DEF IInv
  <2>3. Idle(t)
    BY <2>1, <2>2 DEF StepOf, Granting, Working, Intervening, LiveLease, Terminal
  <2> QED
    BY <2>1, <2>3 DEF Idle
<1> QED
  BY <1>1, Invariance, PTL DEF Spec, TerminalIsFinal

\* What only a worker may write is written under a live lease of the current
\* epoch: a step that is not its worker's writes none of it.
THEOREM WorkersAreFenced == Spec => WorkerStepsAreFenced
<1>1. IInv /\ [Next]_vars => \A t \in Tasks : WorkerOnly(t) => LiveLease(t)
  <2> SUFFICES ASSUME IInv, [Next]_vars, NEW t \in Tasks, WorkerOnly(t), ~LiveLease(t)
               PROVE  FALSE
    OBVIOUS
  <2>1. Idle(t) \/ Granting(t) \/ Intervening(t)
    BY EveryStep DEF IInv, StepOf, Working
  <2>2. ~Idle(t)
    BY DEF Idle, WorkerOnly
  <2>3. ~Granting(t)
    BY DEF Granting, WorkerOnly
  <2>4. ~Intervening(t)
    BY DEF Intervening, WorkerOnly
  <2> QED
    BY <2>1, <2>2, <2>3, <2>4
<1> QED
  BY <1>1, Invariance, PTL DEF Spec, WorkerStepsAreFenced

\* A claimed effect becomes retryable only by reconciliation, when no lease on
\* the task is left and the task goes back to the queue.
THEOREM RetriesAreReconciled == Spec => RetryNeedsReconcile
<1> DEFINE Reconciled(t) ==
      idem[t] = "CLAIMED" /\ idem'[t] = "RETRYABLE" =>
        /\ state[t] = "RECONCILING"
        /\ held[t] = {}
        /\ "UNKNOWN" \in snapshots[t]
        /\ state'[t] = "QUEUED"
<1>1. IInv /\ [Next]_vars => \A t \in Tasks : Reconciled(t)
  <2> SUFFICES ASSUME IInv, [Next]_vars, NEW t \in Tasks,
                      idem[t] = "CLAIMED", idem'[t] = "RETRYABLE"
               PROVE  Intervening(t)
    BY DEF Intervening
  <2> QED
    BY EveryStep DEF IInv, StepOf, Idle, Granting, Working
<1> QED
  BY <1>1, Invariance, PTL DEF Spec, RetryNeedsReconcile

-----------------------------------------------------------------------------
(* The kernel implements ExecutionAuthority. *)

\* A step grants a lease on one task at most.
LEMMA OneGrantPerStep ==
  ASSUME Sound, [Next]_vars, NEW t \in Tasks, NEW u \in Tasks,
         latest'[t] # latest[t], latest'[u] # latest[u]
  PROVE  t = u
<1> USE DEF control, leases, effects
<1>1. \E i \in Instances, v \in Tasks : Grant(i, v)
  <2>1. latest' # latest
    OBVIOUS
  <2>2. ASSUME NEW i \in Instances, NEW v \in Tasks, WorkerStep(i, v)
        PROVE  latest' = latest \/ Grant(i, v)
    BY <2>2 DEF WorkerStep, Claim, Start, Heartbeat, RenewLease, ReleaseLease, Checkpoint,
       RecordActionDispatched, IdempotencyClaim, IdempotencyComplete, CommitCompleted,
       CommitFailed, EndAttempt, Transition, CommitRaises
  <2>3. ASSUME NEW i \in Instances, NEW v \in Tasks, OperatorStep(i, v) PROVE latest' = latest
    BY <2>3 DEF OperatorStep, EnterReconciling, ReconcileUnknown, SetTaskKill
  <2>4. ASSUME NEW v \in Tasks, TaskStep(v) PROVE latest' = latest
    BY <2>4 DEF TaskStep, CreateTask, CommitApproval, RebuildProjection, DeadlinePasses
  <2>5. ASSUME NEW i \in Instances, InstanceStep(i)
        PROVE  latest' = latest \/ \E v \in Tasks : Grant(i, v)
    BY <2>5 DEF InstanceStep, ClaimNext, Eligible, ExpireLeases, AutoReconcile, Crash
  <2>6. ASSUME Tick \/ UNCHANGED vars \/ \E on \in BOOLEAN : SetGlobalKill(on)
        PROVE  latest' = latest
    BY <2>6 DEF Tick, vars, SetGlobalKill
  <2> QED
    BY <2>1, <2>2, <2>3, <2>4, <2>5, <2>6 DEF Next
<1>2. PICK i \in Instances, v \in Tasks : Grant(i, v)
  BY <1>1
<1>3. \A w \in Tasks \ {v} : latest'[w] = latest[w]
  BY <1>2 DEF Grant, Sound, TypeOK
<1> QED
  BY <1>3

\* Initially every task is open and no attempt was granted.
LEMMA InitAuthority == Init => Authority!AInit
BY DEF Init, Authority!AInit, Phase, Terminal, NoTask

\* Every step is a step of ExecutionAuthority, or changes nothing it can see.
LEMMA StepAuthority == Sound /\ TypeOK' /\ [Next]_vars => [Authority!ANext]_(Authority!avars)
<1> SUFFICES ASSUME Sound, TypeOK', [Next]_vars PROVE Authority!ANext
  OBVIOUS
<1>1. ASSUME NEW t \in Tasks
      PROVE  \/ Phase(t)' = Phase(t) /\ latest'[t] = latest[t]
             \/ Phase(t) = "open" /\ Phase(t)' = "held" /\ latest'[t] = latest[t] + 1
             \/ Phase(t) = "held" /\ Phase(t)' = "open" /\ latest'[t] = latest[t]
             \/ Phase(t) # "closed" /\ Phase(t)' = "closed" /\ latest'[t] = latest[t]
  <2>1. StepOf(t)
    BY EveryStep
  <2>2. CASE Idle(t)
    BY <2>2 DEF Idle, Phase
  <2>3. CASE Granting(t)
    BY <2>3 DEF Granting, Phase, Terminal
  <2>4. CASE Working(t)
    <3>1. held[t] # {} /\ state[t] \notin Terminal
      BY <2>4, TaskFacts, StateSets DEF Working, LiveLease
    <3> QED
      BY <2>4, <3>1 DEF Working, Phase
  <2>5. CASE Intervening(t)
    BY <2>5 DEF Intervening, Phase
  <2> QED
    BY <2>1, <2>2, <2>3, <2>4, <2>5 DEF StepOf
<1> DEFINE phase == [t \in Tasks |-> Phase(t)]
<1>2. phase' \in [Tasks -> {"open", "held", "closed"}] /\ latest' \in [Tasks -> Nat]
  BY KernelAssumption DEF Phase, TypeOK, KernelAssumption
<1>3. \A t \in Tasks : phase[t] = Phase(t) /\ phase'[t] = Phase(t)'
  OBVIOUS
<1> HIDE DEF phase
<1>4. \A t \in Tasks : \/ phase'[t] = phase[t] /\ latest'[t] = latest[t]
                       \/ phase[t] = "open" /\ phase'[t] = "held" /\ latest'[t] = latest[t] + 1
                       \/ phase[t] = "held" /\ phase'[t] = "open" /\ latest'[t] = latest[t]
                       \/ phase[t] # "closed" /\ phase'[t] = "closed" /\ latest'[t] = latest[t]
  BY <1>1, <1>3
<1>5. \A t, u \in Tasks : latest'[t] = latest[t] + 1 /\ latest'[u] = latest[u] + 1 => t = u
  <2>1. \A t \in Tasks : latest[t] \in Nat
    BY TaskFacts
  <2> QED
    BY <2>1, OneGrantPerStep
<1> QED
  BY <1>2, <1>4, <1>5
     DEF phase, Authority!ANext, Authority!Phases, Authority!Keeps, Authority!Grants,
         Authority!Revokes, Authority!Closes

\* The kernel implements ExecutionAuthority: attempts never overlap, are numbered
\* one by one, and none is granted once the task is closed.
THEOREM KernelImplementsAuthority == Spec => ImplementsAuthority
<1>1. IInv /\ IInv' /\ [Next]_vars => [Authority!ANext]_(Authority!avars)
  BY StepAuthority DEF IInv, Sound
<1> QED
  BY <1>1, Invariance, InitAuthority, PTL DEF Spec, ImplementsAuthority, Authority!ASpec
=============================================================================
