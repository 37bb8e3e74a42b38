-------------------------- MODULE TaskKernelProofs --------------------------
(***************************************************************************)
(* Proofs about the task kernel, for every set of tasks, owners and        *)
(* instances and every bound: its types, the safety invariants, the action *)
(* properties, and that it implements ExecutionAuthority.                  *)
(***************************************************************************)
EXTENDS TaskKernelSafety, FiniteSetTheorems, TLAPS

-----------------------------------------------------------------------------
(* The inductive invariant, one task at a time. *)

\* OneLiveAttempt for one task.
SoleLease(t) ==
  \A r \in held[t] :
    /\ held[t] = {r}
    /\ r.token = latest[t]
    /\ r.token = active[t]
    /\ state[t] \in LeasedStates

Journalled(t) == state[t] = journal[t]

\* A failed attempt has used a token up, and it is not the live lease's.
Charged(t) ==
  /\ attempts[t] <= latest[t]
  /\ held[t] # {} => attempts[t] < latest[t]

\* No instance remembers a token that was not granted, and no two the same one.
Bindings(t) ==
  /\ \A i \in Instances : bound[i][t] <= latest[t]
  /\ \A i, j \in Instances :
       bound[i][t] # NoLease /\ bound[i][t] = bound[j][t] => i = j

Fit(t) == SoleLease(t) /\ Journalled(t) /\ Charged(t) /\ Bindings(t)

\* What holds of the database at any time, after a boot recovery too.
Sound == TypeOK /\ \A t \in Tasks : Fit(t)

\* A task names an active lease only while it has one. (Recovery releases leases
\* and may leave the name.)
NoGhost(t) == held[t] = {} => active[t] = NoLease

IInv == Sound /\ \A t \in Tasks : NoGhost(t)

\* What no step of the kernel may lose of a task.
Steady(t) == Fit(t)' /\ (NoGhost(t) => NoGhost(t)')

-----------------------------------------------------------------------------
(* Facts about the state machine. *)

\* The state sets the operations test are made of states of a task.
LEMMA StateSets ==
  /\ LeasedStates \subseteq TaskStates /\ LeaseKept \subseteq LeasedStates
  /\ Renewable \subseteq LeasedStates /\ Sweepable \subseteq LeasedStates
  /\ Terminal \subseteq TaskStates /\ Terminal \cap LeasedStates = {}
  /\ NoTask \notin TaskStates
BY DEF LeasedStates, TaskStates, LeaseKept, Renewable, Sweepable, Terminal, NoTask

\* The transition table leads from a live state to a live or terminal one; a
\* worker's states are entered only from leased ones.
LEMMA AllowedFacts ==
  ASSUME NEW s, NEW to \in Allowed(s)
  PROVE  /\ to \in TaskStates /\ s \in TaskStates /\ s \notin Terminal
         /\ to # "RETRY_SCHEDULED"
         /\ to \in {"RUNNING", "WAITING_TOOL", "VERIFYING", "UNKNOWN"}
              => s \in LeasedStates
BY DEF Allowed, TaskStates, Terminal, LeasedStates

\* An expired lease leaves its task in a state, and no longer under a lease
\* unless the task is UNKNOWN.
LEMMA ExpiryFacts ==
  ASSUME NEW s \in TaskStates \cup {NoTask}
  PROVE  /\ AfterExpiry(s) \in TaskStates \cup {NoTask}
         /\ s \notin LeasedStates => AfterExpiry(s) = s
         /\ AfterExpiry(s) # s =>
              AfterExpiry(s) \in {"RECOVERING", "HUMAN_REVIEW", "QUEUED"}
BY DEF AfterExpiry, TaskStates, LeasedStates, NoTask

-----------------------------------------------------------------------------
(* Facts about releasing and extending leases. *)

\* A decrement that stops at zero stays a natural number.
LEMMA MinusType ==
  ASSUME NEW a \in Nat, NEW n
  PROVE  Minus(a, n) \in Nat
BY DEF Minus

\* Releasing rows takes them from held and keeps the accounts natural numbers.
LEMMA ReleaseType ==
  ASSUME TypeOK, NEW rows, Release(rows)
  PROVE  held' \in [Tasks -> SUBSET LeaseRows] /\ accounts' \in [Owners -> Nat]
<1>1. accounts' \in [Owners -> Nat]
  BY MinusType DEF Release, TypeOK
<1>2. held' \in [Tasks -> SUBSET LeaseRows]
  BY DEF Release, TypeOK
<1> QED
  BY <1>1, <1>2

\* Releasing one lease of a task leaves the other tasks' leases and the task's
\* other ones.
LEMMA ReleaseOne ==
  ASSUME NEW t \in Tasks, NEW l, Release(RowOfLease(t, l)), NEW u \in Tasks
  PROVE  held'[u] = IF u = t THEN {r \in held[t] : r.token # l} ELSE held[u]
BY DEF Release, RowOfLease, RowsOf

\* Releasing all the leases of some tasks leaves the other tasks' leases.
LEMMA ReleaseAll ==
  ASSUME NEW ts, Release(RowsOf(ts)), NEW u \in Tasks
  PROVE  held'[u] = IF u \in ts THEN {} ELSE held[u]
BY DEF Release, RowsOf

\* Releasing the expired leases leaves those that are not.
LEMMA ReleaseExpired ==
  ASSUME Release(ExpiredRows), NEW u \in Tasks
  PROVE  held'[u] = {r \in held[u] : r.ttl # 0}
BY DEF Release, ExpiredRows, RowsOf

\* Extending a lease, or letting time pass, keeps the rows well-typed and their
\* tokens and epochs as they are.
LEMMA RowTtl ==
  ASSUME NEW r \in LeaseRows, NEW n \in 0..TTL
  PROVE  /\ [r EXCEPT !.ttl = n] \in LeaseRows
         /\ [r EXCEPT !.ttl = n].token = r.token
         /\ [r EXCEPT !.ttl = n].epoch = r.epoch
BY DEF LeaseRows

-----------------------------------------------------------------------------
(* Types. *)

\* Every initial state is well-typed.
LEMMA InitType == Init => TypeOK
<1> SUFFICES ASSUME Init PROVE TypeOK
  OBVIOUS
<1>1. 0 \in 0..MaxToken /\ 0 \in 0..MaxEpoch
  BY KernelAssumption DEF KernelAssumption
<1>2. killed \in BOOLEAN /\ epoch \in 0..MaxEpoch
  BY <1>1 DEF Init
<1>3. /\ state \in [Tasks -> TaskStates \cup {NoTask}]
      /\ journal \in [Tasks -> TaskStates \cup {NoTask}]
  BY DEF Init
<1>4. /\ active \in [Tasks -> Tokens \cup {NoLease}]
      /\ latest \in [Tasks -> 0..MaxToken]
      /\ held \in [Tasks -> SUBSET LeaseRows]
      /\ bound \in [Instances -> [Tasks -> Tokens \cup {NoLease}]]
  BY <1>1 DEF Init
<1>5. /\ attempts \in [Tasks -> Nat]
      /\ accounts \in [Owners -> Nat]
  BY DEF Init
<1>6. /\ idem \in [Tasks -> IdemStates]
      /\ snapshots \in [Tasks -> SUBSET {"WORKING", "UNKNOWN"}]
      /\ late \in [Tasks -> BOOLEAN]
  BY DEF Init, IdemStates
<1> QED
  BY <1>2, <1>3, <1>4, <1>5, <1>6 DEF TypeOK

\* Forgetting bindings keeps them well-typed.
LEMMA UnbindType ==
  ASSUME TypeOK, NEW i \in Instances, NEW ts, Unbind(i, ts)
  PROVE  bound' \in [Instances -> [Tasks -> Tokens \cup {NoLease}]]
BY DEF Unbind, TypeOK

\* A grant keeps the leases well-typed.
LEMMA GrantType ==
  ASSUME TypeOK, NEW i \in Instances, NEW t \in Tasks, Grant(i, t)
  PROVE  /\ latest' \in [Tasks -> 0..MaxToken] /\ latest'[t] \in Tokens
         /\ held' \in [Tasks -> SUBSET LeaseRows]
         /\ accounts' \in [Owners -> Nat]
         /\ bound' \in [Instances -> [Tasks -> Tokens \cup {NoLease}]]
<1> DEFINE token == latest[t] + 1
           row == [token |-> token, epoch |-> epoch, ttl |-> TTL]
<1>1. token \in Tokens /\ token \in 0..MaxToken
  BY KernelAssumption DEF Grant, Tokens, KernelAssumption
<1>2. row \in LeaseRows
  BY <1>1, KernelAssumption DEF LeaseRows, TypeOK, KernelAssumption
<1>3. held' \in [Tasks -> SUBSET LeaseRows]
  BY <1>2 DEF Grant, TypeOK
<1>4. accounts' \in [Owners -> Nat]
  <2>1. accounts' = [accounts EXCEPT ![Owner[t]] = accounts[Owner[t]] + 1]
    BY DEF Grant
  <2>2. Owner[t] \in Owners /\ accounts \in [Owners -> Nat]
    BY KernelAssumption DEF KernelAssumption, TypeOK
  <2>3. accounts[Owner[t]] + 1 \in Nat
    BY <2>2
  <2> QED
    BY <2>1, <2>2, <2>3
<1>5. /\ latest' \in [Tasks -> 0..MaxToken] /\ latest'[t] \in Tokens
      /\ bound' \in [Instances -> [Tasks -> Tokens \cup {NoLease}]]
  BY <1>1 DEF Grant, TypeOK
<1> QED
  BY <1>3, <1>4, <1>5

\* The lease the journal and the lease table give a task is its active one, unless
\* that one has been released.
LEMMA ReplayIsActive ==
  ASSUME Sound, NEW t \in Tasks
  PROVE  ReplayedLease(t) = IF held[t] = {} THEN NoLease ELSE active[t]
<1>1. CASE held[t] = {}
  BY <1>1 DEF ReplayedLease
<1>2. CASE held[t] # {}
  <2>1. PICK r \in held[t] : held[t] = {r} /\ r.token = active[t] /\ state[t] \in LeasedStates
    BY <1>2 DEF Sound, Fit, SoleLease
  <2>2. r.token \in Nat
    BY <2>1 DEF Sound, TypeOK, LeaseRows, Tokens
  <2>3. (CHOOSE s \in held[t] : \A q \in held[t] : q.token <= s.token) = r
    BY <2>1, <2>2
  <2> QED
    BY <2>1, <2>3, <1>2 DEF ReplayedLease, Sound, Fit, Journalled
<1> QED
  BY <1>1, <1>2

\* An extension keeps the rows well-typed.
LEMMA ExtendType ==
  ASSUME TypeOK, NEW t \in Tasks, NEW l, Extend(t, l)
  PROVE  held' \in [Tasks -> SUBSET LeaseRows]
<1>1. TTL \in 0..TTL
  BY KernelAssumption DEF KernelAssumption
<1>2. \A r \in held[t] : (IF r.token = l THEN [r EXCEPT !.ttl = TTL] ELSE r) \in LeaseRows
  BY <1>1, RowTtl DEF TypeOK
<1> QED
  BY <1>2 DEF Extend, TypeOK

\* The passing of time keeps the rows well-typed.
LEMMA TickType ==
  ASSUME TypeOK, Tick
  PROVE  held' \in [Tasks -> SUBSET LeaseRows]
<1>1. \A r \in LeaseRows : [r EXCEPT !.ttl = Minus(r.ttl, 1)] \in LeaseRows
  <2> SUFFICES ASSUME NEW r \in LeaseRows PROVE Minus(r.ttl, 1) \in 0..TTL
    BY RowTtl
  <2>1. r.ttl \in 0..TTL
    BY DEF LeaseRows
  <2> QED
    BY <2>1, KernelAssumption DEF Minus, KernelAssumption
<1> QED
  BY <1>1 DEF Tick, TypeOK

\* No step takes a variable out of its type. Rebuilding the projection needs the
\* invariant: the lease it replays is the active one.
LEMMA NextType == Sound /\ [Next]_vars => TypeOK'
<1> SUFFICES ASSUME Sound, TypeOK, [Next]_vars PROVE TypeOK'
  BY DEF Sound
<1> USE StateSets
<1>1. ASSUME NEW t \in Tasks, CreateTask(t) PROVE TypeOK'
  BY <1>1 DEF CreateTask, Move, TypeOK, control, leases, effects, TaskStates
<1>2. ASSUME NEW i \in Instances, NEW t \in Tasks, NEW to, NEW l \in Tokens \cup {NoLease},
             Transition(i, t, to, l)
      PROVE TypeOK'
  <2>1. to \in TaskStates
    BY <1>2, AllowedFacts DEF Transition
  <2> DEFINE caller == IF l = NoLease THEN bound[i][t] ELSE l
  <2>2. caller \in Tokens \cup {NoLease}
    BY DEF TypeOK
  <2>3. /\ held' \in [Tasks -> SUBSET LeaseRows]
        /\ accounts' \in [Owners -> Nat]
        /\ active' \in [Tasks -> Tokens \cup {NoLease}]
        /\ bound' \in [Instances -> [Tasks -> Tokens \cup {NoLease}]]
    <3>1. CASE to \in LeaseKept
      BY <1>2, <2>2, <3>1 DEF Transition, TypeOK
    <3>2. CASE to \notin LeaseKept
      <4>1. /\ Deactivate(t) /\ Release(RowOfLease(t, caller))
            /\ UNCHANGED bound \/ Unbind(i, {t})
        BY <1>2, <3>2 DEF Transition
      <4> QED
        BY <4>1, ReleaseType, UnbindType DEF Deactivate, TypeOK
    <3> QED
      BY <3>1, <3>2
  <2>4. /\ state' \in [Tasks -> TaskStates \cup {NoTask}]
        /\ journal' \in [Tasks -> TaskStates \cup {NoTask}]
    BY <1>2, <2>1 DEF Transition, Move, TypeOK
  <2>5. UNCHANGED <<killed, epoch, latest, attempts, idem, snapshots, late>>
    BY <1>2 DEF Transition, control, effects
  <2> QED
    BY <2>3, <2>4, <2>5 DEF TypeOK
<1>3. ASSUME NEW t \in Tasks, CommitApproval(t) PROVE TypeOK'
  BY <1>3 DEF CommitApproval, Move, TypeOK, control, leases, effects, TaskStates
<1>4. ASSUME NEW i \in Instances, NEW t \in Tasks, Claim(i, t) PROVE TypeOK'
  <2>1. Grant(i, t) /\ active' = [active EXCEPT ![t] = latest'[t]]
    BY <1>4 DEF Claim
  <2>2. active' \in [Tasks -> Tokens \cup {NoLease}]
    BY <2>1, GrantType DEF TypeOK
  <2> QED
    BY <1>4, <2>1, <2>2, GrantType DEF Claim, Move, TypeOK, control, effects, TaskStates
<1>5. ASSUME NEW i \in Instances, ClaimNext(i) PROVE TypeOK'
  <2>0. \A gone : ScanDeactivates(gone) \in [Tasks -> Tokens \cup {NoLease}]
    BY DEF ScanDeactivates, TypeOK
  <2>1. /\ active' \in [Tasks -> Tokens \cup {NoLease}]
        /\ latest' \in [Tasks -> 0..MaxToken]
        /\ held' \in [Tasks -> SUBSET LeaseRows]
        /\ accounts' \in [Owners -> Nat]
        /\ bound' \in [Instances -> [Tasks -> Tokens \cup {NoLease}]]
    <3>1. CASE \E t \in Eligible, gone \in SUBSET Overdue :
                 Grant(i, t) /\ active' = [ScanDeactivates(gone) EXCEPT ![t] = latest'[t]]
      BY <2>0, <3>1, GrantType DEF Eligible
    <3>2. CASE active' = ScanDeactivates(Overdue) /\ UNCHANGED <<latest, held, accounts, bound>>
      BY <2>0, <3>2 DEF TypeOK
    <3> QED
      BY <1>5, <3>1, <3>2 DEF ClaimNext
  <2>2. PICK gone, granted : /\ state' = AfterScan(state, gone, granted)
                             /\ journal' = AfterScan(journal, gone, granted)
    BY <1>5 DEF ClaimNext
  <2>3. "FAILED" \in TaskStates /\ "LEASED" \in TaskStates
    BY DEF TaskStates
  <2>4. /\ state' \in [Tasks -> TaskStates \cup {NoTask}]
        /\ journal' \in [Tasks -> TaskStates \cup {NoTask}]
    BY <2>2, <2>3 DEF AfterScan, TypeOK
  <2>5. UNCHANGED <<killed, epoch, attempts, idem, snapshots, late>>
    BY <1>5 DEF ClaimNext, control, effects
  <2> QED
    BY <2>1, <2>4, <2>5 DEF TypeOK
<1>6. ASSUME NEW i \in Instances, NEW t \in Tasks, Start(i, t) PROVE TypeOK'
  BY <1>6 DEF Start, Move, TypeOK, control, effects, TaskStates
<1>7. ASSUME NEW i \in Instances, NEW t \in Tasks, Heartbeat(i, t) \/ RenewLease(i, t)
      PROVE TypeOK'
  BY <1>7, ExtendType DEF Heartbeat, RenewLease, TypeOK, control, effects
<1>8. ASSUME NEW i \in Instances, NEW t \in Tasks, ReleaseLease(i, t) PROVE TypeOK'
  BY <1>8, ReleaseType, UnbindType DEF ReleaseLease, Deactivate, TypeOK, control, effects
<1>9. ASSUME NEW i \in Instances, NEW t \in Tasks, Checkpoint(i, t) PROVE TypeOK'
  BY <1>9 DEF Checkpoint, TypeOK, control, leases
<1>10. ASSUME NEW i \in Instances, NEW t \in Tasks, RecordActionDispatched(i, t) PROVE TypeOK'
  BY <1>10 DEF RecordActionDispatched, Move, TypeOK, control, leases, TaskStates
<1>11. ASSUME NEW i \in Instances, NEW t \in Tasks,
              IdempotencyClaim(i, t) \/ IdempotencyComplete(i, t)
       PROVE TypeOK'
  BY <1>11 DEF IdempotencyClaim, IdempotencyComplete, TypeOK, control, leases, IdemStates
<1>12. ASSUME NEW i \in Instances, NEW t \in Tasks, NEW s \in TaskStates, EndAttempt(i, t, s),
              attempts' \in [Tasks -> Nat]
       PROVE TypeOK'
  BY <1>12, ReleaseType, UnbindType DEF EndAttempt, Move, Deactivate, TypeOK, control, effects
<1>13. ASSUME NEW i \in Instances, NEW t \in Tasks, CommitCompleted(i, t) PROVE TypeOK'
  <2>1. "COMPLETED" \in TaskStates
    BY DEF TaskStates
  <2> QED
    BY <1>12, <1>13, <2>1 DEF CommitCompleted, TypeOK
<1>14. ASSUME NEW i \in Instances, NEW t \in Tasks, NEW class \in FailureClasses,
              CommitFailed(i, t, class)
       PROVE TypeOK'
  <2>1. AfterFailure(t, class) \in TaskStates
    BY DEF AfterFailure, TaskStates
  <2>2. attempts' \in [Tasks -> Nat]
    BY <1>14 DEF CommitFailed, TypeOK
  <2> QED
    BY <1>12, <1>14, <2>1, <2>2 DEF CommitFailed
<1>15. ASSUME NEW i \in Instances, NEW t \in Tasks, EnterReconciling(i, t) PROVE TypeOK'
  BY <1>15, ReleaseType, UnbindType
     DEF EnterReconciling, Revoke, Move, Deactivate, TypeOK, control, effects, TaskStates
<1>16. ASSUME NEW i \in Instances, NEW t \in Tasks, NEW outcome \in Outcomes,
              ReconcileUnknown(i, t, outcome)
       PROVE TypeOK'
  BY <1>16, ReleaseType, UnbindType
     DEF ReconcileUnknown, Revoke, Move, Deactivate, TypeOK, control, TaskStates, IdemStates
<1>17. ASSUME NEW i \in Instances, NEW t \in Tasks, SetTaskKill(i, t) PROVE TypeOK'
  BY <1>17, ReleaseType, UnbindType
     DEF SetTaskKill, Revoke, Move, Deactivate, TypeOK, control, effects, TaskStates
<1>18. ASSUME NEW on \in BOOLEAN, SetGlobalKill(on) PROVE TypeOK'
  BY <1>18 DEF SetGlobalKill, TypeOK, leases, effects
<1>19. ASSUME NEW i \in Instances, ExpireLeases(i) PROVE TypeOK'
  <2>1. /\ held' \in [Tasks -> SUBSET LeaseRows]
        /\ accounts' \in [Owners -> Nat]
        /\ bound' \in [Instances -> [Tasks -> Tokens \cup {NoLease}]]
    BY <1>19, ReleaseType, UnbindType DEF ExpireLeases
  <2>2. /\ state' \in [Tasks -> TaskStates \cup {NoTask}]
        /\ journal' \in [Tasks -> TaskStates \cup {NoTask}]
    BY <1>19, ExpiryFacts DEF ExpireLeases, TypeOK
  <2>3. active' \in [Tasks -> Tokens \cup {NoLease}]
    BY <1>19 DEF ExpireLeases, TypeOK
  <2>4. UNCHANGED <<killed, epoch, latest, attempts, idem, snapshots, late>>
    BY <1>19 DEF ExpireLeases, control, effects
  <2> QED
    BY <2>1, <2>2, <2>3, <2>4 DEF TypeOK
<1>20. ASSUME NEW i \in Instances, NEW stale \in SUBSET Tasks, AutoReconcile(i, stale)
       PROVE TypeOK'
  <2>1. /\ held' \in [Tasks -> SUBSET LeaseRows]
        /\ accounts' \in [Owners -> Nat]
        /\ bound' \in [Instances -> [Tasks -> Tokens \cup {NoLease}]]
    BY <1>20, ReleaseType, UnbindType DEF AutoReconcile
  <2>2. /\ state' \in [Tasks -> TaskStates \cup {NoTask}]
        /\ journal' \in [Tasks -> TaskStates \cup {NoTask}]
    BY <1>20 DEF AutoReconcile, TypeOK, TaskStates
  <2>3. active' \in [Tasks -> Tokens \cup {NoLease}]
    BY <1>20 DEF AutoReconcile, TypeOK
  <2>4. UNCHANGED <<killed, epoch, latest, attempts, idem, snapshots, late>>
    BY <1>20 DEF AutoReconcile, control, effects
  <2> QED
    BY <2>1, <2>2, <2>3, <2>4 DEF TypeOK
<1>21. ASSUME NEW t \in Tasks, RebuildProjection(t) PROVE TypeOK'
  <2>1. ReplayedLease(t) \in Tokens \cup {NoLease}
    BY ReplayIsActive DEF TypeOK
  <2> QED
    BY <1>21, <2>1 DEF RebuildProjection, TypeOK, control, effects
<1>22. ASSUME Tick PROVE TypeOK'
  BY <1>22, TickType DEF Tick, TypeOK, control, effects
<1>23. ASSUME NEW t \in Tasks, DeadlinePasses(t) PROVE TypeOK'
  BY <1>23 DEF DeadlinePasses, TypeOK, control, leases, effects
<1>24. ASSUME NEW i \in Instances, Crash(i) PROVE TypeOK'
  BY <1>24, UnbindType DEF Crash, TypeOK, control, leases, effects
<1>25. ASSUME NEW i \in Instances, NEW t \in Tasks, CommitRaises(i, t) PROVE TypeOK'
  BY <1>25, UnbindType DEF CommitRaises, TypeOK, control, leases, effects
<1>26. CASE UNCHANGED vars
  BY <1>26 DEF vars, TypeOK
<1> QED
  BY <1>1, <1>2, <1>3, <1>4, <1>5, <1>6, <1>7, <1>8, <1>9, <1>10, <1>11, <1>13, <1>14,
     <1>15, <1>16, <1>17, <1>18, <1>19, <1>20, <1>21, <1>22, <1>23, <1>24, <1>25, <1>26
     DEF Next, WorkerStep, OperatorStep, TaskStep, InstanceStep

-----------------------------------------------------------------------------
(* The inductive invariant. *)

\* Initially no task has a lease.
LEMMA InitFit == Init => IInv
<1> SUFFICES ASSUME Init, NEW t \in Tasks PROVE Fit(t) /\ NoGhost(t)
  BY InitType DEF IInv, Sound
<1>1. SoleLease(t) /\ NoGhost(t) /\ Journalled(t)
  BY DEF Init, SoleLease, NoGhost, Journalled
<1>2. Charged(t)
  BY DEF Init, Charged
<1>3. Bindings(t)
  BY DEF Init, Bindings, NoLease
<1> QED
  BY <1>1, <1>2, <1>3 DEF Fit

\* A valid lease is the task's only one, its last and its active one, and its
\* task is in a leased state.
LEMMA ValidLease ==
  ASSUME Sound, NEW t \in Tasks, NEW l, LeaseValid(t, l)
  PROVE  /\ ~killed
         /\ l \in Tokens /\ l # NoLease /\ l = latest[t] /\ l = active[t]
         /\ state[t] \in LeasedStates
         /\ \E r \in held[t] : /\ held[t] = {r} /\ r.token = l
                               /\ r.epoch = epoch /\ r.ttl > 0
<1>1. PICK r \in held[t] : r.token = l /\ r.epoch = epoch /\ r.ttl > 0
  BY DEF LeaseValid
<1>2. /\ held[t] = {r} /\ r.token = latest[t] /\ r.token = active[t]
      /\ state[t] \in LeasedStates
  BY <1>1 DEF Sound, Fit, SoleLease
<1>3. l \in Tokens /\ l # NoLease
  BY <1>1 DEF Sound, TypeOK, LeaseRows, Tokens, NoLease
<1> QED
  BY <1>1, <1>2, <1>3 DEF LeaseValid

\* An instance forgets bindings, it does not make them up.
LEMMA UnbindForgets ==
  ASSUME TypeOK, NEW i \in Instances, NEW ts, Unbind(i, ts),
         NEW j \in Instances, NEW u \in Tasks
  PROVE  bound'[j][u] \in {bound[j][u], NoLease}
BY DEF Unbind, TypeOK

\* Forgetting bindings keeps the others distinct and granted.
LEMMA BindingsKept ==
  ASSUME TypeOK, NEW u \in Tasks, Bindings(u), latest'[u] = latest[u],
         \A j \in Instances : bound'[j][u] \in {bound[j][u], NoLease}
  PROVE  Bindings(u)'
<1>1. latest[u] \in Nat /\ NoLease \in Nat /\ NoLease <= latest[u]
  BY KernelAssumption DEF TypeOK, NoLease, KernelAssumption
<1> QED
  BY <1>1 DEF Bindings

\* A step that leaves a task's rows alone, and at most forgets bindings of it,
\* leaves it fit.
LEMMA Untouched ==
  ASSUME Sound, NEW u \in Tasks,
         state'[u] = state[u], journal'[u] = journal[u], active'[u] = active[u],
         latest'[u] = latest[u], held'[u] = held[u], attempts'[u] = attempts[u],
         \A j \in Instances : bound'[j][u] \in {bound[j][u], NoLease}
  PROVE  Steady(u)
<1>1. Bindings(u)'
  BY BindingsKept DEF Sound, Fit
<1>2. SoleLease(u)' /\ Journalled(u)' /\ Charged(u)' /\ (NoGhost(u) => NoGhost(u)')
  BY DEF Sound, Fit, SoleLease, NoGhost, Journalled, Charged
<1> QED
  BY <1>1, <1>2 DEF Steady, Fit

\* A task whose leases have all gone is fit, whatever its state.
LEMMA Rested ==
  ASSUME Sound, NEW u \in Tasks,
         state'[u] = journal'[u], latest'[u] = latest[u],
         held'[u] = {}, attempts'[u] <= latest[u],
         active'[u] = NoLease \/ (active'[u] = active[u] /\ held[u] = {}),
         \A j \in Instances : bound'[j][u] \in {bound[j][u], NoLease}
  PROVE  Steady(u)
<1>1. Bindings(u)'
  BY BindingsKept DEF Sound, Fit
<1>2. SoleLease(u)' /\ Journalled(u)' /\ Charged(u)' /\ (NoGhost(u) => NoGhost(u)')
  BY DEF SoleLease, NoGhost, Journalled, Charged
<1> QED
  BY <1>1, <1>2 DEF Steady, Fit

\* A task that keeps its one lease is fit as long as its state expects one.
LEMMA Kept ==
  ASSUME Sound, NEW u \in Tasks, NEW r \in held[u], NEW q,
         held[u] = {r}, held'[u] = {q}, q.token = r.token,
         state'[u] = journal'[u], state'[u] \in LeasedStates,
         active'[u] = active[u], latest'[u] = latest[u],
         attempts'[u] = attempts[u],
         \A j \in Instances : bound'[j][u] \in {bound[j][u], NoLease}
  PROVE  Steady(u)
<1>1. Bindings(u)'
  BY BindingsKept DEF Sound, Fit
<1>2. SoleLease(u)' /\ NoGhost(u)' /\ Journalled(u)' /\ Charged(u)'
  BY DEF Sound, Fit, SoleLease, NoGhost, Journalled, Charged
<1> QED
  BY <1>1, <1>2 DEF Steady, Fit

\* The grant of a queued task's next lease: the token is new, so no instance is
\* bound to it, and the task had no lease left.
LEMMA Granted ==
  ASSUME Sound, NEW i \in Instances, NEW t \in Tasks, Grant(i, t),
         state[t] = "QUEUED", state'[t] = "LEASED", journal'[t] = "LEASED",
         active'[t] = latest'[t], UNCHANGED attempts
  PROVE  /\ Steady(t)
         /\ \A u \in Tasks \ {t} :
              /\ latest'[u] = latest[u] /\ held'[u] = held[u]
              /\ \A j \in Instances : bound'[j][u] = bound[j][u]
<1> DEFINE token == latest[t] + 1
           row == [token |-> token, epoch |-> epoch, ttl |-> TTL]
<1>1. held[t] = {}
  BY DEF Sound, Fit, SoleLease, LeasedStates
<1>2. held'[t] = {row} /\ latest'[t] = token /\ active'[t] = token
  BY <1>1 DEF Grant, Sound, TypeOK
<1>3. latest[t] \in Nat /\ attempts[t] \in Nat
  BY KernelAssumption DEF Sound, TypeOK, KernelAssumption
<1>4. SoleLease(t)' /\ NoGhost(t)' /\ Journalled(t)'
  <2>1. row.token = token
    OBVIOUS
  <2> HIDE DEF row, token
  <2>2. SoleLease(t)'
    BY <1>2, <2>1 DEF SoleLease, LeasedStates
  <2>3. NoGhost(t)' /\ Journalled(t)'
    BY <1>2 DEF NoGhost, Journalled
  <2> QED
    BY <2>2, <2>3
<1>5. Charged(t)'
  BY <1>2, <1>3 DEF Charged, Sound, Fit
<1>6. Bindings(t)'
  <2>1. \A j \in Instances : bound'[j][t] = IF j = i THEN token ELSE bound[j][t]
    BY DEF Grant, Sound, TypeOK
  <2>2. \A j \in Instances : bound[j][t] \in Nat /\ bound[j][t] <= latest[t]
    BY DEF Sound, TypeOK, Fit, Bindings, Tokens, NoLease
  <2>3. \A j \in Instances : bound[j][t] # token
    BY <2>2, <1>3
  <2>4. \A j \in Instances : bound'[j][t] <= latest'[t]
    BY <2>1, <2>2, <1>2, <1>3
  <2>5. \A j, k \in Instances : bound[j][t] # NoLease /\ bound[j][t] = bound[k][t] => j = k
    BY DEF Sound, Fit, Bindings
  <2>6. ASSUME NEW j \in Instances, NEW k \in Instances,
               bound'[j][t] # NoLease, bound'[j][t] = bound'[k][t]
        PROVE  j = k
    BY <2>1, <2>3, <2>5, <2>6
  <2> QED
    BY <2>4, <2>6 DEF Bindings
<1>7. \A u \in Tasks \ {t} :
        /\ latest'[u] = latest[u] /\ held'[u] = held[u]
        /\ \A j \in Instances : bound'[j][u] = bound[j][u]
  BY DEF Grant, Sound, TypeOK
<1> QED
  BY <1>4, <1>5, <1>6, <1>7 DEF Steady, Fit

\* After the caller's valid lease is released the task has none.
LEMMA AttemptEnds ==
  ASSUME Sound, NEW i \in Instances, NEW t \in Tasks, NEW l, LeaseValid(t, l),
         Release(RowOfLease(t, l)), Unbind(i, {t})
  PROVE  /\ held'[t] = {}
         /\ \A u \in Tasks \ {t} : held'[u] = held[u]
         /\ \A u \in Tasks, j \in Instances : bound'[j][u] \in {bound[j][u], NoLease}
<1>1. PICK r \in held[t] : held[t] = {r} /\ r.token = l
  BY ValidLease
<1>2. \A u \in Tasks : held'[u] = IF u = t THEN {q \in held[t] : q.token # l} ELSE held[u]
  BY ReleaseOne
<1>3. {q \in held[t] : q.token # l} = {}
  BY <1>1
<1>4. \A u \in Tasks, j \in Instances : bound'[j][u] \in {bound[j][u], NoLease}
  BY UnbindForgets DEF Sound
<1> QED
  BY <1>2, <1>3, <1>4

\* After every lease of a task is revoked it has none, and the others theirs.
LEMMA RevokeEnds ==
  ASSUME Sound, NEW i \in Instances, NEW t \in Tasks, Revoke(i, t)
  PROVE  /\ held'[t] = {} /\ active'[t] = NoLease
         /\ \A u \in Tasks \ {t} : held'[u] = held[u] /\ active'[u] = active[u]
         /\ \A u \in Tasks, j \in Instances : bound'[j][u] \in {bound[j][u], NoLease}
<1>1. Deactivate(t) /\ Release(RowsOf({t})) /\ Unbind(i, {t})
  BY DEF Revoke
<1>2. \A u \in Tasks : held'[u] = IF u \in {t} THEN {} ELSE held[u]
  BY <1>1, ReleaseAll
<1>3. \A u \in Tasks, j \in Instances : bound'[j][u] \in {bound[j][u], NoLease}
  BY <1>1, UnbindForgets DEF Sound
<1> QED
  BY <1>1, <1>2, <1>3 DEF Deactivate, Sound, TypeOK

\* Extending a lease, whoever presents it, keeps every task fit.
LEMMA ExtendSteady ==
  ASSUME Sound, NEW t \in Tasks, NEW u \in Tasks, NEW l, Extend(t, l),
         UNCHANGED <<state, active, latest, attempts, journal, bound>>
  PROVE  Steady(u)
<1>a. TypeOK /\ Fit(u)
  BY DEF Sound
<1>b. /\ attempts[u] \in Nat /\ latest[u] \in Nat
      /\ attempts[u] <= latest[u]
      /\ held[u] # {} => attempts[u] + 1 <= latest[u]
      /\ state[u] = journal[u]
  BY <1>a, KernelAssumption DEF Fit, Charged, Journalled, TypeOK, KernelAssumption
<1>1. CASE u = t /\ held[u] # {}
  <2>1. PICK r \in held[u] : held[u] = {r} /\ state[u] \in LeasedStates
    BY <1>1, <1>a DEF Fit, SoleLease
  <2> DEFINE q == IF r.token = l THEN [r EXCEPT !.ttl = TTL] ELSE r
  <2>2. held'[u] = {q}
    BY <1>1, <2>1, <1>a DEF Extend, TypeOK
  <2>3. q.token = r.token
    BY <1>a, RowTtl, KernelAssumption DEF TypeOK, KernelAssumption
  <2> HIDE DEF q
  <2> QED
    BY <2>1, <2>2, <2>3, <1>b, Kept
<1>2. CASE u # t \/ held[u] = {}
  <2>1. held'[u] = held[u]
    BY <1>2, <1>a DEF Extend, TypeOK
  <2> QED
    BY <2>1, Untouched
<1> QED
  BY <1>1, <1>2

\* No step makes a task unfit.
LEMMA NextSteady ==
  ASSUME Sound, [Next]_vars, NEW u \in Tasks
  PROVE  Steady(u)
<1> USE DEF control, leases, effects
<1>a. TypeOK /\ Fit(u)
  BY DEF Sound
<1>b. /\ attempts[u] \in Nat /\ latest[u] \in Nat
      /\ attempts[u] <= latest[u]
      /\ held[u] # {} => attempts[u] + 1 <= latest[u]
      /\ state[u] = journal[u]
      /\ held[u] # {} => state[u] \in LeasedStates
  BY <1>a, KernelAssumption DEF Fit, Charged, Journalled, SoleLease, TypeOK, KernelAssumption
<1>1. ASSUME NEW t \in Tasks, CreateTask(t) PROVE Steady(u)
  <2>1. u = t => held[u] = {}
    BY <1>1, <1>b DEF CreateTask, LeasedStates, NoTask
  <2>2. CASE u = t
    BY <1>1, <1>a, <1>b, <2>1, <2>2, Rested DEF CreateTask, Move, TypeOK
  <2>3. CASE u # t
    BY <1>1, <1>a, <2>3, Untouched DEF CreateTask, Move, TypeOK
  <2> QED
    BY <2>2, <2>3
<1>2. ASSUME NEW i \in Instances, NEW t \in Tasks, NEW to, NEW l \in Tokens \cup {NoLease},
             Transition(i, t, to, l)
      PROVE Steady(u)
  <2> DEFINE caller == IF l = NoLease THEN bound[i][t] ELSE l
  <2>1. /\ UNCHANGED <<latest, attempts>> /\ Move(t, to) /\ LeaseGate(i, t, caller)
    BY <1>2 DEF Transition
  <2>2. /\ caller # NoLease => LeaseValid(t, caller)
        /\ state[t] \in LeasedStates \/ active[t] # NoLease => LeaseValid(t, caller)
    BY <2>1 DEF LeaseGate
  <2> HIDE DEF caller
  <2>3. /\ caller # NoLease => \E r \in held[t] : held[t] = {r} /\ caller = active[t]
        /\ caller = NoLease => held[t] = {} /\ active[t] = NoLease
    BY <2>2, ValidLease DEF Sound, Fit, SoleLease
  <2>4. CASE to \in LeaseKept
    <3>1. held' = held /\ bound' = bound /\ active'[t] = caller
          /\ \A v \in Tasks \ {t} : active'[v] = active[v]
      BY <1>2, <2>4, <1>a DEF Transition, TypeOK, caller
    <3>2. CASE u # t
      BY <2>1, <3>1, <3>2, <1>a, Untouched DEF Move, TypeOK
    <3>3. CASE u = t /\ caller = NoLease
      BY <2>1, <2>3, <3>1, <3>3, <1>a, <1>b, Rested DEF Move, TypeOK
    <3>4. CASE u = t /\ caller # NoLease
      <4>1. PICK r \in held[u] : held[u] = {r} /\ active'[u] = active[u]
        BY <2>3, <3>1, <3>4
      <4>2. state'[u] = to /\ journal'[u] = to /\ to \in LeasedStates
        BY <2>1, <2>4, <3>4, <1>a, StateSets DEF Move, TypeOK
      <4> QED
        BY <2>1, <3>1, <4>1, <4>2, Kept
    <3> QED
      BY <3>2, <3>3, <3>4
  <2>5. CASE to \notin LeaseKept
    <3>1. /\ Deactivate(t) /\ Release(RowOfLease(t, caller))
          /\ IF caller = NoLease THEN UNCHANGED bound ELSE Unbind(i, {t})
      BY <1>2, <2>5 DEF Transition, caller
    <3>2. \A v \in Tasks, j \in Instances : bound'[j][v] \in {bound[j][v], NoLease}
      BY <3>1, <1>a, UnbindForgets
    <3>3. held'[u] = IF u = t THEN {} ELSE held[u]
      BY <3>1, <2>2, <2>3, ReleaseOne, ValidLease
    <3>4. CASE u # t
      BY <2>1, <3>1, <3>2, <3>3, <3>4, <1>a, Untouched DEF Move, Deactivate, TypeOK
    <3>5. CASE u = t
      BY <2>1, <3>1, <3>2, <3>3, <3>5, <1>a, <1>b, Rested DEF Move, Deactivate, TypeOK
    <3> QED
      BY <3>4, <3>5
  <2> QED
    BY <2>4, <2>5
<1>3. ASSUME NEW t \in Tasks, CommitApproval(t) PROVE Steady(u)
  <2>1. u = t => held[u] = {}
    BY <1>3, <1>b DEF CommitApproval, LeasedStates
  <2>2. CASE u = t
    BY <1>3, <1>a, <1>b, <2>1, <2>2, Rested DEF CommitApproval, Move, TypeOK
  <2>3. CASE u # t
    BY <1>3, <1>a, <2>3, Untouched DEF CommitApproval, Move, TypeOK
  <2> QED
    BY <2>2, <2>3
<1>4. ASSUME NEW i \in Instances, NEW t \in Tasks, Claim(i, t) PROVE Steady(u)
  <2>1. /\ Grant(i, t) /\ UNCHANGED attempts /\ state[t] = "QUEUED"
        /\ state'[t] = "LEASED" /\ journal'[t] = "LEASED"
        /\ active'[t] = latest'[t] /\ (u # t => active'[u] = active[u])
    BY <1>4, <1>a DEF Claim, Move, TypeOK
  <2>2. CASE u = t
    BY <2>1, <2>2, Granted
  <2>3. CASE u # t
    BY <1>4, <2>1, <2>3, <1>a, Granted, Untouched DEF Claim, Move, TypeOK
  <2> QED
    BY <2>2, <2>3
<1>5. ASSUME NEW i \in Instances, ClaimNext(i) PROVE Steady(u)
  <2>1. UNCHANGED attempts
    BY <1>5 DEF ClaimNext
  <2>2. ASSUME NEW gone \in SUBSET Overdue, NEW granted \in SUBSET Eligible,
               state' = AfterScan(state, gone, granted),
               journal' = AfterScan(journal, gone, granted)
        PROVE  /\ \A v \in gone : v \notin Eligible /\ state[v] = "QUEUED"
                                 /\ state'[v] = "FAILED" /\ journal'[v] = "FAILED"
               /\ \A v \in granted : state[v] = "QUEUED" /\ state'[v] = "LEASED"
                                    /\ journal'[v] = "LEASED"
               /\ u \notin gone \cup granted => state'[u] = state[u] /\ journal'[u] = journal[u]
    BY <2>2 DEF Overdue, Eligible, AfterScan
  <2>3. state[u] = "QUEUED" => held[u] = {}
    BY <1>b DEF LeasedStates
  <2>4. ASSUME NEW t \in Eligible, NEW gone \in SUBSET Overdue, Grant(i, t),
               active' = [ScanDeactivates(gone) EXCEPT ![t] = latest'[t]],
               state' = AfterScan(state, gone, {t}), journal' = AfterScan(journal, gone, {t})
        PROVE  Steady(u)
    <3>0. {t} \in SUBSET Eligible /\ t \in Tasks
      BY DEF Eligible
    <3>1. /\ t \notin gone /\ state[t] = "QUEUED"
          /\ state'[t] = "LEASED" /\ journal'[t] = "LEASED"
          /\ u \in gone => state[u] = "QUEUED" /\ state'[u] = journal'[u]
          /\ u \notin gone /\ u # t => state'[u] = state[u] /\ journal'[u] = journal[u]
      BY <2>2, <2>4, <3>0
    <3>2. /\ active'[t] = latest'[t]
          /\ u # t => active'[u] = IF u \in gone THEN NoLease ELSE active[u]
      BY <2>4, <3>0 DEF ScanDeactivates
    <3>3. CASE u = t
      BY <2>1, <2>4, <3>0, <3>1, <3>2, <3>3, Granted
    <3>4. u # t => /\ latest'[u] = latest[u] /\ held'[u] = held[u]
                   /\ \A j \in Instances : bound'[j][u] = bound[j][u]
      BY <2>1, <2>4, <3>0, <3>1, <3>2, Granted
    <3>5. CASE u # t /\ u \in gone
      BY <2>1, <2>3, <3>1, <3>2, <3>4, <3>5, <1>b, Rested
    <3>6. CASE u # t /\ u \notin gone
      BY <2>1, <3>1, <3>2, <3>4, <3>6, Untouched
    <3> QED
      BY <3>3, <3>5, <3>6
  <2>5. ASSUME state' = AfterScan(state, Overdue, {}), journal' = AfterScan(journal, Overdue, {}),
               active' = ScanDeactivates(Overdue), UNCHANGED <<latest, held, bound>>
        PROVE  Steady(u)
    <3>1. CASE u \in Overdue
      BY <2>1, <2>2, <2>3, <2>5, <3>1, <1>b, Rested DEF ScanDeactivates
    <3>2. CASE u \notin Overdue
      BY <2>1, <2>2, <2>5, <3>2, Untouched DEF ScanDeactivates
    <3> QED
      BY <3>1, <3>2
  <2> QED
    BY <1>5, <2>4, <2>5 DEF ClaimNext
<1>6. ASSUME NEW i \in Instances, NEW t \in Tasks, Start(i, t) PROVE Steady(u)
  <2>1. CASE u = t
    <3>1. PICK r \in held[u] : held[u] = {r} /\ bound[i][u] = active[u]
      BY <1>6, <2>1, ValidLease DEF Start
    <3>2. /\ state'[u] = "RUNNING" /\ journal'[u] = "RUNNING" /\ active'[u] = active[u]
      BY <1>6, <2>1, <3>1, <1>a DEF Start, Move, TypeOK
    <3> QED
      BY <1>6, <3>1, <3>2, Kept DEF Start, LeasedStates
  <2>2. CASE u # t
    BY <1>6, <2>2, <1>a, Untouched DEF Start, Move, TypeOK
  <2> QED
    BY <2>1, <2>2
<1>7. ASSUME NEW i \in Instances, NEW t \in Tasks, Heartbeat(i, t) \/ RenewLease(i, t)
      PROVE Steady(u)
  BY <1>7, ExtendSteady DEF Heartbeat, RenewLease
<1>8. ASSUME NEW i \in Instances, NEW t \in Tasks, ReleaseLease(i, t) PROVE Steady(u)
  <2>1. /\ LeaseValid(t, bound[i][t]) /\ Release(RowOfLease(t, bound[i][t])) /\ Unbind(i, {t})
        /\ Deactivate(t) /\ UNCHANGED <<state, latest, attempts, journal>>
    BY <1>8 DEF ReleaseLease, Authorised
  <2>2. CASE u = t
    BY <2>1, <2>2, <1>a, <1>b, AttemptEnds, Rested DEF Deactivate, TypeOK
  <2>3. CASE u # t
    BY <2>1, <2>3, <1>a, AttemptEnds, Untouched DEF Deactivate, TypeOK
  <2> QED
    BY <2>2, <2>3
<1>9. ASSUME NEW i \in Instances, NEW t \in Tasks,
             Checkpoint(i, t) \/ IdempotencyClaim(i, t) \/ IdempotencyComplete(i, t)
      PROVE Steady(u)
  BY <1>9, Untouched DEF Checkpoint, IdempotencyClaim, IdempotencyComplete
<1>10. ASSUME NEW i \in Instances, NEW t \in Tasks, RecordActionDispatched(i, t) PROVE Steady(u)
  <2>1. CASE u = t
    <3>1. PICK r \in held[u] : held[u] = {r}
      BY <1>10, <2>1, ValidLease DEF RecordActionDispatched, Authorised
    <3>2. state'[u] = "UNKNOWN" /\ journal'[u] = "UNKNOWN"
      BY <1>10, <2>1, <1>a DEF RecordActionDispatched, Move, TypeOK
    <3> QED
      BY <1>10, <3>1, <3>2, Kept DEF RecordActionDispatched, LeasedStates
  <2>2. CASE u # t
    BY <1>10, <2>2, <1>a, Untouched DEF RecordActionDispatched, Move, TypeOK
  <2> QED
    BY <2>1, <2>2
<1>11. ASSUME NEW i \in Instances, NEW t \in Tasks, NEW s, Authorised(i, t), EndAttempt(i, t, s),
              attempts'[u] \in {attempts[u], IF u = t THEN attempts[t] + 1 ELSE attempts[u]}
       PROVE Steady(u)
  <2>1. /\ LeaseValid(t, bound[i][t]) /\ Release(RowOfLease(t, bound[i][t])) /\ Unbind(i, {t})
        /\ Deactivate(t) /\ Move(t, s) /\ UNCHANGED latest
    BY <1>11 DEF EndAttempt, Authorised
  <2>2. CASE u = t
    <3>1. held[u] # {}
      BY <2>1, <2>2, ValidLease
    <3>2. attempts'[u] <= latest[u]
      BY <1>11, <1>b, <2>2, <3>1
    <3> QED
      BY <2>1, <2>2, <3>2, <1>a, AttemptEnds, Rested DEF Deactivate, Move, TypeOK
  <2>3. CASE u # t
    BY <2>1, <2>3, <1>11, <1>a, AttemptEnds, Untouched DEF Deactivate, Move, TypeOK
  <2> QED
    BY <2>2, <2>3
<1>12. ASSUME NEW i \in Instances, NEW t \in Tasks, CommitCompleted(i, t) PROVE Steady(u)
  BY <1>11, <1>12 DEF CommitCompleted
<1>13. ASSUME NEW i \in Instances, NEW t \in Tasks, NEW class, CommitFailed(i, t, class)
       PROVE Steady(u)
  <2>1. attempts'[u] = IF u = t THEN attempts[t] + 1 ELSE attempts[u]
    BY <1>13, <1>a DEF CommitFailed, TypeOK
  <2> QED
    BY <1>11, <1>13, <2>1 DEF CommitFailed
<1>14. ASSUME NEW i \in Instances, NEW t \in Tasks, NEW s, Revoke(i, t), Move(t, s),
              UNCHANGED <<latest, attempts>>
       PROVE Steady(u)
  <2>1. CASE u = t
    BY <1>14, <2>1, <1>a, <1>b, RevokeEnds, Rested DEF Move, TypeOK
  <2>2. CASE u # t
    BY <1>14, <2>2, <1>a, RevokeEnds, Untouched DEF Move, TypeOK
  <2> QED
    BY <2>1, <2>2
<1>15. ASSUME NEW i \in Instances, NEW t \in Tasks,
              EnterReconciling(i, t) \/ SetTaskKill(i, t)
       PROVE Steady(u)
  BY <1>14, <1>15 DEF EnterReconciling, SetTaskKill
<1>16. ASSUME NEW i \in Instances, NEW t \in Tasks, NEW outcome, ReconcileUnknown(i, t, outcome)
       PROVE Steady(u)
  BY <1>14, <1>16 DEF ReconcileUnknown
<1>17. ASSUME NEW on, SetGlobalKill(on) PROVE Steady(u)
  BY <1>17, Untouched DEF SetGlobalKill
<1>18. ASSUME NEW i \in Instances, ExpireLeases(i) PROVE Steady(u)
  <2> DEFINE swept == {p[1] : p \in ExpiredRows}
             moves == u \in swept /\ AfterExpiry(state[u]) # state[u]
  <2>1. u \in swept <=> \E r \in held[u] : r.ttl = 0
    <3>1. \A p : p \in ExpiredRows <=> \E v \in Tasks : \E r \in held[v] : p = <<v, r>> /\ r.ttl = 0
      BY DEF ExpiredRows, RowsOf
    <3>2. ASSUME u \in swept PROVE \E r \in held[u] : r.ttl = 0
      <4>1. PICK p \in ExpiredRows : p[1] = u
        BY <3>2
      <4> QED
        BY <3>1, <4>1
    <3>3. ASSUME NEW r \in held[u], r.ttl = 0 PROVE u \in swept
      <4>1. <<u, r>> \in ExpiredRows
        BY <3>1, <3>3
      <4> QED
        BY <4>1
    <3> QED
      BY <3>2, <3>3
  <2>2. /\ state'[u] = IF moves THEN AfterExpiry(state[u]) ELSE state[u]
        /\ journal'[u] = IF moves THEN AfterExpiry(state[u]) ELSE journal[u]
        /\ UNCHANGED <<latest, attempts>> /\ Release(ExpiredRows) /\ Unbind(i, swept)
    BY <1>18 DEF ExpireLeases
  <2>3. active'[u] = IF u \in swept /\ (\/ AfterExpiry(state[u]) # state[u]
                                        \/ \E p \in ExpiredRows : p[1] = u /\ p[2].token = active[u])
                       THEN NoLease ELSE active[u]
    BY <1>18 DEF ExpireLeases
  <2>4. held'[u] = {r \in held[u] : r.ttl # 0}
    BY <2>2, ReleaseExpired
  <2>5. \A j \in Instances : bound'[j][u] \in {bound[j][u], NoLease}
    BY <2>2, <1>a, UnbindForgets
  <2>6. CASE u \in swept
    <3>1. PICK r \in held[u] : r.ttl = 0 /\ held[u] = {r} /\ r.token = active[u]
      BY <2>1, <2>6, <1>a DEF Fit, SoleLease
    <3>2. held'[u] = {}
      BY <2>4, <3>1
    <3>3. <<u, r>> \in ExpiredRows
      BY <3>1 DEF ExpiredRows, RowsOf
    <3>4. active'[u] = NoLease
      BY <2>3, <2>6, <3>1, <3>3
    <3>5. state'[u] = journal'[u]
      BY <2>2, <1>b
    <3> QED
      BY <2>2, <2>5, <3>2, <3>4, <3>5, <1>b, Rested
  <2>7. CASE u \notin swept
    <3>1. held'[u] = held[u]
      BY <2>1, <2>4, <2>7
    <3> QED
      BY <2>2, <2>3, <2>5, <2>7, <3>1, Untouched
  <2> QED
    BY <2>6, <2>7
<1>19. ASSUME NEW i \in Instances, NEW stale \in SUBSET Tasks, AutoReconcile(i, stale)
       PROVE Steady(u)
  <2> DEFINE orphans == {t \in stale : Orphan(t)}
  <2>1. /\ state'[u] = IF u \in orphans THEN "RECONCILING" ELSE state[u]
        /\ journal'[u] = IF u \in orphans THEN "RECONCILING" ELSE journal[u]
        /\ active'[u] = IF u \in orphans THEN NoLease ELSE active[u]
        /\ UNCHANGED <<latest, attempts>> /\ Release(RowsOf(orphans)) /\ Unbind(i, orphans)
    BY <1>19 DEF AutoReconcile
  <2> HIDE DEF orphans
  <2>2. held'[u] = IF u \in orphans THEN {} ELSE held[u]
    BY <2>1, ReleaseAll
  <2>3. \A j \in Instances : bound'[j][u] \in {bound[j][u], NoLease}
    BY <2>1, <1>a, UnbindForgets
  <2>4. CASE u \in orphans
    BY <2>1, <2>2, <2>3, <2>4, <1>b, Rested
  <2>5. CASE u \notin orphans
    BY <2>1, <2>2, <2>3, <2>5, Untouched
  <2> QED
    BY <2>4, <2>5
<1>20. ASSUME NEW t \in Tasks, RebuildProjection(t) PROVE Steady(u)
  <2>1. /\ ReplayedLease(t) = IF held[t] = {} THEN NoLease ELSE active[t]
        /\ journal[t] = state[t]
    BY ReplayIsActive DEF Sound, Fit, Journalled
  <2>2. state' = state /\ UNCHANGED <<latest, held, attempts, journal, bound>>
    BY <1>20, <2>1, <1>a DEF RebuildProjection, TypeOK
  <2>3. active'[u] = active[u] \/ (held[u] = {} /\ active'[u] = NoLease)
    BY <1>20, <2>1, <1>a DEF RebuildProjection, TypeOK
  <2> QED
    BY <2>2, <2>3, <1>b, Untouched, Rested
<1>21. ASSUME Tick PROVE Steady(u)
  <2>1. held'[u] = {[r EXCEPT !.ttl = Minus(r.ttl, 1)] : r \in held[u]}
    BY <1>21 DEF Tick
  <2>2. UNCHANGED <<state, active, latest, attempts, journal, bound>>
    BY <1>21 DEF Tick
  <2>3. CASE held[u] # {}
    <3>1. PICK r \in held[u] : held[u] = {r} /\ state[u] \in LeasedStates
      BY <2>3, <1>a DEF Fit, SoleLease
    <3> DEFINE q == [r EXCEPT !.ttl = Minus(r.ttl, 1)]
    <3>2. held'[u] = {q}
      BY <2>1, <3>1
    <3>3. r \in LeaseRows
      BY <1>a DEF TypeOK
    <3>4. q.token = r.token
      BY <3>3 DEF LeaseRows
    <3> HIDE DEF q
    <3> QED
      BY <2>2, <3>1, <3>2, <3>4, <1>b, Kept
  <2>4. CASE held[u] = {}
    BY <2>1, <2>2, <2>4, Untouched
  <2> QED
    BY <2>3, <2>4
<1>22. ASSUME NEW t \in Tasks, DeadlinePasses(t) PROVE Steady(u)
  BY <1>22, Untouched DEF DeadlinePasses
<1>23. ASSUME NEW i \in Instances, Crash(i) PROVE Steady(u)
  BY <1>23, <1>a, UnbindForgets, Untouched DEF Crash
<1>24. ASSUME NEW i \in Instances, NEW t \in Tasks, CommitRaises(i, t) PROVE Steady(u)
  BY <1>24, <1>a, UnbindForgets, Untouched DEF CommitRaises
<1>25. CASE UNCHANGED vars
  BY <1>25, Untouched DEF vars
<1> QED
  BY <1>1, <1>2, <1>3, <1>4, <1>5, <1>6, <1>7, <1>8, <1>9, <1>10, <1>12, <1>13, <1>15,
     <1>16, <1>17, <1>18, <1>19, <1>20, <1>21, <1>22, <1>23, <1>24, <1>25
     DEF Next, WorkerStep, OperatorStep, TaskStep, InstanceStep

\* A sound database stays sound, and every step of the kernel keeps the invariant.
LEMMA NextSound == Sound /\ [Next]_vars => Sound'
BY NextType, NextSteady DEF Sound, Steady

LEMMA NextIInv == IInv /\ [Next]_vars => IInv'
BY NextSound, NextSteady DEF IInv, Steady

\* The invariant holds initially and every step keeps it.
THEOREM Invariance == Spec => []IInv
BY InitFit, NextIInv, PTL DEF Spec

-----------------------------------------------------------------------------
(* What the invariant says about the kernel. *)

\* Every variable keeps its type.
THEOREM TypeCorrect == Spec => []TypeOK
BY Invariance, PTL DEF IInv, Sound

\* What it says of leases, writers and the journal, at one state.
LEMMA InvariantMeans ==
  IInv => OneLiveAttempt /\ ProjectionIsReplay /\ ExclusiveAuthority
<1> SUFFICES ASSUME IInv PROVE OneLiveAttempt /\ ProjectionIsReplay /\ ExclusiveAuthority
  OBVIOUS
<1>1. OneLiveAttempt
  BY DEF IInv, Sound, Fit, SoleLease, OneLiveAttempt
<1>2. ProjectionIsReplay
  BY ReplayIsActive DEF IInv, NoGhost, Sound, Fit, Journalled, ProjectionIsReplay
<1>3. ASSUME NEW t \in Tasks, NEW i \in Instances, NEW j \in Instances,
             Authorised(i, t), Authorised(j, t)
      PROVE  i = j
  <2>1. bound[i][t] # NoLease /\ bound[i][t] = bound[j][t]
    BY <1>3, ValidLease DEF IInv, Authorised
  <2> QED
    BY <2>1 DEF IInv, Sound, Fit, Bindings
<1> QED
  BY <1>1, <1>2, <1>3 DEF ExclusiveAuthority

\* A task never has two unreleased leases, nor one that is not its last and its
\* active one or that its state does not expect.
THEOREM OneLiveAttemptAlways == Spec => []OneLiveAttempt
BY InvariantMeans, Invariance, PTL

\* The tasks row is always what the journal and the lease table replay to.
THEOREM ProjectionAlwaysReplays == Spec => []ProjectionIsReplay
BY InvariantMeans, Invariance, PTL

\* Two instances never both pass the checks of a worker operation: the one that
\* does is bound to the last token, and no other is bound to the same.
THEOREM AuthorityIsExclusive == Spec => []ExclusiveAuthority
BY InvariantMeans, Invariance, PTL

\* The failed attempts and the live lease of a task have each used up a token.
THEOREM AttemptsAreCharged == Spec => []AttemptChargedOnce
<1>1. IInv => AttemptChargedOnce
  <2> SUFFICES ASSUME IInv, NEW t \in Tasks
               PROVE  attempts[t] + Cardinality(held[t]) <= latest[t]
    BY DEF AttemptChargedOnce
  <2>1. attempts[t] \in Nat /\ latest[t] \in Nat
    BY KernelAssumption DEF IInv, Sound, TypeOK, KernelAssumption
  <2>2. Charged(t) /\ SoleLease(t)
    BY DEF IInv, Sound, Fit
  <2>3. CASE held[t] = {}
    <3>1. Cardinality(held[t]) = 0
      BY <2>3, FS_EmptySet
    <3> QED
      BY <2>1, <2>2, <3>1 DEF Charged
  <2>4. CASE held[t] # {}
    <3>1. PICK r \in held[t] : held[t] = {r}
      BY <2>2, <2>4 DEF SoleLease
    <3>2. Cardinality(held[t]) = 1
      BY <3>1, FS_Singleton
    <3> QED
      BY <2>1, <2>2, <2>4, <3>2 DEF Charged
  <2> QED
    BY <2>3, <2>4
<1> QED
  BY <1>1, Invariance, PTL
=============================================================================
