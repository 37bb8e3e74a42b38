------------------------- MODULE BootRecoveryProofs -------------------------
(***************************************************************************)
(* Proofs about the kernel with its server's restarts, for any number of   *)
(* tasks, deaths and recoveries cut short: its types, what the accounts    *)
(* count whatever recovery was doing when it stopped, that a recovery that *)
(* ends leaves nothing in flight, and that a restart gives no attempt a    *)
(* right it had lost.                                                      *)
(***************************************************************************)
EXTENDS BootRecovery, TaskKernelAccountProofs

-----------------------------------------------------------------------------
(* The inductive invariant. *)

\* What recovery wants of a task.
Clear(t) == held[t] = {} /\ state[t] \notin LeasedStates \ {"UNKNOWN"}

AtTask == phase \in {"release", "account", "move"}

\* Recovery has done with the task, or had nothing to do with it.
Visited(t) == Recovering /\ t \notin todo /\ ~(AtTask /\ t = current)

\* The decrements of an owner's account that recovery remembers.
OwedTo(o) == IF phase = "account" /\ Owner[current] = o THEN owed ELSE 0

BootTypes ==
  /\ phase \in Phases
  /\ todo \in SUBSET Tasks
  /\ current \in Tasks \cup {NoTask}
  /\ owed \in Nat
  /\ failures \in 0..MaxFailures

\* Recovery is at a task, whose leases go before the accounts and the move.
Placed ==
  /\ AtTask => current \in Tasks
  /\ phase \in {"account", "move"} => held[current] = {}
  /\ phase # "account" => owed = 0

Progress == \A t \in Tasks : Visited(t) => Clear(t)

\* An account counts the owner's leases and the decrements recovery still owes, and
\* more than these only after a recovery was cut short.
Counted ==
  \A o \in Owners : /\ accounts[o] >= LeasesOf(o) + OwedTo(o)
                    /\ failures = 0 => accounts[o] = LeasesOf(o) + OwedTo(o)

BInv == Sound /\ BootTypes /\ Placed /\ Progress /\ Counted

-----------------------------------------------------------------------------
(* The database stays sound. *)

\* A task that is left without a lease is fit, though its row may still name one.
LEMMA LeftWithoutLease ==
  ASSUME Sound, NEW u \in Tasks,
         state'[u] = journal'[u], latest'[u] = latest[u], attempts'[u] = attempts[u],
         held'[u] = {}, \A j \in Instances : bound'[j][u] \in {bound[j][u], NoLease}
  PROVE  Fit(u)'
<1>1. Bindings(u)'
  BY BindingsKept DEF Sound, Fit
<1>2. SoleLease(u)' /\ Journalled(u)' /\ Charged(u)'
  BY DEF Sound, Fit, SoleLease, Journalled, Charged
<1> QED
  BY <1>1, <1>2 DEF Fit

LEMMA AfterBootFacts ==
  ASSUME NEW s \in TaskStates \cup {NoTask}
  PROVE  /\ AfterBoot(s) \in TaskStates \cup {NoTask}
         /\ AfterBoot(s) \notin LeasedStates \ {"UNKNOWN"}
         /\ AfterBoot(s) # s => s \notin Terminal /\ AfterBoot(s) \notin Terminal
BY DEF AfterBoot, TaskStates, LeasedStates, Terminal, NoTask

\* The steps of recovery that the kernel alone does not take.
RecoveryStep == ServerDies \/ ReleaseLeases \/ SettleAccount \/ MoveToSafety

\* Serving, and rebuilding a task's row, are steps of the kernel; the other steps do
\* not touch the database.
LEMMA BootStepKinds ==
  ASSUME [BootNext]_allVars
  PROVE  [Next]_vars \/ RecoveryStep
<1>1. ASSUME NEW t \in Tasks, RebuildNext(t) PROVE Next
  BY <1>1 DEF RebuildNext, Next, TaskStep
<1> QED
  BY <1>1 DEF BootNext, allVars, Serve, BeginRecovery, AccountSettled, FinishRecovery,
     RecoveryRaises, RecoveryStep

LEMMA RecoverySound ==
  ASSUME Sound, Placed, RecoveryStep
  PROVE  Sound'
<1> USE DEF control, leases, effects
<1>a. TypeOK
  BY DEF Sound
<1>1. CASE ServerDies
  <2>1. /\ bound' = [i \in Instances |-> [t \in Tasks |-> NoLease]]
        /\ UNCHANGED <<killed, epoch, state, active, latest, held, attempts, journal, idem,
                       snapshots, late, accounts>>
    BY <1>1 DEF ServerDies
  <2>2. TypeOK'
    BY <2>1, <1>a DEF TypeOK
  <2>3. ASSUME NEW u \in Tasks PROVE Fit(u)'
    <3>1. Steady(u)
      BY <2>1, Untouched
    <3> QED
      BY <3>1 DEF Steady
  <2> QED
    BY <2>2, <2>3 DEF Sound
<1>2. CASE ReleaseLeases
  <2>1. /\ current \in Tasks
        /\ held' = [held EXCEPT ![current] = {}]
        /\ UNCHANGED <<killed, epoch, state, active, latest, attempts, journal, idem,
                       snapshots, late, accounts, bound>>
    BY <1>2 DEF ReleaseLeases, Placed, AtTask
  <2>2. TypeOK'
    BY <2>1, <1>a DEF TypeOK
  <2>3. ASSUME NEW u \in Tasks PROVE Fit(u)'
    <3>1. CASE u = current
      BY <2>1, <3>1, <1>a, LeftWithoutLease DEF TypeOK, Sound, Fit, Journalled
    <3>2. CASE u # current
      BY <2>1, <3>2, Untouched DEF Steady
    <3> QED
      BY <3>1, <3>2
  <2> QED
    BY <2>2, <2>3 DEF Sound
<1>3. CASE SettleAccount
  <2>1. /\ accounts' = [accounts EXCEPT ![Owner[current]] = Minus(accounts[Owner[current]], 1)]
        /\ UNCHANGED <<killed, epoch, state, active, latest, held, attempts, journal, idem,
                       snapshots, late, bound>>
    BY <1>3 DEF SettleAccount
  <2>2. current \in Tasks
    BY <1>3 DEF SettleAccount, Placed, AtTask
  <2>3. accounts' \in [Owners -> Nat]
    BY <2>1, <2>2, <1>a, MinusType, KernelAssumption DEF KernelAssumption, TypeOK
  <2>4. TypeOK'
    BY <2>1, <2>3, <1>a DEF TypeOK
  <2>5. ASSUME NEW u \in Tasks PROVE Fit(u)'
    BY <2>1, Untouched DEF Steady
  <2> QED
    BY <2>4, <2>5 DEF Sound
<1>4. CASE MoveToSafety
  <2>1. /\ current \in Tasks /\ held[current] = {}
        /\ UNCHANGED <<killed, epoch, latest, held, attempts, idem, snapshots, late,
                       accounts, bound>>
        /\ \/ UNCHANGED <<state, journal, active>>
           \/ Move(current, AfterBoot(state[current])) /\ Deactivate(current)
    BY <1>4 DEF MoveToSafety, Placed, AtTask
  <2>2. AfterBoot(state[current]) \in TaskStates \cup {NoTask}
    BY <2>1, <1>a, AfterBootFacts DEF TypeOK
  <2>3. TypeOK'
    BY <2>1, <2>2, <1>a DEF TypeOK, Move, Deactivate
  <2>4. ASSUME NEW u \in Tasks PROVE Fit(u)'
    <3>1. CASE u = current
      <4>1. state'[u] = journal'[u]
        BY <2>1, <3>1, <1>a DEF Move, TypeOK, Sound, Fit, Journalled
      <4> QED
        BY <2>1, <3>1, <4>1, LeftWithoutLease
    <3>2. CASE u # current
      <4>1. state'[u] = state[u] /\ journal'[u] = journal[u] /\ active'[u] = active[u]
        BY <2>1, <3>2, <1>a DEF Move, Deactivate, TypeOK
      <4> QED
        BY <2>1, <4>1, Untouched DEF Steady
    <3> QED
      BY <3>1, <3>2
  <2> QED
    BY <2>3, <2>4 DEF Sound
<1> QED
  BY <1>1, <1>2, <1>3, <1>4 DEF RecoveryStep

LEMMA BootSound ==
  ASSUME Sound, Placed, [BootNext]_allVars
  PROVE  Sound'
BY BootStepKinds, RecoverySound, NextSound

-----------------------------------------------------------------------------
(* Recovery's own variables, and its way through the tasks. *)

\* There is one decrement to make for a task that has a lease, and none for others.
LEMMA OneLeaseToSettle ==
  ASSUME Sound, NEW t \in Tasks
  PROVE  Cardinality(held[t]) = IF held[t] = {} THEN 0 ELSE 1
<1>1. CASE held[t] = {}
  BY <1>1, FS_EmptySet
<1>2. CASE held[t] # {}
  <2>1. PICK r \in held[t] : held[t] = {r}
    BY <1>2 DEF Sound, Fit, SoleLease
  <2> QED
    BY <1>2, <2>1, FS_Singleton
<1> QED
  BY <1>1, <1>2

LEMMA BootTypesKept ==
  ASSUME Sound, Placed, BootTypes, [BootNext]_allVars
  PROVE  BootTypes'
<1>0. MaxFailures \in Nat
  BY FailureAssumption DEF FailureAssumption
<1>1. CASE Serve \/ UNCHANGED allVars
  BY <1>1 DEF Serve, bootVars, allVars, BootTypes
<1>2. CASE ServerDies
  BY <1>0, <1>2 DEF ServerDies, Forget, BootTypes, Phases
<1>3. CASE BeginRecovery
  BY <1>3 DEF BeginRecovery, BootTypes, Phases
<1>4. ASSUME NEW t \in Tasks, RebuildNext(t) PROVE BootTypes'
  BY <1>4 DEF RebuildNext, BootTypes, Phases
<1>5. CASE ReleaseLeases
  <2>1. Cardinality(held[current]) \in Nat
    BY <1>5, OneLeaseToSettle DEF ReleaseLeases, Placed, AtTask
  <2> QED
    BY <1>5, <2>1 DEF ReleaseLeases, BootTypes, Phases
<1>6. CASE SettleAccount
  BY <1>6 DEF SettleAccount, BootTypes
<1>7. CASE AccountSettled \/ MoveToSafety \/ FinishRecovery
  BY <1>7 DEF AccountSettled, MoveToSafety, FinishRecovery, BootTypes, Phases
<1>8. CASE RecoveryRaises
  BY <1>0, <1>8 DEF RecoveryRaises, Forget, BootTypes, Phases
<1> QED
  BY <1>1, <1>2, <1>3, <1>4, <1>5, <1>6, <1>7, <1>8 DEF BootNext

LEMMA PlacedKept ==
  ASSUME TypeOK, Placed, [BootNext]_allVars
  PROVE  Placed'
<1> USE DEF Placed, AtTask, leases
<1>1. CASE Serve \/ UNCHANGED allVars
  BY <1>1 DEF Serve, bootVars, allVars, vars
<1>2. CASE ServerDies \/ BeginRecovery \/ FinishRecovery \/ RecoveryRaises
  BY <1>2 DEF ServerDies, BeginRecovery, FinishRecovery, RecoveryRaises, Forget
<1>3. ASSUME NEW t \in Tasks, RebuildNext(t) PROVE Placed'
  BY <1>3 DEF RebuildNext
<1>4. CASE ReleaseLeases
  <2>1. held'[current] = {}
    BY <1>4 DEF ReleaseLeases, TypeOK
  <2> QED
    BY <1>4, <2>1 DEF ReleaseLeases
<1>5. CASE SettleAccount \/ AccountSettled \/ MoveToSafety
  BY <1>5 DEF SettleAccount, AccountSettled, MoveToSafety, vars
<1> QED
  BY <1>1, <1>2, <1>3, <1>4, <1>5 DEF BootNext

LEMMA ProgressKept ==
  ASSUME Sound, Placed, Progress, [BootNext]_allVars
  PROVE  Progress'
<1> SUFFICES ASSUME NEW t \in Tasks, Visited(t)' PROVE Clear(t)'
  BY DEF Progress
<1> USE DEF Visited, Recovering, AtTask, leases
<1>a. TypeOK /\ state[t] = journal[t] /\ state[t] \in TaskStates \cup {NoTask}
  BY TaskFacts DEF Sound
<1>1. ASSUME Visited(t), state'[t] = state[t], held'[t] = held[t] PROVE Clear(t)'
  BY <1>1 DEF Progress, Clear
<1>2. CASE UNCHANGED allVars
  BY <1>1, <1>2 DEF allVars, vars
<1>3. CASE Serve \/ ServerDies \/ FinishRecovery \/ RecoveryRaises
  BY <1>3 DEF Serve, bootVars, ServerDies, FinishRecovery, RecoveryRaises
<1>4. CASE BeginRecovery
  <2>1. state[t] \in Terminal \cup {NoTask} /\ UNCHANGED <<state, held>>
    BY <1>4 DEF BeginRecovery, vars
  <2>2. state[t] \notin LeasedStates
    BY <2>1, StateSets
  <2>3. held[t] = {}
    BY <2>2, TaskFacts
  <2> QED
    BY <2>1, <2>2, <2>3 DEF Clear
<1>5. ASSUME NEW u \in Tasks, RebuildNext(u) PROVE Clear(t)'
  <2>1. t # u /\ Visited(t)
    BY <1>5 DEF RebuildNext
  <2>2. state'[t] = state[t] /\ held'[t] = held[t]
    BY <1>5, <2>1, <1>a DEF RebuildNext, RebuildProjection, TypeOK
  <2> QED
    BY <1>1, <2>1, <2>2
<1>6. CASE ReleaseLeases
  <2>1. t # current /\ Visited(t)
    BY <1>6 DEF ReleaseLeases
  <2>2. state'[t] = state[t] /\ held'[t] = held[t]
    BY <1>6, <2>1, <1>a DEF ReleaseLeases, TypeOK
  <2> QED
    BY <1>1, <2>1, <2>2
<1>7. CASE SettleAccount \/ AccountSettled
  BY <1>1, <1>7 DEF SettleAccount, AccountSettled, vars
<1>8. CASE MoveToSafety
  <2>1. CASE t = current
    <3>1. held'[t] = {} /\ state'[t] = AfterBoot(state[t])
      BY <1>8, <2>1, <1>a DEF MoveToSafety, Placed, Move, TypeOK
    <3> QED
      BY <3>1, <1>a, AfterBootFacts DEF Clear
  <2>2. CASE t # current
    <3>1. Visited(t)
      BY <1>8, <2>2 DEF MoveToSafety
    <3>2. state'[t] = state[t] /\ held'[t] = held[t]
      BY <1>8, <2>2, <1>a DEF MoveToSafety, Move, TypeOK
    <3> QED
      BY <1>1, <3>1, <3>2
  <2> QED
    BY <2>1, <2>2
<1> QED
  BY <1>2, <1>3, <1>4, <1>5, <1>6, <1>7, <1>8 DEF BootNext

-----------------------------------------------------------------------------
(* The accounts. *)

\* What an account counts is what it counted as long as leases and accounts stay.
LEMMA SameLeases ==
  ASSUME UNCHANGED held, NEW o
  PROVE  LeasesOf(o)' = LeasesOf(o)
BY DEF LeasesOf, RowsOf

LEMMA CountedKept ==
  ASSUME Sound, Sound', BootTypes, Placed, Counted, [BootNext]_allVars
  PROVE  Counted'
<1> USE DEF leases
<1>a. \A o \in Owners : /\ LeasesOf(o) \in Nat /\ LeasesOf(o)' \in Nat
                        /\ accounts[o] \in Nat /\ OwedTo(o) \in Nat
                        /\ failures \in Nat
  BY LeasesCounted, LeasesCountedNext, FailureAssumption
     DEF CountsAreNat, OwedTo, BootTypes, FailureAssumption
<1>b. \A o \in Owners : phase # "account" => OwedTo(o) = 0
  BY DEF OwedTo
<1>1. ASSUME [Next]_vars, phase # "account", phase' # "account", failures' = failures
      PROVE  Counted'
  <2>1. Covered
    BY <1>a, <1>b, <1>1 DEF Counted, Covered
  <2>2. SlackKept
    BY <1>1, <2>1, NextKeepsSlack
  <2>3. \A o \in Owners : OwedTo(o)' = 0 /\ accounts'[o] \in Nat
    BY <1>1, LeasesCountedNext DEF OwedTo, CountsAreNat
  <2> SUFFICES ASSUME NEW o \in Owners
               PROVE  /\ accounts'[o] >= LeasesOf(o)' + OwedTo(o)'
                      /\ failures' = 0 => accounts'[o] = LeasesOf(o)' + OwedTo(o)'
    BY DEF Counted
  <2>4. accounts'[o] - LeasesOf(o)' = accounts[o] - LeasesOf(o)
    BY <2>2 DEF SlackKept
  <2>5. /\ accounts[o] >= LeasesOf(o)
        /\ failures = 0 => accounts[o] = LeasesOf(o)
    BY <1>a, <1>b, <1>1 DEF Counted
  <2> QED
    BY <1>a, <1>1, <2>3, <2>4, <2>5
<1>2. CASE Serve
  BY <1>1, <1>2 DEF Serve, bootVars
<1>3. ASSUME NEW t \in Tasks, RebuildNext(t) PROVE Counted'
  <2>1. Next
    BY <1>3 DEF RebuildNext, Next, TaskStep
  <2> QED
    BY <1>1, <1>3, <2>1 DEF RebuildNext
<1>4. ASSUME UNCHANGED <<held, accounts>>,
             failures' = failures,
             \A o \in Owners : OwedTo(o)' = OwedTo(o)
      PROVE  Counted'
  BY <1>4, SameLeases DEF Counted
<1>5. CASE UNCHANGED allVars \/ BeginRecovery \/ AccountSettled \/ MoveToSafety \/ FinishRecovery
  BY <1>4, <1>5
     DEF allVars, vars, BeginRecovery, AccountSettled, MoveToSafety, FinishRecovery, OwedTo
<1>6. CASE ServerDies \/ RecoveryRaises
  <2>1. /\ UNCHANGED <<held, accounts>>
        /\ \A o \in Owners : OwedTo(o)' = 0
        /\ failures' = failures + 1 \/ (failures' = failures /\ ~Recovering)
    BY <1>6 DEF ServerDies, RecoveryRaises, OwedTo, vars
  <2>2. \A o \in Owners : accounts[o] >= LeasesOf(o)
    BY <1>a DEF Counted
  <2>3. ASSUME NEW o \in Owners, failures' = 0 PROVE accounts[o] = LeasesOf(o)
    BY <1>a, <1>b, <2>1, <2>3 DEF Counted, Recovering
  <2> QED
    BY <2>1, <2>2, <2>3, <1>a, SameLeases DEF Counted
<1>7. CASE ReleaseLeases
  <2>1. /\ current \in Tasks /\ phase = "release" /\ phase' = "account"
        /\ owed' = IF held[current] = {} THEN 0 ELSE 1
        /\ held' = [held EXCEPT ![current] = {}]
        /\ UNCHANGED <<accounts, current, failures>>
    BY <1>7, OneLeaseToSettle DEF ReleaseLeases, Placed, AtTask
  <2>2. ASSUME NEW o \in Owners PROVE LeasesOf(o) = LeasesOf(o)' + OwedTo(o)'
    <3>1. /\ LeasesOf(o) = Cardinality(HeldTasks(o))
          /\ LeasesOf(o)' = Cardinality(HeldTasks(o)')
      BY CountByTask, CountedNext DEF CountsByTask
    <3>2. \A t \in Tasks : held'[t] = IF t = current THEN {} ELSE held[t]
      BY <2>1 DEF Sound, TypeOK
    <3>3. CASE Owner[current] = o /\ held[current] # {}
      <4>1. HeldTasks(o)' = HeldTasks(o) \ {current} /\ current \in HeldTasks(o)
        BY <2>1, <3>2, <3>3 DEF HeldTasks
      <4>2. Cardinality(HeldTasks(o)') = Cardinality(HeldTasks(o)) - 1
        BY <4>1, HeldFinite, FS_RemoveElement
      <4>3. OwedTo(o)' = 1
        BY <2>1, <3>3 DEF OwedTo
      <4> QED
        BY <1>a, <3>1, <4>2, <4>3
    <3>4. CASE ~(Owner[current] = o /\ held[current] # {})
      <4>1. HeldTasks(o)' = HeldTasks(o)
        BY <2>1, <3>2, <3>4 DEF HeldTasks
      <4>2. OwedTo(o)' = 0
        BY <2>1, <3>4 DEF OwedTo
      <4> QED
        BY <1>a, <3>1, <4>1, <4>2
    <3> QED
      BY <3>3, <3>4
  <2> QED
    BY <1>a, <1>b, <2>1, <2>2 DEF Counted
<1>8. CASE SettleAccount
  <2>1. /\ current \in Tasks /\ phase = "account" /\ owed > 0 /\ owed' = owed - 1
        /\ accounts' = [accounts EXCEPT ![Owner[current]] = Minus(accounts[Owner[current]], 1)]
        /\ UNCHANGED <<held, phase, current, failures>>
    BY <1>8 DEF SettleAccount, Placed, AtTask
  <2>2. ASSUME NEW o \in Owners PROVE accounts'[o] - OwedTo(o)' = accounts[o] - OwedTo(o)
    <3>1. CASE o = Owner[current]
      <4>1. OwedTo(o) = owed /\ OwedTo(o)' = owed - 1
        BY <2>1, <3>1 DEF OwedTo
      <4>2. 1 <= accounts[o]
        BY <1>a, <2>1, <4>1 DEF Counted, BootTypes
      <4>3. accounts'[o] = accounts[o] - 1
        BY <1>a, <2>1, <3>1, <4>2, MinusExact DEF Sound, TypeOK
      <4> QED
        BY <1>a, <4>1, <4>3 DEF BootTypes
    <3>2. CASE o # Owner[current]
      BY <2>1, <3>2 DEF OwedTo, Sound, TypeOK
    <3> QED
      BY <3>1, <3>2
  <2>3. \A o \in Owners : accounts'[o] \in Nat /\ OwedTo(o)' \in Nat
    <3>1. owed' \in Nat
      BY <2>1 DEF BootTypes
    <3> QED
      BY <3>1, LeasesCountedNext DEF CountsAreNat, OwedTo
  <2> QED
    BY <1>a, <2>1, <2>2, <2>3, SameLeases DEF Counted
<1> QED
  BY <1>2, <1>3, <1>5, <1>6, <1>7, <1>8 DEF BootNext

-----------------------------------------------------------------------------
(* The invariant, and what it says. *)

LEMMA InitBInv == BootInit => BInv
<1> SUFFICES ASSUME BootInit PROVE BInv
  OBVIOUS
<1>1. Sound /\ AccountsMatchLeases
  BY InitFit, InitAccounts DEF BootInit, IInv
<1>2. BootTypes /\ Placed /\ Progress
  BY FailureAssumption DEF BootInit, BootTypes, Phases, Placed, AtTask, Progress, Visited,
     Recovering, FailureAssumption
<1>3. Counted
  BY <1>1, LeasesCounted DEF BootInit, Counted, OwedTo, AccountsMatchLeases, CountsAreNat
<1> QED
  BY <1>1, <1>2, <1>3 DEF BInv

LEMMA NextBInv == BInv /\ [BootNext]_allVars => BInv'
<1> SUFFICES ASSUME BInv, [BootNext]_allVars PROVE BInv'
  OBVIOUS
<1> USE DEF BInv
<1>1. Sound'
  BY BootSound
<1>2. BootTypes' /\ Placed' /\ Progress'
  BY BootTypesKept, PlacedKept, ProgressKept DEF Sound
<1>3. Counted'
  BY <1>1, CountedKept
<1> QED
  BY <1>1, <1>2, <1>3

THEOREM BootInvariance == BootSpec => []BInv
BY InitBInv, NextBInv, PTL DEF BootSpec

\* Types, of the kernel's variables and of recovery's, across any restarts.
THEOREM BootTypeCorrect == BootSpec => []BootTypeOK
<1>1. BInv => BootTypeOK
  BY DEF BInv, Sound, BootTypes, BootTypeOK
<1> QED
  BY <1>1, BootInvariance, PTL

\* However often recovery was cut short, and wherever, no account counts fewer leases
\* than its owner has.
THEOREM NeverUndercounted == BootSpec => []AccountsNeverUndercount
<1>1. BInv => AccountsNeverUndercount
  <2> SUFFICES ASSUME BInv, NEW o \in Owners PROVE accounts[o] >= LeasesOf(o)
    BY DEF AccountsNeverUndercount
  <2>1. accounts[o] >= LeasesOf(o) + OwedTo(o)
    BY DEF BInv, Counted
  <2>2. accounts[o] \in Nat /\ LeasesOf(o) \in Nat /\ OwedTo(o) \in Nat
    BY LeasesCounted DEF BInv, BootTypes, CountsAreNat, OwedTo
  <2> QED
    BY <2>1, <2>2
<1> QED
  BY <1>1, BootInvariance, PTL

\* A server none of whose recoveries was cut short serves with accounts that count
\* exactly the leases there are, whenever and however often it died in service.
THEOREM CleanRecoveryExact == BootSpec => []CleanRecoveryKeepsAccounts
<1>1. BInv => CleanRecoveryKeepsAccounts
  BY LeasesCounted
     DEF BInv, Counted, OwedTo, CountsAreNat, CleanRecoveryKeepsAccounts, AccountsMatchLeases
<1> QED
  BY <1>1, BootInvariance, PTL

\* When recovery ends, no task has a lease or a state that expects one, but UNKNOWN.
THEOREM BootClearsFlight == BootSpec => NothingInFlightAfterBoot
<1>1. BInv => (FinishRecovery => \A t \in Tasks :
                held[t] = {} /\ state[t] \notin LeasedStates \ {"UNKNOWN"})
  BY DEF BInv, FinishRecovery, Progress, Visited, Recovering, AtTask, Clear
<1> QED
  BY <1>1, BootInvariance, PTL DEF BootSpec, NothingInFlightAfterBoot

-----------------------------------------------------------------------------
(* Restarts implement ExecutionAuthority. *)

\* A step of recovery takes an attempt's right away, or leaves phases and attempts
\* alone.
LEMMA RecoveryAuthority ==
  ASSUME Sound, Sound', Placed, RecoveryStep
  PROVE  [Authority!ANext]_(Authority!avars)
<1> USE DEF control, leases, effects
<1>a. TypeOK /\ TypeOK'
  BY DEF Sound
<1>1. UNCHANGED latest
  BY DEF RecoveryStep, ServerDies, ReleaseLeases, SettleAccount, MoveToSafety
<1>2. ASSUME NEW t \in Tasks
      PROVE  \/ Phase(t)' = Phase(t)
             \/ Phase(t) = "held" /\ Phase(t)' = "open"
  <2>1. CASE ServerDies \/ SettleAccount
    BY <2>1 DEF ServerDies, SettleAccount, Phase
  <2>2. CASE ReleaseLeases
    <3>1. state'[t] = state[t] /\ held'[t] = IF t = current THEN {} ELSE held[t]
      BY <2>2, <1>a DEF ReleaseLeases, TypeOK
    <3> QED
      BY <3>1 DEF Phase
  <2>3. CASE MoveToSafety
    <3>1. held'[t] = held[t] /\ state'[t] \in {state[t], AfterBoot(state[t])}
      BY <2>3, <1>a DEF MoveToSafety, Move, TypeOK
    <3>2. state[t] \in TaskStates \cup {NoTask}
      BY <1>a DEF TypeOK
    <3> QED
      BY <3>1, <3>2, AfterBootFacts DEF Phase
  <2> QED
    BY <2>1, <2>2, <2>3 DEF RecoveryStep
<1> DEFINE phases == [t \in Tasks |-> Phase(t)]
<1>3. phases' \in [Tasks -> {"open", "held", "closed"}] /\ latest' \in [Tasks -> Nat]
  BY <1>a, KernelAssumption DEF Phase, TypeOK, KernelAssumption
<1>4. \A t \in Tasks : phases[t] = Phase(t) /\ phases'[t] = Phase(t)'
  OBVIOUS
<1> HIDE DEF phases
<1>5. \A t \in Tasks : /\ latest'[t] = latest[t] /\ latest[t] \in Nat
                       /\ \/ phases'[t] = phases[t]
                          \/ phases[t] = "held" /\ phases'[t] = "open"
  BY <1>1, <1>2, <1>3, <1>4
<1> QED
  BY <1>3, <1>5
     DEF phases, Authority!ANext, Authority!Phases, Authority!Keeps, Authority!Grants,
         Authority!Revokes, Authority!Closes

\* Under any restarts the leases are the attempts of ExecutionAuthority: none of before
\* a restart regains its right, and none begins beside it.
THEOREM BootKeepsAuthority == BootSpec => BootImplementsAuthority
<1>1. BInv /\ BInv' /\ [BootNext]_allVars => [Authority!ANext]_(Authority!avars)
  <2> SUFFICES ASSUME BInv, BInv', [BootNext]_allVars
               PROVE  [Authority!ANext]_(Authority!avars)
    OBVIOUS
  <2>1. CASE [Next]_vars
    BY <2>1, StepAuthority DEF BInv, Sound
  <2>2. CASE RecoveryStep
    BY <2>2, RecoveryAuthority DEF BInv
  <2> QED
    BY <2>1, <2>2, BootStepKinds
<1>2. BootInit => Authority!AInit
  BY InitAuthority DEF BootInit
<1> QED
  BY <1>1, <1>2, BootInvariance, PTL DEF BootSpec, BootImplementsAuthority, Authority!ASpec
=============================================================================
