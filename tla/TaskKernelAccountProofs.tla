----------------------- MODULE TaskKernelAccountProofs -----------------------
(***************************************************************************)
(* Proofs about the queue accounts: whatever grants and releases leases,   *)
(* an owner's account moves with the number of its unreleased leases, so   *)
(* that the two stay equal, and the cap of claim_next() is kept.           *)
(***************************************************************************)
EXTENDS TaskKernelStepProofs

-----------------------------------------------------------------------------
(* Counting lease rows. *)

OwnedBy(rows, o) == {p \in rows : Owner[p[1]] = o}

\* The tasks of an owner that have an unreleased lease.
HeldTasks(o) == {t \in Tasks : held[t] # {} /\ Owner[t] = o}

LEMMA RowFacts ==
  ASSUME NEW ts, NEW p
  PROVE  p \in RowsOf(ts) <=> \E t \in ts : \E r \in held[t] : p = <<t, r>>
BY DEF RowsOf

\* A task has one lease at most, so that an owner's leases can be counted by their
\* tasks; there are finitely many.
LEMMA CountByTask ==
  ASSUME Sound, NEW o
  PROVE  /\ IsFiniteSet(OwnedBy(RowsOf(Tasks), o))
         /\ LeasesOf(o) = Cardinality(OwnedBy(RowsOf(Tasks), o))
         /\ LeasesOf(o) = Cardinality(HeldTasks(o))
         /\ LeasesOf(o) \in Nat
<1> DEFINE S == OwnedBy(RowsOf(Tasks), o)
           T == HeldTasks(o)
           f == [p \in S |-> p[1]]
<1>1. \A p \in S : p[1] \in T
  BY RowFacts DEF OwnedBy, HeldTasks
<1>2. \A p, q \in S : p[1] = q[1] => p = q
  <2> SUFFICES ASSUME NEW p \in S, NEW q \in S, p[1] = q[1] PROVE p = q
    OBVIOUS
  <2>1. PICK t \in Tasks : \E r \in held[t] : p = <<t, r>>
    BY RowFacts DEF OwnedBy
  <2>2. PICK u \in Tasks : \E r \in held[u] : q = <<u, r>>
    BY RowFacts DEF OwnedBy
  <2>3. t = u
    BY <2>1, <2>2
  <2>4. \A r, s \in held[t] : r = s
    BY DEF Sound, Fit, SoleLease
  <2> QED
    BY <2>1, <2>2, <2>3, <2>4
<1>3. \A t \in T : \E p \in S : p[1] = t
  <2> SUFFICES ASSUME NEW t \in T PROVE \E p \in S : p[1] = t
    OBVIOUS
  <2>1. PICK r \in held[t] : TRUE
    BY DEF HeldTasks
  <2>2. <<t, r>> \in S
    BY RowFacts DEF OwnedBy, HeldTasks
  <2> QED
    BY <2>2
<1> HIDE DEF S, T
<1>4. f \in Bijection(S, T)
  BY <1>1, <1>2, <1>3 DEF Bijection, Injection, Surjection, IsInjective
<1>5. IsFiniteSet(T)
  BY FS_Subset, KernelAssumption DEF T, HeldTasks, KernelAssumption
<1>6. IsFiniteSet(S) /\ Cardinality(S) = Cardinality(T)
  BY <1>4, <1>5, FS_Injection, FS_Surjection DEF Bijection
<1>7. LeasesOf(o) = Cardinality(S)
  BY DEF LeasesOf, S, OwnedBy
<1> QED
  BY <1>5, <1>6, <1>7, FS_CardinalityType DEF S, T

LEMMA HeldFinite ==
  ASSUME NEW o
  PROVE  IsFiniteSet(HeldTasks(o))
BY FS_Subset, KernelAssumption DEF HeldTasks, KernelAssumption

\* The same of the state after a step.
CountsByTask == \A o \in Owners : LeasesOf(o) = Cardinality(HeldTasks(o))

LEMMA CountedAlways == Sound => CountsByTask
BY CountByTask DEF CountsByTask

LEMMA CountedNext == Sound' => CountsByTask'
BY CountedAlways, PTL

-----------------------------------------------------------------------------
(* What a step does to the leases and to the accounts. *)

\* No account counts fewer leases than there are.
Covered == \A o \in Owners : accounts[o] >= LeasesOf(o)

\* What an account counts beyond its owner's leases is kept.
SlackKept ==
  \A o \in Owners : accounts'[o] - LeasesOf(o)' = accounts[o] - LeasesOf(o)

\* Decrementing by what there is does not stop at zero.
LEMMA MinusExact ==
  ASSUME NEW a \in Nat, NEW n \in Nat, n <= a
  PROVE  Minus(a, n) = a - n
BY DEF Minus

\* A step that releases rows takes as many from each account as the owner loses.
LEMMA ReleaseKeepsSlack ==
  ASSUME Sound, Covered, NEW rows \in SUBSET RowsOf(Tasks), Release(rows)
  PROVE  SlackKept
<1> SUFFICES ASSUME NEW o \in Owners
             PROVE  accounts'[o] - LeasesOf(o)' = accounts[o] - LeasesOf(o)
  BY DEF SlackKept
<1> DEFINE S == OwnedBy(RowsOf(Tasks), o)
           R == OwnedBy(rows, o)
<1>1. IsFiniteSet(S) /\ LeasesOf(o) = Cardinality(S)
  BY CountByTask
<1>2. R \subseteq S /\ S \cap R = R
  BY DEF OwnedBy
<1>3. LeasesOf(o)' = Cardinality(S \ R)
  <2>1. \A t \in Tasks : held'[t] = {r \in held[t] : <<t, r>> \notin rows}
    BY DEF Release
  <2>2. {p \in RowsOf(Tasks) : Owner[p[1]] = o}' = S \ R
    BY <2>1 DEF RowsOf, OwnedBy
  <2> QED
    BY <2>2 DEF LeasesOf
<1>4. accounts'[o] = Minus(accounts[o], Cardinality(R))
  BY DEF Release, OwnedBy
<1> HIDE DEF S, R
<1>5. Cardinality(S \ R) = Cardinality(S) - Cardinality(R)
  <2>1. Cardinality(S \ R) = Cardinality(S) - Cardinality(S \cap R)
    BY <1>1, FS_Difference
  <2> QED
    BY <1>2, <2>1
<1>6. /\ Cardinality(R) \in Nat /\ Cardinality(S) \in Nat
      /\ Cardinality(R) <= Cardinality(S)
  BY <1>1, <1>2, FS_Subset, FS_CardinalityType
<1>7. accounts[o] \in Nat /\ Cardinality(S) <= accounts[o]
  BY <1>1 DEF Sound, TypeOK, Covered
<1>8. accounts'[o] = accounts[o] - Cardinality(R)
  BY <1>4, <1>6, <1>7, MinusExact
<1> QED
  BY <1>1, <1>3, <1>5, <1>6, <1>7, <1>8

\* A grant adds one lease, of a task that had none, and counts it.
LEMMA GrantKeepsSlack ==
  ASSUME Sound, Sound', NEW i \in Instances, NEW t \in Tasks, held[t] = {}, Grant(i, t)
  PROVE  /\ SlackKept
         /\ accounts'[Owner[t]] = accounts[Owner[t]] + 1
<1>1. /\ \A u \in Tasks : u # t => held'[u] = held[u]
      /\ held'[t] # {}
  BY DEF Grant, Sound, TypeOK
<1>2. /\ accounts'[Owner[t]] = accounts[Owner[t]] + 1
      /\ \A o \in Owners : o # Owner[t] => accounts'[o] = accounts[o]
  BY KernelAssumption DEF Grant, Sound, TypeOK, KernelAssumption
<1>3. ASSUME NEW o \in Owners
      PROVE  accounts'[o] - LeasesOf(o)' = accounts[o] - LeasesOf(o)
  <2>1. /\ LeasesOf(o) = Cardinality(HeldTasks(o)) /\ LeasesOf(o) \in Nat
        /\ LeasesOf(o)' = Cardinality(HeldTasks(o)')
        /\ accounts[o] \in Nat
    BY CountByTask, CountedNext DEF CountsByTask, Sound, TypeOK
  <2>2. CASE o = Owner[t]
    <3>1. HeldTasks(o)' = HeldTasks(o) \cup {t} /\ t \notin HeldTasks(o)
      BY <1>1, <2>2 DEF HeldTasks
    <3>2. IsFiniteSet(HeldTasks(o))
      BY HeldFinite
    <3>3. Cardinality(HeldTasks(o)') = Cardinality(HeldTasks(o)) + 1
      BY <3>1, <3>2, FS_AddElement
    <3> QED
      BY <1>2, <2>1, <2>2, <3>3
  <2>3. CASE o # Owner[t]
    <3>1. HeldTasks(o)' = HeldTasks(o)
      BY <1>1, <2>3 DEF HeldTasks
    <3> QED
      BY <1>2, <2>1, <2>3, <3>1
  <2> QED
    BY <2>2, <2>3
<1> QED
  BY <1>2, <1>3 DEF SlackKept

\* Whether a task has a lease is all that counts: time and renewals change nothing.
LEMMA SameHoldersKeepSlack ==
  ASSUME Sound, Sound', UNCHANGED accounts, \A t \in Tasks : held'[t] = {} <=> held[t] = {}
  PROVE  SlackKept
<1>1. \A o : HeldTasks(o)' = HeldTasks(o)
  BY DEF HeldTasks
<1>2. \A o \in Owners : /\ LeasesOf(o) = Cardinality(HeldTasks(o))
                        /\ LeasesOf(o)' = Cardinality(HeldTasks(o)')
  BY CountByTask, CountedNext DEF CountsByTask
<1> QED
  BY <1>1, <1>2 DEF SlackKept

\* Every step grants a lease, releases leases, or leaves it to each task whether it
\* has one.
Grants(i, t) == held[t] = {} /\ Grant(i, t)
Releases(rows) == rows \in SUBSET RowsOf(Tasks) /\ Release(rows)
SameHolders == UNCHANGED accounts /\ \A t \in Tasks : held'[t] = {} <=> held[t] = {}

LeaseChange ==
  \/ \E i \in Instances, t \in Tasks : Grants(i, t)
  \/ \E rows : Releases(rows)
  \/ SameHolders

LEMMA EveryLeaseChange ==
  ASSUME Sound, [Next]_vars
  PROVE  LeaseChange
<1> USE DEF leases
<1>1. ASSUME UNCHANGED <<held, accounts>> PROVE LeaseChange
  BY <1>1 DEF LeaseChange, SameHolders
<1>2. ASSUME NEW ts \in SUBSET Tasks, Release(RowsOf(ts)) PROVE LeaseChange
  BY <1>2 DEF LeaseChange, Releases, RowsOf
<1>3. ASSUME NEW t \in Tasks, NEW l, Release(RowOfLease(t, l)) PROVE LeaseChange
  BY <1>3 DEF LeaseChange, Releases, RowOfLease, RowsOf
<1>4. ASSUME NEW i \in Instances, NEW t \in Tasks, state[t] = "QUEUED", Grant(i, t)
      PROVE  LeaseChange
  <2>1. held[t] = {}
    BY <1>4, TaskFacts DEF LeasedStates
  <2> QED
    BY <1>4, <2>1 DEF LeaseChange, Grants
<1>5. ASSUME NEW t \in Tasks, NEW l, Extend(t, l), UNCHANGED accounts PROVE LeaseChange
  <2> DEFINE Renewed(r) == IF r.token = l THEN [r EXCEPT !.ttl = TTL] ELSE r
  <2>0. \A u \in Tasks : held'[u] = IF u = t THEN {Renewed(r) : r \in held[t]} ELSE held[u]
    BY <1>5 DEF Extend, Sound, TypeOK
  <2> HIDE DEF Renewed
  <2>1. \A u \in Tasks : held'[u] = {} <=> held[u] = {}
    BY <2>0
  <2> QED
    BY <1>5, <2>1 DEF LeaseChange, SameHolders
<1>6. ASSUME NEW i \in Instances, NEW t \in Tasks, WorkerStep(i, t) PROVE LeaseChange
  <2>1. CASE Claim(i, t)
    BY <1>4, <2>1 DEF Claim
  <2>2. CASE Heartbeat(i, t) \/ RenewLease(i, t)
    BY <1>5, <2>2 DEF Heartbeat, RenewLease
  <2>3. CASE \/ ReleaseLease(i, t) \/ CommitCompleted(i, t)
             \/ \E class \in FailureClasses : CommitFailed(i, t, class)
    BY <1>3, <2>3 DEF ReleaseLease, CommitCompleted, CommitFailed, EndAttempt
  <2>4. ASSUME NEW to, NEW l, Transition(i, t, to, l) PROVE LeaseChange
    BY <1>1, <1>3, <2>4 DEF Transition
  <2>5. CASE \/ Start(i, t) \/ Checkpoint(i, t) \/ RecordActionDispatched(i, t)
             \/ IdempotencyClaim(i, t) \/ IdempotencyComplete(i, t) \/ CommitRaises(i, t)
    BY <1>1, <2>5 DEF Start, Checkpoint, RecordActionDispatched, IdempotencyClaim,
       IdempotencyComplete, CommitRaises
  <2> QED
    BY <1>6, <2>1, <2>2, <2>3, <2>4, <2>5 DEF WorkerStep
<1>7. ASSUME NEW i \in Instances, NEW t \in Tasks, OperatorStep(i, t) PROVE LeaseChange
  <2>1. Release(RowsOf({t}))
    BY <1>7 DEF OperatorStep, EnterReconciling, ReconcileUnknown, SetTaskKill, Revoke
  <2> QED
    BY <1>2, <2>1
<1>8. ASSUME NEW t \in Tasks, TaskStep(t) PROVE LeaseChange
  BY <1>1, <1>8 DEF TaskStep, CreateTask, CommitApproval, RebuildProjection, DeadlinePasses
<1>9. ASSUME NEW i \in Instances, InstanceStep(i) PROVE LeaseChange
  <2>1. CASE ClaimNext(i)
    BY <1>1, <1>4, <2>1 DEF ClaimNext, Eligible
  <2>2. CASE ExpireLeases(i)
    BY <2>2 DEF ExpireLeases, ExpiredRows, LeaseChange, Releases
  <2>3. ASSUME NEW stale \in SUBSET Tasks, AutoReconcile(i, stale) PROVE LeaseChange
    <3>1. Release(RowsOf({t \in stale : Orphan(t)}))
      BY <2>3 DEF AutoReconcile
    <3> QED
      BY <1>2, <3>1
  <2>4. CASE Crash(i)
    BY <1>1, <2>4 DEF Crash
  <2> QED
    BY <1>9, <2>1, <2>2, <2>3, <2>4 DEF InstanceStep
<1>10. ASSUME Tick PROVE LeaseChange
  <2> DEFINE Older(r) == [r EXCEPT !.ttl = Minus(r.ttl, 1)]
  <2>1. \A u \in Tasks : held'[u] = {Older(r) : r \in held[u]}
    BY <1>10 DEF Tick
  <2> HIDE DEF Older
  <2>2. \A u \in Tasks : held'[u] = {} <=> held[u] = {}
    BY <2>1
  <2> QED
    BY <1>10, <2>2 DEF Tick, LeaseChange, SameHolders
<1>11. ASSUME NEW on, SetGlobalKill(on) PROVE LeaseChange
  BY <1>1, <1>11 DEF SetGlobalKill
<1>12. CASE UNCHANGED vars
  BY <1>1, <1>12 DEF vars
<1> QED
  BY <1>6, <1>7, <1>8, <1>9, <1>10, <1>11, <1>12 DEF Next

\* So no step of the kernel changes what an account counts beyond its leases.
LEMMA NextKeepsSlack ==
  ASSUME Sound, Sound', Covered, [Next]_vars
  PROVE  SlackKept
<1>1. ASSUME NEW i \in Instances, NEW t \in Tasks, Grants(i, t) PROVE SlackKept
  BY <1>1, GrantKeepsSlack DEF Grants
<1>2. ASSUME NEW rows, Releases(rows) PROVE SlackKept
  BY <1>2, ReleaseKeepsSlack DEF Releases
<1>3. CASE SameHolders
  BY <1>3, SameHoldersKeepSlack DEF SameHolders
<1> QED
  BY <1>1, <1>2, <1>3, EveryLeaseChange DEF LeaseChange

\* Accounts and leases are counted in natural numbers.
CountsAreNat == \A o \in Owners : LeasesOf(o) \in Nat /\ accounts[o] \in Nat

LEMMA LeasesCounted == Sound => CountsAreNat
BY CountByTask DEF CountsAreNat, Sound, TypeOK

LEMMA LeasesCountedNext == Sound' => CountsAreNat'
BY LeasesCounted, PTL

-----------------------------------------------------------------------------
(* The accounts of a kernel that is not restarted. *)

\* Initially no account counts anything.
LEMMA InitAccounts == Init => AccountsMatchLeases
<1> SUFFICES ASSUME Init, NEW o \in Owners PROVE accounts[o] = LeasesOf(o)
  BY DEF AccountsMatchLeases
<1>1. HeldTasks(o) = {}
  BY DEF Init, HeldTasks
<1>2. LeasesOf(o) = 0
  BY <1>1, InitFit, CountByTask, FS_EmptySet DEF IInv
<1> QED
  BY <1>2 DEF Init

LEMMA NextAccounts ==
  Sound /\ Sound' /\ AccountsMatchLeases /\ [Next]_vars => AccountsMatchLeases'
<1> SUFFICES ASSUME Sound, Sound', AccountsMatchLeases, [Next]_vars
             PROVE  \A o \in Owners : accounts'[o] = LeasesOf(o)'
  BY DEF AccountsMatchLeases
<1>1. Covered
  BY LeasesCounted DEF CountsAreNat, Covered, AccountsMatchLeases
<1>2. SlackKept
  BY <1>1, NextKeepsSlack
<1> QED
  BY <1>2, LeasesCounted, LeasesCountedNext DEF CountsAreNat, SlackKept, AccountsMatchLeases

\* An owner's account always counts its unreleased leases, whoever grants, commits,
\* sweeps, kills or reconciles.
THEOREM AccountsAlwaysMatch == Spec => []AccountsMatchLeases
<1>1. IInv => Sound
  BY DEF IInv
<1> QED
  BY <1>1, Invariance, InitAccounts, NextAccounts, PTL DEF Spec

\* claim_next() never takes an owner over its cap.
THEOREM OwnerCapAlwaysKept == Spec => OwnerCapKept
<1> DEFINE WithinCap(i, t) ==
      ClaimNext(i) /\ latest'[t] # latest[t] => LeasesOf(Owner[t])' <= MaxActive
<1>1. Sound /\ Sound' /\ AccountsMatchLeases /\ AccountsMatchLeases' /\ [Next]_vars
        => \A i \in Instances, t \in Tasks : WithinCap(i, t)
  <2> SUFFICES ASSUME Sound, Sound', AccountsMatchLeases, AccountsMatchLeases',
                      NEW i \in Instances, NEW t \in Tasks,
                      ClaimNext(i), latest'[t] # latest[t]
               PROVE  LeasesOf(Owner[t])' <= MaxActive
    OBVIOUS
  <2>1. PICK u \in Eligible : Grant(i, u)
    BY DEF ClaimNext
  <2>2. u \in Tasks /\ state[u] = "QUEUED" /\ accounts[Owner[u]] < MaxActive
    BY DEF Eligible
  <2>3. t = u
    BY <2>1, <2>2 DEF Grant, Sound, TypeOK
  <2>4. accounts'[Owner[u]] = accounts[Owner[u]] + 1
    BY <2>1, <2>2, KernelAssumption DEF Grant, Sound, TypeOK, KernelAssumption
  <2>5. Owner[u] \in Owners /\ MaxActive \in Nat
    BY <2>2, KernelAssumption DEF KernelAssumption
  <2>6. accounts[Owner[u]] \in Nat /\ LeasesOf(Owner[u])' = accounts'[Owner[u]]
    BY <2>5 DEF AccountsMatchLeases, Sound, TypeOK
  <2> QED
    BY <2>2, <2>3, <2>4, <2>5, <2>6
<1>2. IInv => Sound
  BY DEF IInv
<1> QED
  BY <1>1, <1>2, Invariance, AccountsAlwaysMatch, PTL DEF Spec, OwnerCapKept
=============================================================================
