-------------------------- MODULE HandsBridgeProofs --------------------------
(***************************************************************************)
(* Proofs about the hands bridge. It uses the kernel only through its      *)
(* operations: every step of the bridge is a step of the kernel or leaves  *)
(* the database as it is, so what is proved of the kernel holds of every   *)
(* execution under it. And, for any calls, tasks and processes, one call   *)
(* at most is engaged with a task, from which follow the bridge's own      *)
(* invariants and that it implements EffectLedger.                         *)
(***************************************************************************)
EXTENDS HandsBridge, TaskKernelStepProofs

\* A call uses the kernel through its operations.
LEMMA CallKernelStep ==
  ASSUME NEW x \in Calls, CallStep(x)
  PROVE  [Next]_vars
<1> DEFINE i == Home[x]
           t == Task[x]
<1>1. i \in Instances /\ t \in Tasks
  BY BridgeAssumption
<1> HIDE DEF i, t
<1>2. WorkerStep(i, t) => Next
  BY <1>1, WorkerStepIsNext
<1>3. CASE Create(x)
  <2>1. CreateTask(t)
    BY <1>3 DEF Create, t
  <2> QED BY <1>1, <2>1 DEF Next, TaskStep
<1>4. CASE \/ CreateDuplicate(x) \/ Apply(x) \/ DriverReturns(x)
  BY <1>4 DEF CreateDuplicate, Apply, DriverReturns
<1>5. CASE Plan(x) \/ Verify(x)
  <2>1. PICK to : Transition(i, t, to, NoLease)
    BY <1>5 DEF Plan, Verify, i, t
  <2>2. to \in Allowed(state[t])
    BY <2>1 DEF Transition
  <2>3. WorkerStep(i, t)
    BY <2>1, <2>2 DEF WorkerStep
  <2> QED BY <1>2, <2>3
<1>6. CASE \/ ClaimTask(x) \/ StartTask(x) \/ WriteCheckpoint(x) \/ Beat(x)
           \/ CompleteEffect(x) \/ CommitVerified(x) \/ RecordUnknown(x) \/ ReleaseInFinally(x)
  <2>1. WorkerStep(i, t)
    BY <1>6 DEF ClaimTask, StartTask, WriteCheckpoint, Beat, CompleteEffect,
       CommitVerified, RecordUnknown, ReleaseInFinally, WorkerStep, i, t
  <2> QED BY <1>2, <2>1
<1>7. CASE ClaimEffect(x)
  <2>1. IdempotencyClaim(i, t) \/ UNCHANGED vars
    BY <1>7 DEF ClaimEffect, i, t
  <2> QED BY <1>2, <2>1 DEF WorkerStep
<1>8. CASE Denied(x) \/ Fail(x)
  <2>1. CommitFailed(i, t, "terminal") \/ UNCHANGED vars
    BY <1>8 DEF Denied, Fail, i, t
  <2>2. "terminal" \in FailureClasses
    BY DEF FailureClasses
  <2> QED BY <1>2, <2>1, <2>2 DEF WorkerStep
<1>9. CASE Raise(x)
  <2>1. CommitRaises(i, t) \/ UNCHANGED vars
    BY <1>9 DEF Raise, i, t
  <2> QED BY <1>2, <2>1 DEF WorkerStep
<1> QED BY <1>3, <1>4, <1>5, <1>6, <1>7, <1>8, <1>9 DEF CallStep

\* Every step of the bridge is one of the kernel or leaves the database as it is.
LEMMA BridgeKernelStep ==
  ASSUME TypeOK, [BridgeNext]_bvars
  PROVE  [Next]_vars
<1>1. CASE UNCHANGED bvars
  BY <1>1 DEF bvars, vars
<1>2. ASSUME NEW i \in Instances, NEW t \in Tasks,
             \/ EnterReconcile(i, t)
             \/ \E outcome \in Outcomes : Reconcile(i, t, outcome)
      PROVE  [Next]_vars
  <2>1. OperatorStep(i, t)
    BY <1>2 DEF EnterReconcile, Reconcile, OperatorStep
  <2> QED BY <2>1, OperatorStepIsNext
<1>3. CASE TimeOrKill
  BY <1>3 DEF TimeOrKill, Next
<1>4. ASSUME NEW i \in Instances, ProcessDies(i) PROVE [Next]_vars
  <2>1. /\ Unbind(i, Tasks)
        /\ UNCHANGED <<control, state, leases, attempts, journal, effects, late, accounts>>
    BY <1>4 DEF ProcessDies
  <2> QED BY <2>1, DeathIsCrash
<1> QED BY <1>1, <1>2, <1>3, <1>4, CallKernelStep DEF BridgeNext

\* Every behaviour of the bridge is one of the kernel: execute() changes the database
\* through the kernel's operations only, and the death of a process is a crash of its
\* instance (or, when it held no lease, changes nothing: which takes the types).
THEOREM BridgeUsesKernel == BridgeSpec => Spec
<1>1. BridgeInit => Init
  BY DEF BridgeInit
<1>2. Sound /\ [BridgeNext]_bvars => [Next]_vars
  BY BridgeKernelStep DEF Sound
<1>3. Init => Sound
  BY InitFit DEF IInv
<1> QED BY <1>1, <1>2, <1>3, NextSound, PTL DEF BridgeSpec, Spec

\* So under the bridge too a task has one live attempt and one instance that may write,
\* for any calls, tasks and processes, with drivers, heartbeats and reconciliation.
THEOREM BridgeKeepsAuthority == BridgeSpec => [](OneLiveAttempt /\ ExclusiveAuthority)
BY BridgeUsesKernel, OneLiveAttemptAlways, AuthorityIsExclusive, PTL

\* And its leases are the attempts of ExecutionAuthority.
THEOREM BridgeImplementsAuthority == BridgeSpec => ImplementsAuthority
BY BridgeUsesKernel, KernelImplementsAuthority

-----------------------------------------------------------------------------
(* The inductive invariant of the bridge. *)

\* The steps a call takes with the task's row: those of a planner, of a worker, and of
\* the handler that will report a worker's failure.
WorkSteps == {"start", "idem", "checkpoint", "driver", "driven", "blocked", "verify",
              "complete", "commit", "unknown"}
Engaged(x) ==
  step[x] \in Planning \cup WorkSteps \/ (step[x] = "failed" /\ lease[x] # NoLease)

\* What is durable when a call stands before a statement.
StageFits(x) ==
  LET t == Task[x] IN
  /\ step[x] = "PLANNING" => state[t] = "CREATED"
  /\ step[x] = "READY" => state[t] = "PLANNING"
  /\ step[x] = "QUEUED" => state[t] = "READY"
  /\ step[x] = "start" => state[t] = "LEASED"
  /\ step[x] = "idem" => state[t] = "RUNNING" /\ idem[t] \in {"NONE", "RETRYABLE"}
  /\ step[x] \in {"checkpoint", "driver", "blocked"} =>
       state[t] = "RUNNING" /\ idem[t] = "CLAIMED" /\ applied[t] = 0
  /\ step[x] \in {"driven", "verify"} =>
       state[t] = "RUNNING" /\ idem[t] = "CLAIMED" /\ applied[t] = 1
  /\ step[x] \in InDriver => snapshots[t] # {}
  /\ step[x] = "complete" => state[t] = "VERIFYING" /\ idem[t] = "CLAIMED" /\ applied[t] = 1
  /\ step[x] = "commit" => state[t] = "VERIFYING" /\ idem[t] = "COMPLETED" /\ applied[t] = 1
  /\ step[x] = "unknown" => state[t] = "VERIFYING" \/ (state[t] = "RUNNING" /\ idem[t] = "CLAIMED")
  /\ step[x] = "failed" /\ lease[x] # NoLease =>
       state[t] \in {"LEASED", "RUNNING"} /\ applied[t] = 0

CallFits(x) ==
  /\ StageFits(x)
  /\ step[x] \in Planning \cup {"begin", "claim"} => lease[x] = NoLease
  /\ reply[x] = "success" => state[Task[x]] = "COMPLETED"

\* What a task's state says of its effect, whoever is at it or has died at it.
Unbegun == {NoTask, "CREATED", "PLANNING", "READY", "QUEUED", "LEASED"}
TaskFits(t) ==
  /\ state[t] \in Unbegun \cup {"RUNNING", "VERIFYING", "UNKNOWN", "RECONCILING",
                                "HUMAN_REVIEW", "COMPLETED", "FAILED"}
  /\ applied[t] <= 1
  /\ idem[t] \in {"NONE", "RETRYABLE"} => applied[t] = 0
  /\ state[t] \in Unbegun => idem[t] \in {"NONE", "RETRYABLE"}
  /\ state[t] = "VERIFYING" => idem[t] \in {"CLAIMED", "COMPLETED"}
  /\ state[t] \in {"UNKNOWN", "RECONCILING"} => idem[t] = "CLAIMED"
  /\ state[t] = "COMPLETED" => idem[t] = "COMPLETED" /\ applied[t] = 1
  /\ state[t] = "FAILED" => applied[t] = 0

\* One call at most is engaged with a task.
OneEngaged ==
  \A x, y \in Calls : Task[x] = Task[y] /\ Engaged(x) /\ Engaged(y) => x = y

BridgeTypes ==
  /\ step \in [Calls -> Steps]
  /\ lease \in [Calls -> Tokens \cup {NoLease}]
  /\ reply \in [Calls -> Replies]
  /\ applied \in [Tasks -> Nat]

BridgeFit ==
  /\ BridgeTypes
  /\ OneEngaged
  /\ \A x \in Calls : CallFits(x)
  /\ \A t \in Tasks : TaskFits(t)

HInv == Sound /\ BridgeFit

-----------------------------------------------------------------------------
(* Facts about calls and tasks a step does not concern. *)

\* The step leaves the task's state and effect as they are.
Same(t) ==
  /\ state'[t] = state[t] /\ idem'[t] = idem[t]
  /\ snapshots'[t] = snapshots[t] /\ applied'[t] = applied[t]

\* No call is engaged with the task or has reported its success.
NobodyAt(t) == \A z \in Calls : Task[z] = t => ~Engaged(z) /\ reply[z] # "success"

\* A call is engaged with a task in these states only.
LEMMA EngagedStates ==
  ASSUME BridgeFit, NEW z \in Calls, Engaged(z)
  PROVE  state[Task[z]] \in {"CREATED", "PLANNING", "READY", "LEASED", "RUNNING", "VERIFYING"}
BY DEF BridgeFit, CallFits, StageFits, Engaged, Planning, WorkSteps

LEMMA NobodyInOtherStates ==
  ASSUME BridgeFit, NEW t,
         state[t] \notin {"CREATED", "PLANNING", "READY", "LEASED", "RUNNING", "VERIFYING",
                         "COMPLETED"}
  PROVE  NobodyAt(t)
BY EngagedStates DEF NobodyAt, BridgeFit, CallFits

\* Nobody else is engaged with, or has completed, the task a call is engaged with.
LEMMA AloneAt ==
  ASSUME BridgeFit, NEW x \in Calls, Engaged(x), NEW y \in Calls \ {x}, Task[y] = Task[x]
  PROVE  ~Engaged(y) /\ reply[y] # "success"
<1>1. ~Engaged(y)
  BY DEF BridgeFit, OneEngaged
<1>2. reply[y] # "success"
  BY EngagedStates DEF BridgeFit, CallFits
<1> QED
  BY <1>1, <1>2

LEMMA CallKept ==
  ASSUME BridgeFit, NEW y \in Calls,
         step'[y] = step[y], lease'[y] = lease[y], reply'[y] = reply[y],
         Same(Task[y]) \/ (~Engaged(y) /\ reply[y] # "success")
  PROVE  CallFits(y)' /\ (Engaged(y)' <=> Engaged(y))
<1>1. CallFits(y)
  BY DEF BridgeFit
<1>2. Engaged(y)' <=> Engaged(y)
  BY DEF Engaged
<1>3. CASE Same(Task[y])
  BY <1>1, <1>2, <1>3 DEF CallFits, StageFits, Same
<1>4. CASE ~Engaged(y) /\ reply[y] # "success"
  BY <1>1, <1>2, <1>4 DEF CallFits, StageFits, Engaged, Planning, WorkSteps, InDriver
<1> QED
  BY <1>2, <1>3, <1>4

LEMMA TaskKept ==
  ASSUME BridgeFit, NEW u \in Tasks, Same(u)
  PROVE  TaskFits(u)'
BY DEF BridgeFit, TaskFits, Same

\* What is left to show of a step of call x, which concerns its task only: that the
\* call and the task fit after it, and that it does not disturb another call.
LEMMA CallStepFits ==
  ASSUME BridgeFit, NEW x \in Calls, NEW t \in Tasks, t = Task[x],
         NEW s \in Steps, Goes(x, s),
         lease' \in [Calls -> Tokens \cup {NoLease}],
         reply' \in [Calls -> Replies],
         applied' \in [Tasks -> Nat],
         \A y \in Calls \ {x} : lease'[y] = lease[y] /\ reply'[y] = reply[y],
         \A u \in Tasks \ {t} : Same(u),
         CallFits(x)', TaskFits(t)',
         Engaged(x)' => Engaged(x) \/ NobodyAt(t),
         Engaged(x) \/ NobodyAt(t) \/ Same(t)
  PROVE  BridgeFit'
<1>1. step' \in [Calls -> Steps] /\ step'[x] = s /\ \A y \in Calls \ {x} : step'[y] = step[y]
  BY DEF BridgeFit, BridgeTypes, Goes
<1>2. BridgeTypes'
  BY <1>1 DEF BridgeTypes
<1>3. ASSUME NEW y \in Calls \ {x} PROVE CallFits(y)' /\ (Engaged(y)' <=> Engaged(y))
  <2>1. Task[y] \in Tasks
    BY BridgeAssumption
  <2>2. Same(Task[y]) \/ (~Engaged(y) /\ reply[y] # "success")
    BY <2>1, AloneAt DEF NobodyAt
  <2> QED
    BY <1>1, <2>2, CallKept
<1>4. \A y, z \in Calls : Task[y] = Task[z] /\ Engaged(y)' /\ Engaged(z)' => y = z
  <2>1. \A y \in Calls \ {x} : Task[y] = Task[x] => ~(Engaged(x)' /\ Engaged(y)')
    BY <1>3, AloneAt DEF NobodyAt
  <2>2. \A y, z \in Calls : Task[y] = Task[z] /\ Engaged(y) /\ Engaged(z) => y = z
    BY DEF BridgeFit, OneEngaged
  <2> QED
    BY <1>3, <2>1, <2>2
<1>5. \A u \in Tasks : TaskFits(u)'
  BY TaskKept
<1> QED
  BY <1>2, <1>3, <1>4, <1>5 DEF BridgeFit, OneEngaged

\* A step that keeps the calls, and moves a task nobody is at.
LEMMA OperatorStepFits ==
  ASSUME BridgeFit, UNCHANGED bridge, NEW t \in Tasks, NobodyAt(t), TaskFits(t)',
         \A u \in Tasks \ {t} : Same(u)
  PROVE  BridgeFit'
<1> USE DEF bridge
<1>1. ASSUME NEW y \in Calls PROVE CallFits(y)' /\ (Engaged(y)' <=> Engaged(y))
  <2>1. Same(Task[y]) \/ (~Engaged(y) /\ reply[y] # "success")
    BY BridgeAssumption DEF NobodyAt
  <2> QED
    BY <2>1, CallKept
<1>2. \A u \in Tasks : TaskFits(u)'
  BY TaskKept
<1> QED
  BY <1>1, <1>2 DEF BridgeFit, BridgeTypes, OneEngaged

-----------------------------------------------------------------------------
(* The steps of a call. *)

\* What a call at a statement may rely on.
LEMMA CallFacts ==
  ASSUME BridgeFit, NEW x \in Calls
  PROVE  /\ CallFits(x) /\ TaskFits(Task[x])
         /\ Task[x] \in Tasks /\ Home[x] \in Instances
         /\ step[x] \in Steps /\ lease[x] \in Tokens \cup {NoLease}
BY BridgeAssumption DEF BridgeFit, BridgeTypes

LEMMA CreateFits ==
  ASSUME TypeOK, BridgeFit, NEW x \in Calls, Create(x) \/ CreateDuplicate(x) \/ ClaimTask(x)
  PROVE  BridgeFit'
<1> PICK t \in Tasks : t = Task[x]
  BY CallFacts
<1> USE DEF effects, vars
<1>a. CallFits(x) /\ TaskFits(t)
  BY CallFacts
<1>b. BridgeTypes
  BY DEF BridgeFit
<1>1. CASE Create(x)
  <2>1. /\ state[t] = NoTask /\ Move(t, "CREATED") /\ UNCHANGED <<idem, snapshots, applied, lease, reply>>
        /\ Goes(x, "PLANNING") /\ step[x] = "begin"
    BY <1>1 DEF Create, CreateTask, At
  <2>2. NobodyAt(t)
    BY <2>1, NobodyInOtherStates DEF NoTask
  <2>3. state'[t] = "CREATED" /\ \A u \in Tasks \ {t} : Same(u)
    BY <2>1, MoveIsLocal DEF Same
  <2>4. step'[x] = "PLANNING" /\ "PLANNING" \in Steps
    BY <2>1, <1>b DEF Goes, BridgeTypes, Steps, Synchronous, BeforeDispatch, Planning
  <2>5. CallFits(x)'
    BY <1>a, <2>1, <2>2, <2>3, <2>4 DEF CallFits, StageFits, InDriver, NobodyAt
  <2>6. TaskFits(t)'
    BY <1>a, <2>1, <2>3 DEF TaskFits, Unbegun
  <2> QED
    BY <1>b, <2>1, <2>2, <2>3, <2>4, <2>5, <2>6, CallStepFits DEF BridgeTypes
<1>2. CASE CreateDuplicate(x)
  <2>1. PICK s \in {"claim", "done"} : Goes(x, s) /\ (s = "claim" => UNCHANGED reply)
                                      /\ (s = "done" => Answers(x, "replayed"))
    BY <1>2 DEF CreateDuplicate
  <2>2. UNCHANGED <<state, idem, snapshots, applied, lease>> /\ step[x] = "begin"
    BY <1>2 DEF CreateDuplicate, At
  <2>3. \A u \in Tasks : Same(u)
    BY <2>2 DEF Same
  <2>4. step'[x] = s /\ s \in Steps
    BY <2>1, <1>b DEF Goes, BridgeTypes, Steps, Synchronous, BeforeDispatch
  <2>5. /\ reply' \in [Calls -> Replies] /\ \A y \in Calls \ {x} : reply'[y] = reply[y]
        /\ reply'[x] \in {reply[x], "replayed"}
    BY <2>1, <1>b DEF Answers, BridgeTypes, Replies
  <2>6. CallFits(x)' /\ ~Engaged(x)'
    BY <1>a, <2>2, <2>4, <2>5 DEF CallFits, StageFits, InDriver, Planning, Engaged, WorkSteps
  <2>7. TaskFits(t)'
    BY <1>a, <2>2 DEF TaskFits
  <2> QED
    BY <1>b, <2>1, <2>2, <2>3, <2>4, <2>5, <2>6, <2>7, CallStepFits DEF BridgeTypes
<1>3. CASE ClaimTask(x)
  <2>1. /\ state[t] = "QUEUED" /\ Move(t, "LEASED") /\ UNCHANGED <<idem, snapshots, applied, reply>>
        /\ Grant(Home[x], t) /\ lease' = [lease EXCEPT ![x] = latest'[t]]
        /\ Goes(x, "start")
    BY <1>3 DEF ClaimTask, Claim, At
  <2>2. NobodyAt(t)
    BY <2>1, NobodyInOtherStates
  <2>3. state'[t] = "LEASED" /\ \A u \in Tasks \ {t} : Same(u)
    BY <2>1, MoveIsLocal DEF Same
  <2>4. step'[x] = "start" /\ "start" \in Steps
    BY <2>1, <1>b DEF Goes, BridgeTypes, Steps, Synchronous, BeforeDispatch
  <2>5. lease' \in [Calls -> Tokens \cup {NoLease}] /\ \A y \in Calls \ {x} : lease'[y] = lease[y]
    <3>1. latest'[t] \in Tokens
      BY <2>1, CallFacts, GrantType
    <3> QED
      BY <2>1, <3>1, <1>b DEF BridgeTypes
  <2>6. CallFits(x)'
    BY <1>a, <2>1, <2>2, <2>3, <2>4 DEF CallFits, StageFits, InDriver, Planning, NobodyAt
  <2>7. TaskFits(t)'
    BY <1>a, <2>1, <2>3 DEF TaskFits, Unbegun
  <2> QED
    BY <1>b, <2>1, <2>2, <2>3, <2>4, <2>5, <2>6, <2>7, CallStepFits DEF BridgeTypes
<1> QED
  BY <1>1, <1>2, <1>3

\* A step of an engaged call that goes on without an answer: what the call needs to
\* know is what it finds at its next statement.
LEMMA EngagedStepFits ==
  ASSUME BridgeFit, NEW x \in Calls, NEW t \in Tasks, t = Task[x], Engaged(x),
         NEW s \in Steps, Goes(x, s), UNCHANGED lease,
         reply' = reply \/ \E r \in Replies : Answers(x, r),
         reply'[x] = "success" => reply[x] = "success" \/ state'[t] = "COMPLETED",
         applied' \in [Tasks -> Nat],
         \A u \in Tasks \ {t} : Same(u),
         s \in Planning => lease[x] = NoLease,
         s \notin {"begin", "claim"} \/ lease[x] = NoLease,
         step'[x] = s => StageFits(x)', TaskFits(t)'
  PROVE  BridgeFit'
<1>1. step'[x] = s
  BY DEF BridgeFit, BridgeTypes, Goes
<1>2. reply' \in [Calls -> Replies] /\ \A y \in Calls \ {x} : reply'[y] = reply[y]
  BY DEF BridgeFit, BridgeTypes, Answers
<1>3. reply[x] # "success"
  BY EngagedStates DEF BridgeFit, CallFits
<1>4. CallFits(x)'
  BY <1>1, <1>3 DEF CallFits
<1> QED
  BY <1>1, <1>2, <1>4, CallStepFits DEF BridgeFit, BridgeTypes

LEMMA PlanFits ==
  ASSUME TypeOK, BridgeFit, NEW x \in Calls, Plan(x)
  PROVE  BridgeFit'
<1> PICK t \in Tasks : t = Task[x]
  BY CallFacts
<1> USE DEF effects
<1>a. CallFits(x) /\ TaskFits(t) /\ BridgeTypes
  BY CallFacts DEF BridgeFit
<1>1. /\ step[x] \in Planning /\ Engaged(x) /\ lease[x] = NoLease
      /\ UNCHANGED <<idem, snapshots, applied, lease, reply>>
      /\ Move(t, step[x])
  BY <1>a DEF Plan, Transition, Engaged, CallFits
<1>2. PICK s \in {"READY", "QUEUED", "claim"} :
        /\ Goes(x, s)
        /\ step[x] = "PLANNING" => s = "READY"
        /\ step[x] = "READY" => s = "QUEUED"
        /\ step[x] = "QUEUED" => s = "claim"
  BY <1>1 DEF Plan, Planning
<1>3. state'[t] = step[x] /\ \A u \in Tasks \ {t} : Same(u)
  BY <1>1, MoveIsLocal DEF Same
<1>4. s \in Steps
  BY DEF Steps, Synchronous, BeforeDispatch, Planning
<1>5. step'[x] = s => StageFits(x)'
  BY <1>1, <1>2, <1>3 DEF StageFits, Planning, InDriver
<1>6. TaskFits(t)'
  <2>1. state[t] \in Unbegun
    BY <1>a, <1>1 DEF CallFits, StageFits, Planning, Unbegun
  <2> QED
    BY <1>a, <1>1, <1>3, <2>1 DEF TaskFits, Unbegun, Planning
<1> QED
  BY <1>a, <1>1, <1>2, <1>3, <1>4, <1>5, <1>6, EngagedStepFits DEF BridgeTypes

\* Before the driver: start, claim of the effect, checkpoint.
LEMMA PrepareFits ==
  ASSUME TypeOK, BridgeFit, NEW x \in Calls,
         StartTask(x) \/ ClaimEffect(x) \/ WriteCheckpoint(x)
  PROVE  BridgeFit'
<1> PICK t \in Tasks : t = Task[x]
  BY CallFacts
<1> USE DEF effects, leases, vars, TypeOK
<1>a. CallFits(x) /\ TaskFits(t) /\ BridgeTypes
  BY CallFacts DEF BridgeFit
<1>1. CASE StartTask(x)
  <2>1. /\ step[x] = "start" /\ state[t] = "LEASED" /\ Move(t, "RUNNING") /\ Goes(x, "idem")
        /\ UNCHANGED <<idem, snapshots, applied, lease, reply>>
    BY <1>1 DEF StartTask, Start, At
  <2>2. state'[t] = "RUNNING" /\ \A u \in Tasks \ {t} : Same(u)
    BY <2>1, MoveIsLocal DEF Same
  <2>3. idem[t] \in {"NONE", "RETRYABLE"}
    BY <1>a, <2>1 DEF TaskFits, Unbegun
  <2>4. step'[x] = "idem" => StageFits(x)'
    BY <2>1, <2>2, <2>3 DEF StageFits, InDriver
  <2>5. TaskFits(t)'
    BY <1>a, <2>1, <2>2 DEF TaskFits, Unbegun
  <2>6. "idem" \in Steps /\ Engaged(x)
    BY <2>1 DEF Steps, Synchronous, BeforeDispatch, Engaged, WorkSteps
  <2> QED
    BY <1>a, <2>1, <2>2, <2>4, <2>5, <2>6, EngagedStepFits DEF BridgeTypes, Planning
<1>2. CASE ClaimEffect(x)
  <2>1. /\ step[x] = "idem" /\ IdempotencyClaim(Home[x], t) /\ Goes(x, "checkpoint")
        /\ UNCHANGED <<state, snapshots, applied, lease, reply>>
        /\ state[t] = "RUNNING" /\ idem[t] \in {"NONE", "RETRYABLE"}
    BY <1>a, <1>2 DEF ClaimEffect, IdempotencyClaim, At, CallFits, StageFits
  <2>2. idem'[t] = "CLAIMED" /\ \A u \in Tasks \ {t} : Same(u)
    BY <2>1 DEF IdempotencyClaim, Same
  <2>3. applied[t] = 0
    BY <1>a, <2>1 DEF TaskFits
  <2>4. step'[x] = "checkpoint" => StageFits(x)'
    BY <2>1, <2>2, <2>3 DEF StageFits, InDriver
  <2>5. TaskFits(t)'
    BY <1>a, <2>1, <2>2 DEF TaskFits, Unbegun, NoTask
  <2>6. "checkpoint" \in Steps /\ Engaged(x)
    BY <2>1 DEF Steps, Synchronous, BeforeDispatch, Engaged, WorkSteps
  <2> QED
    BY <1>a, <2>1, <2>2, <2>4, <2>5, <2>6, EngagedStepFits DEF BridgeTypes, Planning
<1>3. CASE WriteCheckpoint(x)
  <2>1. /\ step[x] = "checkpoint" /\ Goes(x, "driver")
        /\ snapshots' = [snapshots EXCEPT ![t] = snapshots[t] \cup {"WORKING"}]
        /\ UNCHANGED <<state, idem, applied, lease, reply>>
    BY <1>3 DEF WriteCheckpoint, Checkpoint, At
  <2>2. snapshots'[t] # {} /\ \A u \in Tasks \ {t} : Same(u)
    BY <2>1 DEF Same
  <2>3. step'[x] = "driver" => StageFits(x)'
    BY <1>a, <2>1, <2>2 DEF CallFits, StageFits, InDriver
  <2>4. TaskFits(t)'
    BY <1>a, <2>1 DEF TaskFits
  <2>5. "driver" \in Steps /\ Engaged(x)
    BY <2>1 DEF Steps, InDriver, Engaged, WorkSteps
  <2> QED
    BY <1>a, <2>1, <2>2, <2>3, <2>4, <2>5, EngagedStepFits DEF BridgeTypes, Planning
<1> QED
  BY <1>1, <1>2, <1>3

\* A step that moves no task and no call.
LEMMA NothingMovesFits ==
  ASSUME BridgeFit, UNCHANGED bridge, UNCHANGED <<state, idem, snapshots>>
  PROVE  BridgeFit'
<1> USE DEF bridge
<1>1. \A u \in Tasks : Same(u)
  BY DEF Same
<1>2. \A u \in Tasks : TaskFits(u)'
  BY <1>1, TaskKept
<1>3. \A y \in Calls : CallFits(y)' /\ (Engaged(y)' <=> Engaged(y))
  BY <1>1, CallKept, CallFacts
<1> QED
  BY <1>2, <1>3 DEF BridgeFit, BridgeTypes, OneEngaged

\* The driver and the heartbeat.
LEMMA DriverFits ==
  ASSUME TypeOK, BridgeFit, NEW x \in Calls, Apply(x) \/ DriverReturns(x) \/ Beat(x)
  PROVE  BridgeFit'
<1> PICK t \in Tasks : t = Task[x]
  BY CallFacts
<1> USE DEF effects, vars
<1>a. CallFits(x) /\ TaskFits(t) /\ BridgeTypes
  BY CallFacts DEF BridgeFit
<1>1. CASE Apply(x)
  <2>1. /\ step[x] = "driver" /\ Goes(x, "driven")
        /\ applied' = [applied EXCEPT ![t] = applied[t] + 1]
        /\ UNCHANGED <<state, idem, snapshots, lease, reply>>
    BY <1>1 DEF Apply
  <2>2. state[t] = "RUNNING" /\ idem[t] = "CLAIMED" /\ applied[t] = 0 /\ snapshots[t] # {}
    BY <1>a, <2>1 DEF CallFits, StageFits, InDriver
  <2>3. /\ applied' \in [Tasks -> Nat] /\ applied'[t] = 1
        /\ \A u \in Tasks \ {t} : Same(u)
    BY <1>a, <2>1, <2>2 DEF BridgeTypes, Same
  <2>4. step'[x] = "driven" => StageFits(x)'
    BY <2>1, <2>2, <2>3 DEF StageFits, InDriver
  <2>5. TaskFits(t)'
    BY <1>a, <2>1, <2>2, <2>3 DEF TaskFits, Unbegun, NoTask
  <2>6. "driven" \in Steps /\ Engaged(x)
    BY <2>1 DEF Steps, InDriver, Engaged, WorkSteps
  <2> QED
    BY <2>1, <2>3, <2>4, <2>5, <2>6, EngagedStepFits DEF Planning
<1>2. CASE DriverReturns(x)
  <2>1. /\ step[x] \in InDriver
        /\ UNCHANGED <<state, idem, snapshots, applied, lease, reply>>
    BY <1>2 DEF DriverReturns
  <2>2. PICK s \in {"unknown", "blocked", "verify"} :
          Goes(x, s) /\ (s = "blocked" => step[x] = "driver") /\ (s = "verify" => step[x] = "driven")
    BY <1>2 DEF DriverReturns
  <2>3. state[t] = "RUNNING" /\ idem[t] = "CLAIMED"
    BY <1>a, <2>1 DEF CallFits, StageFits, InDriver
  <2>4. step'[x] = s => StageFits(x)'
    BY <1>a, <2>1, <2>2, <2>3 DEF CallFits, StageFits, InDriver
  <2>5. TaskFits(t)' /\ \A u \in Tasks : Same(u)
    BY <1>a, <2>1 DEF TaskFits, Same
  <2>6. s \in Steps /\ Engaged(x)
    BY <2>1 DEF Steps, Synchronous, AfterDispatch, InDriver, Engaged, WorkSteps
  <2> QED
    BY <1>a, <2>1, <2>2, <2>4, <2>5, <2>6, EngagedStepFits DEF BridgeTypes, Planning
<1>3. CASE Beat(x)
  BY <1>3, NothingMovesFits DEF Beat, Heartbeat
<1> QED
  BY <1>1, <1>2, <1>3

\* The end of an attempt, in the terms of the invariant.
LEMMA EndIsLocal ==
  ASSUME TypeOK, NEW i, NEW t \in Tasks, NEW s, EndAttempt(i, t, s), UNCHANGED applied
  PROVE  /\ state'[t] = s /\ \A u \in Tasks \ {t} : Same(u)
         /\ UNCHANGED <<idem, snapshots>>
BY MoveIsLocal DEF EndAttempt, effects, Same

LEMMA FailureIsFailed ==
  ASSUME NEW t
  PROVE  AfterFailure(t, "terminal") = "FAILED"
BY DEF AfterFailure

\* After the driver: the refusal, the verified result in its three transactions, and
\* the result that is not known.
LEMMA ResultFits ==
  ASSUME TypeOK, BridgeFit, NEW x \in Calls,
         Denied(x) \/ Verify(x) \/ CompleteEffect(x) \/ CommitVerified(x) \/ RecordUnknown(x)
  PROVE  BridgeFit'
<1> PICK t \in Tasks : t = Task[x]
  BY CallFacts
<1> USE DEF effects, leases
<1>a. CallFits(x) /\ TaskFits(t) /\ BridgeTypes
  BY CallFacts DEF BridgeFit
<1>b. \A s \in {"done", "release", "complete", "commit"} : s \in Steps /\ s \notin Planning
  BY DEF Steps, Synchronous, AfterDispatch, Leaving, Planning
<1>c. \A s \in {"blocked", "verify", "complete", "commit", "unknown"} : step[x] = s => Engaged(x)
  BY DEF Engaged, WorkSteps
<1>1. CASE Denied(x)
  <2>1. /\ step[x] = "blocked" /\ EndAttempt(Home[x], t, "FAILED") /\ Goes(x, "done")
        /\ Answers(x, "denied") /\ UNCHANGED <<lease, applied>>
    BY <1>1, FailureIsFailed DEF Denied, CommitFailed, At
  <2>2. /\ state'[t] = "FAILED" /\ UNCHANGED <<idem, snapshots>>
        /\ \A u \in Tasks \ {t} : Same(u)
    BY <2>1, EndIsLocal
  <2>3. applied[t] = 0
    BY <1>a, <2>1 DEF CallFits, StageFits
  <2>4. TaskFits(t)'
    BY <1>a, <2>1, <2>2, <2>3 DEF TaskFits, Unbegun, NoTask
  <2>5. step'[x] = "done" => StageFits(x)'
    BY DEF StageFits, InDriver
  <2>6. "denied" \in Replies /\ reply'[x] = "denied"
    BY <1>a, <2>1 DEF Replies, Answers, BridgeTypes
  <2> QED
    BY <1>a, <1>b, <1>c, <2>1, <2>2, <2>4, <2>5, <2>6, EngagedStepFits DEF BridgeTypes
<1>2. CASE Verify(x)
  <2>1. /\ step[x] = "verify" /\ Move(t, "VERIFYING") /\ Goes(x, "complete")
        /\ UNCHANGED <<idem, snapshots, applied, lease, reply>>
    BY <1>2 DEF Verify, Transition, At
  <2>2. state'[t] = "VERIFYING" /\ \A u \in Tasks \ {t} : Same(u)
    BY <2>1, MoveIsLocal DEF Same
  <2>3. idem[t] = "CLAIMED" /\ applied[t] = 1
    BY <1>a, <2>1 DEF CallFits, StageFits
  <2>4. TaskFits(t)'
    BY <1>a, <2>1, <2>2, <2>3 DEF TaskFits, Unbegun, NoTask
  <2>5. step'[x] = "complete" => StageFits(x)'
    BY <2>1, <2>2, <2>3 DEF StageFits, InDriver
  <2> QED
    BY <1>a, <1>b, <1>c, <2>1, <2>2, <2>4, <2>5, EngagedStepFits DEF BridgeTypes
<1>3. CASE CompleteEffect(x)
  <2>1. /\ step[x] = "complete" /\ idem' = [idem EXCEPT ![t] = "COMPLETED"] /\ Goes(x, "commit")
        /\ UNCHANGED <<state, snapshots, applied, lease, reply>>
    BY <1>3 DEF CompleteEffect, IdempotencyComplete, At
  <2>2. idem'[t] = "COMPLETED" /\ \A u \in Tasks \ {t} : Same(u)
    BY <2>1 DEF Same, TypeOK
  <2>3. state[t] = "VERIFYING" /\ applied[t] = 1
    BY <1>a, <2>1 DEF CallFits, StageFits
  <2>4. TaskFits(t)'
    BY <1>a, <2>1, <2>2, <2>3 DEF TaskFits, Unbegun, NoTask
  <2>5. step'[x] = "commit" => StageFits(x)'
    BY <2>1, <2>2, <2>3 DEF StageFits, InDriver
  <2> QED
    BY <1>a, <1>b, <1>c, <2>1, <2>2, <2>4, <2>5, EngagedStepFits DEF BridgeTypes
<1>4. CASE CommitVerified(x)
  <2>1. /\ step[x] = "commit" /\ EndAttempt(Home[x], t, "COMPLETED") /\ Goes(x, "done")
        /\ Answers(x, "success") /\ UNCHANGED <<lease, applied>>
    BY <1>4 DEF CommitVerified, CommitCompleted, At
  <2>2. /\ state'[t] = "COMPLETED" /\ UNCHANGED <<idem, snapshots>>
        /\ \A u \in Tasks \ {t} : Same(u)
    BY <2>1, EndIsLocal
  <2>3. idem[t] = "COMPLETED" /\ applied[t] = 1
    BY <1>a, <2>1 DEF CallFits, StageFits
  <2>4. TaskFits(t)'
    BY <1>a, <2>1, <2>2, <2>3 DEF TaskFits, Unbegun, NoTask
  <2>5. step'[x] = "done" => StageFits(x)'
    BY DEF StageFits, InDriver
  <2>6. "success" \in Replies
    BY DEF Replies
  <2> QED
    BY <1>a, <1>b, <1>c, <2>1, <2>2, <2>4, <2>5, <2>6, EngagedStepFits DEF BridgeTypes
<1>5. CASE RecordUnknown(x)
  <2>1. /\ step[x] = "unknown" /\ state[t] \in {"RUNNING", "WAITING_TOOL"} /\ Move(t, "UNKNOWN")
        /\ snapshots' = [snapshots EXCEPT ![t] = snapshots[t] \cup {"UNKNOWN"}]
        /\ Goes(x, "release") /\ Answers(x, "unknown") /\ UNCHANGED <<idem, lease, applied>>
    BY <1>5 DEF RecordUnknown, RecordActionDispatched, At
  <2>2. state'[t] = "UNKNOWN" /\ \A u \in Tasks \ {t} : Same(u)
    BY <2>1, MoveIsLocal DEF Same, TypeOK
  <2>3. idem[t] = "CLAIMED"
    BY <1>a, <2>1 DEF CallFits, StageFits
  <2>4. TaskFits(t)'
    BY <1>a, <2>1, <2>2, <2>3 DEF TaskFits, Unbegun, NoTask
  <2>5. step'[x] = "release" => StageFits(x)'
    BY DEF StageFits, InDriver
  <2>6. "unknown" \in Replies /\ reply'[x] = "unknown"
    BY <1>a, <2>1 DEF Replies, Answers, BridgeTypes
  <2> QED
    BY <1>a, <1>b, <1>c, <2>1, <2>2, <2>4, <2>5, <2>6, EngagedStepFits DEF BridgeTypes
<1> QED
  BY <1>1, <1>2, <1>3, <1>4, <1>5

\* A step that leaves the task alone and the call disengaged.
LEMMA LeavingFits ==
  ASSUME BridgeFit, NEW x \in Calls, NEW s \in {"failed", "release", "done"}, Goes(x, s),
         s = "failed" => lease[x] = NoLease,
         UNCHANGED <<state, idem, snapshots, applied, lease>>,
         reply' = reply \/ \E r \in Replies \ {"success"} : Answers(x, r)
  PROVE  BridgeFit'
<1> PICK t \in Tasks : t = Task[x]
  BY CallFacts
<1>a. CallFits(x) /\ TaskFits(t) /\ BridgeTypes
  BY CallFacts DEF BridgeFit
<1>1. step'[x] = s /\ s \in Steps
  BY <1>a DEF Goes, BridgeTypes, Steps, Synchronous, Leaving
<1>2. /\ reply' \in [Calls -> Replies] /\ \A y \in Calls \ {x} : reply'[y] = reply[y]
      /\ reply'[x] = "success" => reply[x] = "success"
  BY <1>a DEF Answers, BridgeTypes
<1>3. CallFits(x)' /\ ~Engaged(x)'
  BY <1>a, <1>1, <1>2 DEF CallFits, StageFits, InDriver, Planning, Engaged, WorkSteps
<1>4. TaskFits(t)' /\ \A u \in Tasks : Same(u)
  BY <1>a DEF TaskFits, Same
<1> QED
  BY <1>a, <1>1, <1>2, <1>3, <1>4, CallStepFits DEF BridgeTypes

\* The handler of an error before dispatch, and the finally clause.
LEMMA HandlerFits ==
  ASSUME TypeOK, BridgeFit, NEW x \in Calls, Fail(x) \/ ReleaseInFinally(x)
  PROVE  BridgeFit'
<1> PICK t \in Tasks : t = Task[x]
  BY CallFacts
<1> USE DEF effects, vars
<1>a. CallFits(x) /\ TaskFits(t) /\ BridgeTypes
  BY CallFacts DEF BridgeFit
<1>b. "failed" \in Replies \ {"success"} /\ "release" \in Steps
  BY DEF Replies, Steps, Synchronous, Leaving
<1>1. CASE Fail(x) /\ lease[x] = NoLease
  BY <1>1, <1>b, LeavingFits DEF Fail
<1>2. CASE Fail(x) /\ lease[x] # NoLease
  <2>1. /\ step[x] = "failed" /\ EndAttempt(Home[x], t, "FAILED") /\ Goes(x, "release")
        /\ Answers(x, "failed") /\ UNCHANGED <<lease, applied>>
    BY <1>2, FailureIsFailed DEF Fail, CommitFailed, At
  <2>2. /\ state'[t] = "FAILED" /\ UNCHANGED <<idem, snapshots>>
        /\ \A u \in Tasks \ {t} : Same(u)
    BY <2>1, EndIsLocal
  <2>3. applied[t] = 0 /\ Engaged(x)
    BY <1>a, <1>2, <2>1 DEF CallFits, StageFits, Engaged
  <2>4. TaskFits(t)'
    BY <1>a, <2>1, <2>2, <2>3 DEF TaskFits, Unbegun, NoTask
  <2>5. step'[x] = "release" => StageFits(x)'
    BY DEF StageFits, InDriver
  <2>6. reply'[x] = "failed"
    BY <1>a, <2>1 DEF Answers, BridgeTypes
  <2> QED
    BY <1>a, <1>b, <2>1, <2>2, <2>3, <2>4, <2>5, <2>6, EngagedStepFits DEF BridgeTypes, Planning
<1>3. CASE ReleaseInFinally(x)
  BY <1>3, LeavingFits DEF ReleaseInFinally, ReleaseLease
<1> QED
  BY <1>1, <1>2, <1>3

\* An exception, with or without the loss of the binding.
LEMMA RaiseFits ==
  ASSUME TypeOK, BridgeFit, NEW x \in Calls, Raise(x)
  PROVE  BridgeFit'
<1> PICK t \in Tasks : t = Task[x]
  BY CallFacts
<1> USE DEF effects, vars
<1>a. CallFits(x) /\ TaskFits(t) /\ BridgeTypes
  BY CallFacts DEF BridgeFit
<1>b. /\ step[x] \in Synchronous \cup {"begin"} /\ Goes(x, Handler(step[x]))
      /\ UNCHANGED <<state, idem, snapshots, applied, lease>>
      /\ TaskFits(t)' /\ \A u \in Tasks : Same(u)
  BY <1>a DEF Raise, CommitRaises, TaskFits, Same
<1>c. /\ step[x] = "unknown" => Answers(x, "lost")
      /\ step[x] = "failed" => Answers(x, "failed")
      /\ step[x] \notin {"unknown", "failed"} => reply' = reply
  BY DEF Raise
<1>d. {"lost", "failed"} \subseteq Replies \ {"success"}
  BY DEF Replies
<1>1. CASE step[x] \in Planning \cup {"begin", "claim"}
  <2>1. Handler(step[x]) = "failed" /\ lease[x] = NoLease /\ reply' = reply
    BY <1>a, <1>c, <1>1 DEF Handler, BeforeDispatch, AfterDispatch, Planning, CallFits
  <2> QED
    BY <1>b, <2>1, LeavingFits
<1>2. CASE step[x] \in {"start", "idem", "checkpoint"}
  <2>1. Handler(step[x]) = "failed" /\ reply' = reply /\ Engaged(x)
    BY <1>c, <1>2 DEF Handler, BeforeDispatch, AfterDispatch, Planning, Engaged, WorkSteps
  <2>2. state[t] \in {"LEASED", "RUNNING"} /\ applied[t] = 0
    BY <1>a, <1>2 DEF CallFits, StageFits, TaskFits, Unbegun
  <2>3. step'[x] = "failed" => StageFits(x)'
    BY <1>b, <2>2 DEF StageFits, InDriver
  <2>4. "failed" \in Steps
    BY DEF Steps, Synchronous, Leaving
  <2> QED
    BY <1>a, <1>b, <2>1, <2>3, <2>4, EngagedStepFits DEF BridgeTypes, Planning
<1>3. CASE step[x] \in {"blocked", "verify", "complete", "commit"}
  <2>1. Handler(step[x]) = "unknown" /\ reply' = reply /\ Engaged(x)
    BY <1>c, <1>3 DEF Handler, BeforeDispatch, AfterDispatch, Planning, Engaged, WorkSteps
  <2>2. state[t] = "VERIFYING" \/ (state[t] = "RUNNING" /\ idem[t] = "CLAIMED")
    BY <1>a, <1>3 DEF CallFits, StageFits
  <2>3. step'[x] = "unknown" => StageFits(x)'
    BY <1>b, <2>2 DEF StageFits, InDriver
  <2>4. "unknown" \in Steps
    BY DEF Steps, Synchronous, AfterDispatch
  <2> QED
    BY <1>a, <1>b, <2>1, <2>3, <2>4, EngagedStepFits DEF BridgeTypes, Planning
<1>4. CASE step[x] \in {"unknown", "failed", "release"}
  <2>1. Handler(step[x]) \in {"release", "done"}
    BY <1>4 DEF Handler, BeforeDispatch, AfterDispatch, Planning
  <2>2. reply' = reply \/ \E r \in Replies \ {"success"} : Answers(x, r)
    BY <1>c, <1>d
  <2> QED
    BY <1>b, <2>1, <2>2, LeavingFits
<1> QED
  BY <1>b, <1>1, <1>2, <1>3, <1>4 DEF Synchronous, BeforeDispatch, AfterDispatch, Leaving, Planning

-----------------------------------------------------------------------------
(* The environment. *)

LEMMA DeathFits ==
  ASSUME BridgeFit, NEW i \in Instances, ProcessDies(i)
  PROVE  BridgeFit'
<1>1. /\ step' \in [Calls -> Steps]
      /\ \A x \in Calls : step'[x] \in {step[x], "dead"}
      /\ UNCHANGED <<state, idem, snapshots, lease, reply, applied>>
  BY DEF ProcessDies, effects, BridgeFit, BridgeTypes, Steps
<1>2. ASSUME NEW x \in Calls PROVE CallFits(x)' /\ (Engaged(x)' => Engaged(x))
  <2>1. CallFits(x)
    BY DEF BridgeFit
  <2>2. CASE step'[x] = step[x]
    BY <1>1, <2>1, <2>2 DEF CallFits, StageFits, Engaged
  <2>3. CASE step'[x] = "dead"
    BY <1>1, <2>1, <2>3 DEF CallFits, StageFits, Engaged, InDriver, Planning, WorkSteps
  <2> QED
    BY <1>1, <2>2, <2>3
<1>3. \A t \in Tasks : TaskFits(t)'
  BY <1>1 DEF BridgeFit, TaskFits
<1> QED
  BY <1>1, <1>2, <1>3 DEF BridgeFit, BridgeTypes, OneEngaged

\* Reconciliation works on tasks nobody is at; it gives a claim back only if the
\* effect was not produced.
LEMMA ReconcilingFits ==
  ASSUME TypeOK, BridgeFit, NEW i \in Instances, NEW t \in Tasks,
         EnterReconcile(i, t) \/ \E outcome \in Outcomes : Reconcile(i, t, outcome)
  PROVE  BridgeFit'
<1> USE DEF effects, bridge
<1>a. TaskFits(t)
  BY DEF BridgeFit
<1>1. CASE EnterReconcile(i, t)
  <2>1. /\ state[t] = "UNKNOWN" /\ Move(t, "RECONCILING") /\ UNCHANGED bridge
        /\ UNCHANGED <<idem, snapshots>>
    BY <1>1 DEF EnterReconcile, EnterReconciling
  <2>2. state'[t] = "RECONCILING" /\ \A u \in Tasks \ {t} : Same(u)
    BY <2>1, MoveIsLocal DEF Same
  <2>3. TaskFits(t)'
    BY <1>a, <2>1, <2>2 DEF TaskFits, Unbegun, NoTask
  <2>4. NobodyAt(t)
    BY <2>1, NobodyInOtherStates
  <2> QED
    BY <2>1, <2>2, <2>3, <2>4, OperatorStepFits
<1>2. ASSUME NEW outcome \in Outcomes, Reconcile(i, t, outcome) PROVE BridgeFit'
  <2> DEFINE s == IF outcome = "NOT_APPLIED" THEN "QUEUED" ELSE "HUMAN_REVIEW"
             e == IF outcome = "NOT_APPLIED" THEN "RETRYABLE" ELSE "RECONCILED"
  <2>1. /\ state[t] = "RECONCILING" /\ Move(t, s) /\ UNCHANGED bridge
        /\ idem' = [idem EXCEPT ![t] = e] /\ UNCHANGED snapshots
        /\ outcome = "NOT_APPLIED" => applied[t] = 0
    BY <1>2 DEF Reconcile, ReconcileUnknown
  <2>2. state'[t] = s /\ idem'[t] = e /\ \A u \in Tasks \ {t} : Same(u)
    BY <2>1, MoveIsLocal DEF Same, TypeOK
  <2>3. TaskFits(t)'
    BY <1>a, <2>1, <2>2 DEF TaskFits, Unbegun, NoTask
  <2>4. NobodyAt(t)
    BY <2>1, NobodyInOtherStates
  <2> QED
    BY <2>1, <2>2, <2>3, <2>4, OperatorStepFits
<1> QED
  BY <1>1, <1>2

-----------------------------------------------------------------------------
(* The invariant, and what it says. *)

LEMMA InitBridgeFit == BridgeInit => BridgeFit
<1> SUFFICES ASSUME BridgeInit PROVE BridgeFit
  OBVIOUS
<1>1. BridgeTypes
  BY DEF BridgeInit, BridgeTypes, Steps, Replies
<1>2. \A x \in Calls : CallFits(x) /\ ~Engaged(x)
  BY DEF BridgeInit, CallFits, StageFits, Engaged, InDriver, Planning, WorkSteps
<1>3. \A t \in Tasks : TaskFits(t)
  BY DEF BridgeInit, Init, TaskFits, Unbegun, NoTask
<1> QED
  BY <1>1, <1>2, <1>3 DEF BridgeFit, OneEngaged

LEMMA NextBridgeFit ==
  ASSUME TypeOK, BridgeFit, [BridgeNext]_bvars
  PROVE  BridgeFit'
<1>1. ASSUME NEW x \in Calls, CallStep(x) PROVE BridgeFit'
  BY <1>1, CreateFits, PlanFits, PrepareFits, DriverFits, ResultFits, HandlerFits, RaiseFits
     DEF CallStep
<1>2. CASE TimeOrKill
  BY <1>2, NothingMovesFits DEF TimeOrKill, Tick, SetGlobalKill, effects
<1>3. CASE UNCHANGED bvars
  BY <1>3, NothingMovesFits DEF bvars, bridge, vars
<1> QED
  BY <1>1, <1>2, <1>3, DeathFits, ReconcilingFits DEF BridgeNext

LEMMA NextHInv == HInv /\ [BridgeNext]_bvars => HInv'
BY BridgeKernelStep, NextSound, NextBridgeFit DEF HInv, Sound

THEOREM BridgeInvariance == BridgeSpec => []HInv
<1>1. BridgeInit => HInv
  BY InitFit, InitBridgeFit DEF BridgeInit, HInv, IInv
<1> QED
  BY <1>1, NextHInv, PTL DEF BridgeSpec

\* Types, of the database and of the calls.
THEOREM BridgeTypeCorrect == BridgeSpec => []BridgeTypeOK
<1>1. HInv => BridgeTypeOK
  BY DEF HInv, Sound, BridgeFit, BridgeTypes, BridgeTypeOK
<1> QED
  BY <1>1, BridgeInvariance, PTL

\* Two drivers never run for one task, and none before its claim and a checkpoint are
\* durable.
THEOREM DispatchIsRecorded == BridgeSpec => []OneRecordedDispatch
<1>1. HInv => OneRecordedDispatch
  BY DEF HInv, BridgeFit, OneEngaged, Engaged, WorkSteps, CallFits, StageFits, InDriver,
     OneRecordedDispatch
<1> QED
  BY <1>1, BridgeInvariance, PTL

\* An effect that was produced is never shown as retryable or failed.
THEOREM AppliedStaysSettled == BridgeSpec => []AppliedIsNeverRetryable
<1>1. HInv => AppliedIsNeverRetryable
  <2> SUFFICES ASSUME HInv, NEW t \in Tasks, applied[t] > 0
               PROVE  /\ state[t] \notin {"QUEUED", "FAILED", "RETRY_SCHEDULED"}
                      /\ idem[t] \in {"CLAIMED", "COMPLETED", "RECONCILED"}
    BY DEF AppliedIsNeverRetryable
  <2>1. TaskFits(t) /\ idem[t] \in IdemStates
    BY DEF HInv, Sound, TypeOK, BridgeFit
  <2> QED
    BY <2>1 DEF TaskFits, Unbegun, IdemStates, NoTask
<1> QED
  BY <1>1, BridgeInvariance, PTL

\* Success is answered only when effect, key and task are durable, and they stay so.
THEOREM SuccessStaysDurable == BridgeSpec => []SuccessIsDurable
<1>1. HInv => SuccessIsDurable
  BY CallFacts DEF HInv, CallFits, TaskFits, SuccessIsDurable
<1> QED
  BY <1>1, BridgeInvariance, PTL

\* A task is never completed ahead of its effect's key.
THEOREM KeyPrecedesTask == BridgeSpec => []KeyBeforeTask
<1>1. HInv => KeyBeforeTask
  BY DEF HInv, BridgeFit, TaskFits, KeyBeforeTask
<1> QED
  BY <1>1, BridgeInvariance, PTL

-----------------------------------------------------------------------------
(* The bridge over the kernel implements EffectLedger. *)

\* What a step does to keys and effects.
KeyMoves(t, from, to) == idem[t] \in from /\ idem' = [idem EXCEPT ![t] = to]

EffectChange ==
  \/ UNCHANGED <<idem, applied>>
  \/ /\ UNCHANGED applied
     /\ \E t \in Tasks : \/ KeyMoves(t, {"NONE", "RETRYABLE"}, "CLAIMED")
                         \/ KeyMoves(t, {"CLAIMED"}, "COMPLETED")
                         \/ KeyMoves(t, {"CLAIMED"}, "RECONCILED")
                         \/ KeyMoves(t, {"CLAIMED"}, "RETRYABLE") /\ applied[t] = 0
  \/ /\ UNCHANGED idem
     /\ \E t \in Tasks : /\ idem[t] = "CLAIMED" /\ applied[t] = 0
                         /\ applied' = [applied EXCEPT ![t] = 1]

LEMMA EveryEffectChange ==
  ASSUME BridgeFit, [BridgeNext]_bvars
  PROVE  EffectChange
<1> USE DEF effects, bridge
<1>1. ASSUME NEW x \in Calls, CallStep(x) PROVE EffectChange
  <2> PICK t \in Tasks : t = Task[x]
    BY CallFacts
  <2>1. CASE ClaimEffect(x)
    BY <2>1 DEF ClaimEffect, IdempotencyClaim, EffectChange, KeyMoves, vars
  <2>2. CASE CompleteEffect(x)
    BY <2>2 DEF CompleteEffect, IdempotencyComplete, EffectChange, KeyMoves
  <2>3. CASE Apply(x)
    <3>1. idem[t] = "CLAIMED" /\ applied[t] = 0
      BY <2>3, CallFacts DEF Apply, CallFits, StageFits
    <3>2. applied' = [applied EXCEPT ![t] = 1] /\ UNCHANGED idem
      BY <2>3, <3>1 DEF Apply, vars
    <3> QED
      BY <3>1, <3>2 DEF EffectChange
  <2>4. CASE \/ Create(x) \/ CreateDuplicate(x) \/ Plan(x) \/ ClaimTask(x) \/ StartTask(x)
             \/ WriteCheckpoint(x) \/ DriverReturns(x) \/ Beat(x) \/ Denied(x) \/ Verify(x)
             \/ CommitVerified(x) \/ RecordUnknown(x) \/ Fail(x) \/ ReleaseInFinally(x)
             \/ Raise(x)
    <3>1. UNCHANGED <<idem, applied>>
      BY <2>4 DEF Create, CreateTask, CreateDuplicate, Plan, Transition, ClaimTask, Claim,
         StartTask, Start, WriteCheckpoint, Checkpoint, DriverReturns, Beat, Heartbeat, Denied,
         CommitFailed, Verify, CommitVerified, CommitCompleted, EndAttempt, RecordUnknown,
         RecordActionDispatched, Fail, ReleaseInFinally, ReleaseLease, Raise, CommitRaises, vars
    <3> QED
      BY <3>1 DEF EffectChange
  <2> QED
    BY <1>1, <2>1, <2>2, <2>3, <2>4 DEF CallStep
<1>2. ASSUME NEW i \in Instances, ProcessDies(i) PROVE EffectChange
  BY <1>2 DEF ProcessDies, EffectChange
<1>3. ASSUME NEW i \in Instances, NEW t \in Tasks, EnterReconcile(i, t) PROVE EffectChange
  BY <1>3 DEF EnterReconcile, EnterReconciling, EffectChange
<1>4. ASSUME NEW i \in Instances, NEW t \in Tasks, NEW outcome, Reconcile(i, t, outcome)
      PROVE  EffectChange
  <2>1. /\ UNCHANGED applied
        /\ idem[t] = "CLAIMED"
        /\ \/ outcome = "NOT_APPLIED" /\ applied[t] = 0 /\ idem' = [idem EXCEPT ![t] = "RETRYABLE"]
           \/ idem' = [idem EXCEPT ![t] = "RECONCILED"]
    BY <1>4 DEF Reconcile, ReconcileUnknown
  <2> QED
    BY <2>1 DEF EffectChange, KeyMoves
<1>5. CASE TimeOrKill \/ UNCHANGED bvars
  BY <1>5 DEF TimeOrKill, Tick, SetGlobalKill, bvars, vars, EffectChange
<1> QED
  BY <1>1, <1>2, <1>3, <1>4, <1>5 DEF BridgeNext

\* The claim that EffectLedger sees in a key.
ClaimOf(e) ==
  CASE e \in {"NONE", "RETRYABLE"} -> "free" [] e = "CLAIMED" -> "claimed" [] OTHER -> "closed"
Claims == [t \in Tasks |-> ClaimOf(idem[t])]

LEMMA ClaimFacts ==
  /\ ClaimOf("NONE") = "free" /\ ClaimOf("RETRYABLE") = "free"
  /\ ClaimOf("CLAIMED") = "claimed"
  /\ ClaimOf("COMPLETED") = "closed" /\ ClaimOf("RECONCILED") = "closed"
BY DEF ClaimOf

\* The move of a key is the move of the claim.
LEMMA KeyMovesClaim ==
  ASSUME TypeOK, NEW t \in Tasks, NEW to, idem' = [idem EXCEPT ![t] = to]
  PROVE  Claims' = [Claims EXCEPT ![t] = ClaimOf(to)] /\ Claims[t] = ClaimOf(idem[t])
<1>1. \A u \in Tasks : idem'[u] = IF u = t THEN to ELSE idem[u]
  BY DEF TypeOK
<1>2. Claims' = [u \in Tasks |-> ClaimOf(idem'[u])]
  BY DEF Claims
<1>3. Claims = [u \in Tasks |-> ClaimOf(idem[u])]
  BY DEF Claims
<1> HIDE DEF Claims
<1> QED
  BY <1>1, <1>2, <1>3

LEMMA LedgerStep ==
  ASSUME TypeOK, BridgeFit, [BridgeNext]_bvars
  PROVE  [Ledger!LNext]_(Ledger!lvars)
<1>1. Claims = [t \in Tasks |-> CASE idem[t] \in {"NONE", "RETRYABLE"} -> "free"
                                  [] idem[t] = "CLAIMED" -> "claimed"
                                  [] OTHER -> "closed"]
  BY DEF Claims, ClaimOf
<1>2. UNCHANGED <<idem, applied>> => UNCHANGED Ledger!lvars
  BY DEF Ledger!lvars
<1>3. ASSUME NEW t \in Tasks, UNCHANGED applied, KeyMoves(t, {"NONE", "RETRYABLE"}, "CLAIMED")
      PROVE  Ledger!Take(t)
  <2>1. Claims[t] = "free" /\ Claims' = [Claims EXCEPT ![t] = "claimed"]
    BY <1>3, KeyMovesClaim, ClaimFacts DEF KeyMoves
  <2> QED
    BY <1>1, <1>3, <2>1 DEF Ledger!Take, Claims, ClaimOf
<1>4. ASSUME NEW t \in Tasks, UNCHANGED applied, NEW to \in {"COMPLETED", "RECONCILED"},
             KeyMoves(t, {"CLAIMED"}, to)
      PROVE  Ledger!Close(t)
  <2>0. idem' = [idem EXCEPT ![t] = to] /\ idem[t] = "CLAIMED" /\ ClaimOf(to) = "closed"
    BY <1>4, ClaimFacts DEF KeyMoves
  <2>1. Claims[t] = "claimed" /\ Claims' = [Claims EXCEPT ![t] = "closed"]
    BY <2>0, KeyMovesClaim, ClaimFacts
  <2> QED
    BY <1>1, <1>4, <2>1 DEF Ledger!Close, Claims, ClaimOf
<1>5. ASSUME NEW t \in Tasks, UNCHANGED applied, KeyMoves(t, {"CLAIMED"}, "RETRYABLE"),
             applied[t] = 0
      PROVE  Ledger!GiveBack(t)
  <2>1. Claims[t] = "claimed" /\ Claims' = [Claims EXCEPT ![t] = "free"]
    BY <1>5, KeyMovesClaim, ClaimFacts DEF KeyMoves
  <2> QED
    BY <1>1, <1>5, <2>1 DEF Ledger!GiveBack, Claims, ClaimOf
<1>6. ASSUME NEW t \in Tasks, UNCHANGED idem, idem[t] = "CLAIMED", applied[t] = 0,
             applied' = [applied EXCEPT ![t] = 1]
      PROVE  Ledger!Produce(t)
  BY <1>6 DEF Ledger!Produce
<1> QED
  BY EveryEffectChange, <1>2, <1>3, <1>4, <1>5, <1>6 DEF EffectChange, Ledger!LNext

\* Over the kernel, whoever dies, raises or reconciles, an effect is produced at most
\* once, under a claim, and a claim is given back only unproduced.
THEOREM BridgeImplementsLedger == BridgeSpec => ImplementsEffectLedger
<1>1. BridgeInit => Ledger!LInit
  BY DEF BridgeInit, Init, Ledger!LInit
<1>2. HInv /\ [BridgeNext]_bvars => [Ledger!LNext]_(Ledger!lvars)
  BY LedgerStep DEF HInv, Sound
<1> QED
  BY <1>1, <1>2, BridgeInvariance, PTL DEF BridgeSpec, ImplementsEffectLedger, Ledger!LSpec
=============================================================================
