-------------------------- MODULE AskAdapterProofs --------------------------
(***************************************************************************)
(* Proofs about the ask adapter, for any requests, questions, processes    *)
(* and admission cap: the database stays sound under its watchdogs, what a *)
(* client was answered is what the kernel recorded, a question is handled  *)
(* again only after a decision, and admission exceeds its cap by at most   *)
(* one task for every further process.                                     *)
(***************************************************************************)
EXTENDS AskAdapter, TaskKernelStepProofs

-----------------------------------------------------------------------------
(* The inductive invariant. *)

\* The steps behind create_task(): only the request that created a task takes them
\* with it.
OwnSteps ==
  Planning \cup {"claim", "start", "idem", "checkpoint"} \cup Awaiting \cup Finalizing

Owns(x) == step[x] \in OwnSteps \/ reply[x] \in {"answered", "withheld"}

SoleOwner ==
  /\ \A x \in Requests : Owns(x) => state[task[x]] # NoTask
  /\ \A x, y \in Requests : task[x] = task[y] /\ Owns(x) /\ Owns(y) => x = y

Decided(t) == state[t] \in Terminal \cup {"HUMAN_REVIEW"}

\* What is recorded of a request's task. A planner may find it cancelled by a request
\* whose create_task() raised; COMPLETED it is only behind the request's own commit.
RequestFits(x) ==
  LET t == task[x] IN
  /\ step[x] = "PLANNING" => state[t] \in {"CREATED", "CANCELLED"}
  /\ step[x] = "READY" => state[t] \in {"PLANNING", "CANCELLED"}
  /\ step[x] = "QUEUED" => state[t] \in {"READY", "CANCELLED"}
  /\ step[x] \in OwnSteps \ {"answering", "fail"} => state[t] # "COMPLETED"
  /\ step[x] = "answering" => state[t] = "COMPLETED"
  /\ reply[x] = "answered" => state[t] = "COMPLETED"
  /\ reply[x] = "withheld" => state[t] # "COMPLETED"
  /\ reply[x] \in {"answered", "withheld"} => step[x] = "done"
  /\ t # FirstTask[x] => Decided(FirstTask[x])

\* Requests between the count and the creation: one to a process at most.
Creating == {x \in Requests : step[x] = "create"}
InFlightTasks == {t \in Tasks : state[t] \notin Terminal \cup {NoTask}}

OneCreating ==
  \A x, y \in Requests : step[x] = "create" /\ step[y] = "create" /\ Home[x] = Home[y] => x = y

Admission ==
  Cardinality(InFlightTasks) + Cardinality(Creating)
    <= MaxInflight + Cardinality(Instances) - 1

AskTypes ==
  /\ step \in [Requests -> Steps]
  /\ task \in [Requests -> Tasks]
  /\ lease \in [Requests -> Tokens \cup {NoLease}]
  /\ reply \in [Requests -> Replies]

AskFit ==
  /\ AskTypes
  /\ SoleOwner
  /\ \A x \in Requests : RequestFits(x)
  /\ \A t \in Tasks : state[t] # "WAITING_APPROVAL"

AInv == IInv /\ AskFit /\ OneCreating /\ Admission

-----------------------------------------------------------------------------
(* The adapter uses the kernel through its operations. *)

\* A heartbeat's renewal: it looks at the lease presented, and need not be the work of
\* an instance bound to it.
Renewal ==
  \E t \in Tasks, l \in Tokens \cup {NoLease} :
    /\ LeaseValid(t, l)
    /\ Extend(t, l)
    /\ UNCHANGED <<control, state, active, latest, attempts, journal, effects, late, accounts,
                   bound>>

KernelOrRenewal == [Next]_vars \/ Renewal

\* What a step may rely on of its request.
LEMMA RequestFacts ==
  ASSUME AskTypes, NEW x \in Requests
  PROVE  /\ Home[x] \in Instances /\ task[x] \in Tasks /\ FirstTask[x] \in Tasks
         /\ AgainTask[x] \in Tasks
         /\ step[x] \in Steps /\ lease[x] \in Tokens \cup {NoLease} /\ reply[x] \in Replies
BY AskAssumption DEF AskAssumption, AskTypes

LEMMA RequestKernelStep ==
  ASSUME AskTypes, NEW x \in Requests, RequestStep(x)
  PROVE  KernelOrRenewal
<1> USE DEF KernelOrRenewal
<1> PICK i \in Instances : i = Home[x]
  BY RequestFacts
<1> PICK t \in Tasks : t = task[x]
  BY RequestFacts
<1>1. WorkerStep(i, t) => Next
  BY WorkerStepIsNext
<1>2. CASE Create(x)
  <2>1. CreateTask(t)
    BY <1>2 DEF Create
  <2> QED BY <2>1 DEF Next, TaskStep
<1>3. CASE \/ Admit(x) \/ CreateDuplicate(x) \/ HandlerReturns(x) \/ JudgeReturns(x)
           \/ Raced(x) \/ Report(x)
  BY <1>3 DEF Admit, CreateDuplicate, HandlerReturns, JudgeReturns, Raced, Report
<1>4. ASSUME NEW to, Transition(i, t, to, NoLease) PROVE Next
  <2>1. to \in Allowed(state[t])
    BY <1>4 DEF Transition
  <2>2. WorkerStep(i, t)
    BY <1>4, <2>1 DEF WorkerStep
  <2> QED BY <1>1, <2>2
<1>5. CASE Plan(x)
  BY <1>4, <1>5 DEF Plan
<1>6. CASE Verifying(x) \/ Escalate(x)
  BY <1>4, <1>6 DEF Verifying, Escalate
<1>7. CASE ClaimTask(x) \/ StartTask(x) \/ ClaimKey(x) \/ WriteCheckpoint(x)
  <2>1. WorkerStep(i, t)
    BY <1>7 DEF ClaimTask, StartTask, ClaimKey, WriteCheckpoint, WorkerStep
  <2> QED BY <1>1, <2>1
<1>8. CASE Kill(x)
  <2>1. SetTaskKill(i, t) \/ UNCHANGED vars
    BY <1>8 DEF Kill
  <2> QED BY <2>1, OperatorStepIsNext DEF OperatorStep
<1>9. CASE Commit(x)
  <2>1. CommitCompleted(i, t) \/ UNCHANGED vars
    BY <1>9 DEF Commit
  <2> QED BY <1>1, <2>1 DEF WorkerStep
<1>10. CASE Fail(x)
  <2>1. CommitFailed(i, t, "terminal") \/ UNCHANGED vars
    BY <1>10 DEF Fail
  <2>2. "terminal" \in FailureClasses
    BY DEF FailureClasses
  <2> QED BY <1>1, <2>1, <2>2 DEF WorkerStep
<1>11. CASE Raise(x)
  <2>1. CommitRaises(i, t) \/ UNCHANGED vars
    BY <1>11 DEF Raise
  <2> QED BY <1>1, <2>1 DEF WorkerStep
<1>12. CASE Renew(x)
  <2>1. lease[x] \in Tokens \cup {NoLease}
    BY RequestFacts
  <2>2. Renewal
    BY <1>12, <2>1 DEF Renew, Renewal
  <2> QED BY <2>2
<1> QED
  BY <1>2, <1>3, <1>5, <1>6, <1>7, <1>8, <1>9, <1>10, <1>11, <1>12 DEF RequestStep

\* Every step of the adapter is one of the kernel, or leaves the database as it is, or is
\* a heartbeat's renewal.
LEMMA AskKernelStep ==
  ASSUME TypeOK, AskTypes, [AskNext]_avars
  PROVE  KernelOrRenewal
<1>1. CASE UNCHANGED avars
  BY <1>1 DEF avars, vars, KernelOrRenewal
<1>2. ASSUME NEW i \in Instances, ProcessDies(i) PROVE KernelOrRenewal
  <2>1. /\ Unbind(i, Tasks)
        /\ UNCHANGED <<control, state, leases, attempts, journal, effects, late, accounts>>
    BY <1>2 DEF ProcessDies
  <2> QED BY <2>1, DeathIsCrash DEF KernelOrRenewal
<1>3. ASSUME NEW i \in Instances,
             ExpiryTick(i) \/ \E stale \in SUBSET Tasks : OrphanTick(i, stale)
      PROVE  KernelOrRenewal
  BY <1>3 DEF ExpiryTick, OrphanTick, Next, InstanceStep, KernelOrRenewal
<1>4. CASE Time
  BY <1>4 DEF Time, Next, KernelOrRenewal
<1> QED
  BY <1>1, <1>2, <1>3, <1>4, RequestKernelStep DEF AskNext

\* A renewal keeps the database sound too.
LEMMA AskKeepsKernel == IInv /\ KernelOrRenewal => IInv'
<1> SUFFICES ASSUME IInv, Renewal PROVE IInv'
  BY NextIInv DEF KernelOrRenewal
<1> USE DEF control, leases, effects
<1>1. PICK t \in Tasks, l \in Tokens \cup {NoLease} :
        /\ Extend(t, l)
        /\ UNCHANGED <<control, state, active, latest, attempts, journal, effects, late,
                       accounts, bound>>
  BY DEF Renewal
<1>2. TypeOK'
  BY <1>1, ExtendType DEF IInv, Sound, TypeOK
<1>3. \A u \in Tasks : Steady(u)
  BY <1>1, ExtendSteady DEF IInv
<1> QED
  BY <1>2, <1>3 DEF IInv, Sound, Steady

-----------------------------------------------------------------------------
(* What a step does to the tasks of the other requests. *)

\* A step that may befall a task at any time, whoever's it is: it stays, is cancelled,
\* or is a worker's and goes where a worker or a watchdog takes it.
Mild(u) ==
  \/ state'[u] = state[u]
  \/ /\ state[u] \notin Terminal \cup {NoTask}
     /\ state'[u] = "CANCELLED"
  \/ /\ state[u] \notin Terminal \cup {NoTask, "HUMAN_REVIEW", "CREATED", "PLANNING", "READY"}
     /\ state'[u] \in {"QUEUED", "LEASED", "RUNNING", "VERIFYING", "HUMAN_REVIEW", "FAILED",
                      "RECOVERING", "RECONCILING"}

\* A step only the request that has the task, or creates it, takes with it.
Advance(x, u) ==
  /\ u = task[x]
  /\ Owns(x) \/ state[u] = NoTask
  /\ ~Decided(u)
  /\ state'[u] \notin {NoTask, "WAITING_APPROVAL"}

\* A task comes into flight.
Opens(u) ==
  /\ state[u] \in Terminal \cup {NoTask}
  /\ state'[u] \notin Terminal \cup {NoTask}

NoneOpens == \A u \in Tasks : ~Opens(u)

LEMMA MildOpensNone ==
  ASSUME \A u \in Tasks : Mild(u)
  PROVE  NoneOpens
BY DEF Mild, NoneOpens, Opens

LEMMA OwnerOpensNone ==
  ASSUME AskFit, NEW x \in Requests, Owns(x), \A u \in Tasks : Mild(u) \/ Advance(x, u)
  PROVE  NoneOpens
<1>1. state[task[x]] # NoTask
  BY DEF AskFit, SoleOwner
<1> QED
  BY <1>1 DEF Mild, Advance, Decided, NoneOpens, Opens

\* Neither undoes a decision or a creation.
LEMMA MovesKeep ==
  ASSUME AskFit, NEW x \in Requests, NEW u \in Tasks, Mild(u) \/ Advance(x, u)
  PROVE  /\ Decided(u) => Decided(u)'
         /\ state[u] # NoTask => state'[u] # NoTask
         /\ state'[u] # "WAITING_APPROVAL"
<1>1. state[u] # "WAITING_APPROVAL"
  BY DEF AskFit
<1> QED
  BY <1>1 DEF Mild, Advance, Decided, Terminal, NoTask

\* A request that does not move keeps what is recorded of its task.
LEMMA RequestKept ==
  ASSUME AskFit, NEW y \in Requests,
         step'[y] = step[y], task'[y] = task[y], reply'[y] = reply[y],
         Mild(task[y]) \/ ~Owns(y),
         Decided(FirstTask[y]) => Decided(FirstTask[y])'
  PROVE  RequestFits(y)' /\ (Owns(y)' <=> Owns(y))
<1>1. RequestFits(y)
  BY DEF AskFit
<1>2. Owns(y)' <=> Owns(y)
  BY DEF Owns
<1>3. CASE Mild(task[y])
  <2> PICK t : t = task[y]
    OBVIOUS
  <2>1. /\ state[t] = "COMPLETED" <=> state'[t] = "COMPLETED"
        /\ \A s \in {"CREATED", "PLANNING", "READY"} :
             state[t] \in {s, "CANCELLED"} => state'[t] \in {s, "CANCELLED"}
    BY <1>3 DEF Mild, Terminal
  <2> QED
    BY <1>1, <1>2, <2>1 DEF RequestFits, Decided
<1>4. CASE ~Owns(y)
  BY <1>1, <1>2, <1>4 DEF RequestFits, Decided, Owns, OwnSteps, Planning, Finalizing
<1> QED
  BY <1>2, <1>3, <1>4

\* What is left to show of a step of request x: that it fits after it, and has a task
\* only if it had or created it.
LEMMA RequestStepFits ==
  ASSUME AskFit, NEW x \in Requests, NEW s \in Steps, Goes(x, s),
         task' \in [Requests -> Tasks],
         lease' \in [Requests -> Tokens \cup {NoLease}],
         reply' \in [Requests -> Replies],
         \A y \in Requests \ {x} : task'[y] = task[y] /\ reply'[y] = reply[y],
         \A u \in Tasks : Mild(u) \/ Advance(x, u),
         RequestFits(x)',
         Owns(x)' => /\ task'[x] = task[x]
                     /\ Owns(x) \/ (state[task[x]] = NoTask /\ state'[task[x]] # NoTask)
  PROVE  AskFit'
<1>1. step' \in [Requests -> Steps] /\ \A y \in Requests \ {x} : step'[y] = step[y]
  BY DEF AskFit, AskTypes, Goes
<1>2. AskTypes'
  BY <1>1 DEF AskTypes
<1>3. AskTypes /\ SoleOwner
  BY DEF AskFit
<1>4. ASSUME NEW y \in Requests \ {x} PROVE RequestFits(y)' /\ (Owns(y)' <=> Owns(y))
  <2>1. task[y] \in Tasks /\ FirstTask[y] \in Tasks
    BY <1>3, RequestFacts
  <2>2. Mild(task[y]) \/ ~Owns(y)
    BY <1>3, <2>1 DEF SoleOwner, Advance
  <2> QED
    BY <1>1, <2>1, <2>2, MovesKeep, RequestKept
<1>5. \A y \in Requests \ {x} : Owns(y) => task[y] \in Tasks /\ state[task[y]] # NoTask
  BY <1>3, RequestFacts DEF SoleOwner
<1>6. \A y \in Requests : Owns(y)' => state'[task'[y]] # NoTask
  <2>1. \A y \in Requests \ {x} : Owns(y)' => state'[task'[y]] # NoTask
    BY <1>4, <1>5, MovesKeep
  <2>2. Owns(x)' => state'[task'[x]] # NoTask
    <3>1. task[x] \in Tasks /\ (Owns(x) => state[task[x]] # NoTask)
      BY <1>3, RequestFacts DEF SoleOwner
    <3> QED
      BY <3>1, MovesKeep
  <2> QED
    BY <2>1, <2>2
<1>7. \A y, z \in Requests : task'[y] = task'[z] /\ Owns(y)' /\ Owns(z)' => y = z
  <2>1. \A y \in Requests \ {x} : Owns(x)' /\ Owns(y)' => task'[y] # task'[x]
    BY <1>3, <1>4 DEF SoleOwner
  <2> QED
    BY <1>3, <1>4, <2>1 DEF SoleOwner
<1>8. \A u \in Tasks : state'[u] # "WAITING_APPROVAL"
  BY MovesKeep
<1>9. \A y \in Requests : RequestFits(y)'
  BY <1>4
<1> QED
  BY <1>2, <1>6, <1>7, <1>8, <1>9 DEF AskFit, SoleOwner

\* The watchdogs, time and the death of a process move no request but to its end.
LEMMA EnvironmentStepFits ==
  ASSUME AskFit, UNCHANGED <<task, lease, reply>>, step' \in [Requests -> Steps],
         \A y \in Requests : \/ step'[y] = step[y]
                             \/ step'[y] = "dead" /\ step[y] # "done",
         \A u \in Tasks : Mild(u)
  PROVE  AskFit' /\ NoneOpens
<1>1. AskTypes' /\ AskTypes /\ SoleOwner
  BY DEF AskFit, AskTypes
<1>2. \A u \in Tasks : /\ Decided(u) => Decided(u)'
                       /\ state[u] # NoTask => state'[u] # NoTask
                       /\ state'[u] # "WAITING_APPROVAL"
  <2>1. \A u \in Tasks : state[u] # "WAITING_APPROVAL"
    BY DEF AskFit
  <2> QED
    BY <2>1 DEF Mild, Decided, Terminal, NoTask
<1>3. ASSUME NEW y \in Requests PROVE RequestFits(y)' /\ (Owns(y)' => Owns(y))
  <2>1. task[y] \in Tasks /\ FirstTask[y] \in Tasks
    BY <1>1, RequestFacts
  <2>2. CASE step'[y] = step[y]
    BY <1>2, <2>1, <2>2, RequestKept
  <2>3. CASE step'[y] = "dead" /\ step[y] # "done"
    <3>1. RequestFits(y)
      BY DEF AskFit
    <3>2. reply[y] \notin {"answered", "withheld"}
      BY <2>3, <3>1 DEF RequestFits
    <3>3. ~Owns(y)'
      BY <2>3, <3>2 DEF Owns, OwnSteps, Planning, Awaiting, Finalizing
    <3>4. RequestFits(y)'
      BY <1>2, <2>1, <2>3, <3>1, <3>2
         DEF RequestFits, Decided, OwnSteps, Planning, Awaiting, Finalizing
    <3> QED
      BY <3>3, <3>4
  <2> QED
    BY <2>2, <2>3
<1>4. SoleOwner'
  <2>1. \A y \in Requests : task[y] \in Tasks /\ (Owns(y) => state[task[y]] # NoTask)
    BY <1>1, RequestFacts DEF SoleOwner
  <2> QED
    BY <1>1, <1>2, <1>3, <2>1 DEF SoleOwner
<1> QED
  BY MildOpensNone, <1>1, <1>2, <1>3, <1>4 DEF AskFit

-----------------------------------------------------------------------------
(* The steps of a request. *)

\* A request moves on with its own task, or drops it; the task moves mildly if at all.
LEMMA MildStepFits ==
  ASSUME AskFit, NEW x \in Requests, NEW s \in Steps, Goes(x, s),
         UNCHANGED <<task, reply>>, lease' \in [Requests -> Tokens \cup {NoLease}],
         \A u \in Tasks : Mild(u),
         s \in OwnSteps => step[x] \in OwnSteps,
         s \notin Planning \cup {"done"}, step[x] # "done",
         s \in OwnSteps \ {"answering", "fail"} => state'[task[x]] # "COMPLETED",
         s = "answering" => state'[task[x]] = "COMPLETED"
  PROVE  AskFit' /\ NoneOpens
<1>1. step'[x] = s /\ RequestFits(x) /\ AskTypes
  BY DEF AskFit, AskTypes, Goes
<1>2. FirstTask[x] \in Tasks
  BY <1>1, RequestFacts
<1>3. RequestFits(x)'
  <2>1. Decided(FirstTask[x]) => Decided(FirstTask[x])'
    BY <1>2, MovesKeep
  <2> QED
    BY <1>1, <2>1 DEF RequestFits, Decided, Planning
<1>4. Owns(x)' => Owns(x)
  BY <1>1 DEF Owns
<1> QED
  BY MildOpensNone, <1>1, <1>3, <1>4, RequestStepFits DEF AskTypes

\* A request ends without a word about its task, or with what is recorded of it.
LEMMA EndFits ==
  ASSUME AskFit, NEW x \in Requests, NEW r \in Replies, Ends(x, r), UNCHANGED <<task, lease>>,
         \A u \in Tasks : Mild(u),
         r \in {"answered", "withheld"} => step[x] \in OwnSteps,
         r = "answered" => state'[task[x]] = "COMPLETED",
         r = "withheld" => state'[task[x]] # "COMPLETED"
  PROVE  AskFit' /\ NoneOpens
<1>1. /\ step'[x] = "done" /\ reply'[x] = r
      /\ \A y \in Requests \ {x} : reply'[y] = reply[y]
      /\ RequestFits(x) /\ AskTypes /\ reply' \in [Requests -> Replies]
  BY DEF AskFit, AskTypes, Ends, Goes
<1>2. FirstTask[x] \in Tasks
  BY <1>1, RequestFacts
<1>3. RequestFits(x)'
  <2>1. Decided(FirstTask[x]) => Decided(FirstTask[x])'
    BY <1>2, MovesKeep
  <2> QED
    BY <1>1, <2>1 DEF RequestFits, Decided, OwnSteps, Planning, Awaiting, Finalizing
<1>4. Owns(x)' => Owns(x)
  BY <1>1 DEF Owns, OwnSteps, Planning, Awaiting, Finalizing
<1>5. "done" \in Steps
  BY DEF Steps
<1> QED
  BY MildOpensNone, <1>1, <1>3, <1>4, <1>5, RequestStepFits DEF AskTypes, Ends

\* A statement of a worker moves its task mildly.
LEMMA MildMove ==
  ASSUME TypeOK, NEW t \in Tasks, NEW s, Move(t, s),
         \/ s = "CANCELLED" /\ state[t] \notin Terminal \cup {NoTask}
         \/ /\ state[t] \in {"QUEUED", "UNKNOWN", "RECOVERING", "RECONCILING"} \cup LeasedStates
            /\ s \in {"QUEUED", "LEASED", "RUNNING", "VERIFYING", "HUMAN_REVIEW", "FAILED",
                      "RECOVERING", "RECONCILING"}
  PROVE  \A u \in Tasks : Mild(u)
<1>1. state'[t] = s /\ \A u \in Tasks \ {t} : state'[u] = state[u]
  BY MoveIsLocal
<1>2. Mild(t)
  BY <1>1 DEF Mild, Terminal, NoTask, LeasedStates
<1> QED
  BY <1>1, <1>2 DEF Mild

LEMMA BeginFits ==
  ASSUME TypeOK, AskFit, NEW x \in Requests, Admit(x) \/ Create(x) \/ CreateDuplicate(x)
  PROVE  AskFit' /\ (NoneOpens \/ Create(x))
<1> PICK t \in Tasks : t = task[x]
  BY RequestFacts DEF AskFit
<1>a. AskTypes /\ SoleOwner /\ RequestFits(x) /\ (\A u \in Tasks : state[u] # "WAITING_APPROVAL")
  BY DEF AskFit
<1> USE DEF vars
<1>1. CASE Admit(x)
  <2>1. \A u \in Tasks : Mild(u)
    BY <1>1 DEF Admit, Mild
  <2>2. CASE Ends(x, "backpressure")
    BY <1>1, <2>1, <2>2, EndFits DEF Admit, Replies
  <2>3. CASE Goes(x, "create") /\ UNCHANGED reply
    <3>1. "create" \in Steps \ (OwnSteps \cup Planning)
      BY DEF Steps, Beginning, OwnSteps, Planning, Awaiting, Finalizing
    <3> QED
      BY <1>1, <1>a, <2>1, <2>3, <3>1, MildStepFits DEF Admit, At, AskTypes
  <2> QED
    BY <1>1, <2>2, <2>3 DEF Admit
<1>2. CASE Create(x)
  <2>1. /\ state[t] = NoTask /\ Move(t, "CREATED") /\ Goes(x, "PLANNING")
        /\ UNCHANGED <<task, lease, reply>> /\ step[x] = "create"
    BY <1>2 DEF Create, CreateTask, At
  <2>2. state'[t] = "CREATED" /\ \A u \in Tasks \ {t} : state'[u] = state[u]
    BY <2>1, MoveIsLocal
  <2>3. \A u \in Tasks : Mild(u) \/ Advance(x, u)
    BY <2>1, <2>2 DEF Mild, Advance, Decided, Terminal, NoTask
  <2>4. step'[x] = "PLANNING" /\ "PLANNING" \in Steps
    BY <2>1, <1>a DEF Goes, AskTypes, Steps, Planning, Beginning
  <2>5. Decided(FirstTask[x]) => Decided(FirstTask[x])'
    BY <1>a, <2>3, RequestFacts, MovesKeep
  <2>6. RequestFits(x)'
    BY <1>a, <2>1, <2>2, <2>4, <2>5 DEF RequestFits, Decided
  <2> QED
    BY <1>2, <1>a, <2>1, <2>2, <2>3, <2>4, <2>6, RequestStepFits DEF AskTypes, NoTask
<1>3. CASE CreateDuplicate(x)
  <2>1. (\A u \in Tasks : Mild(u)) /\ state[t] # NoTask /\ step[x] = "create"
    BY <1>3 DEF CreateDuplicate, Mild, At
  <2>2. CASE Ends(x, "duplicate") /\ UNCHANGED task
    BY <1>3, <2>1, <2>2, EndFits DEF CreateDuplicate, Replies
  <2>3. CASE /\ task[x] = FirstTask[x] /\ state[task[x]] \notin InFlightStates
             /\ task' = [task EXCEPT ![x] = AgainTask[x]] /\ Goes(x, "begin") /\ UNCHANGED reply
    <3>1. step'[x] = "begin" /\ "begin" \in Steps
      BY <1>a, <2>3 DEF Goes, AskTypes, Steps
    <3>2. Decided(FirstTask[x])'
      <4>1. state[t] \in TaskStates
        BY <2>1 DEF TypeOK
      <4> QED
        BY <1>3, <1>a, <2>1, <2>3, <4>1
           DEF CreateDuplicate, Decided, InFlightStates, TaskStates, Terminal
    <3>3. RequestFits(x)'
      BY <1>a, <2>1, <2>3, <3>1, <3>2
         DEF RequestFits, OwnSteps, Planning, Awaiting, Finalizing
    <3>4. ~Owns(x)'
      BY <1>a, <2>1, <2>3, <3>1 DEF Owns, RequestFits, OwnSteps, Planning, Awaiting, Finalizing
    <3>5. task' \in [Requests -> Tasks] /\ \A y \in Requests \ {x} : task'[y] = task[y]
      BY <1>a, <2>3, RequestFacts DEF AskTypes
    <3> QED
      BY <1>3, <1>a, <2>1, <2>3, <3>1, <3>3, <3>4, <3>5, MildOpensNone, RequestStepFits
         DEF CreateDuplicate, AskTypes
  <2> QED
    BY <1>3, <2>2, <2>3 DEF CreateDuplicate
<1> QED
  BY <1>1, <1>2, <1>3

LEMMA PlanFits ==
  ASSUME TypeOK, AskFit, NEW x \in Requests, Plan(x)
  PROVE  AskFit' /\ NoneOpens
<1> PICK t \in Tasks : t = task[x]
  BY RequestFacts DEF AskFit
<1>a. AskTypes /\ SoleOwner /\ RequestFits(x)
  BY DEF AskFit
<1> DEFINE next == CASE step[x] = "PLANNING" -> "READY"
                     [] step[x] = "READY" -> "QUEUED"
                     [] step[x] = "QUEUED" -> "claim"
<1>1. /\ step[x] \in Planning /\ Goes(x, next) /\ UNCHANGED <<task, lease, reply>>
      /\ step[x] \in Allowed(state[t]) /\ Move(t, step[x])
  BY DEF Plan, Transition
<1>2. state'[t] = step[x] /\ \A u \in Tasks \ {t} : state'[u] = state[u]
  BY <1>1, MoveIsLocal
<1>3. state[t] \in {"CREATED", "PLANNING", "READY"}
  BY <1>1, <1>a DEF RequestFits, Planning, Allowed
<1>4. Owns(x)
  BY <1>1 DEF Owns, OwnSteps
<1>5. \A u \in Tasks : Mild(u) \/ Advance(x, u)
  BY <1>1, <1>2, <1>3, <1>4 DEF Mild, Advance, Decided, Terminal, NoTask, Planning
<1>6. step'[x] = next /\ next \in Steps
  BY <1>1, <1>a DEF Goes, AskTypes, Steps, Planning, Beginning
<1>7. Decided(FirstTask[x]) => Decided(FirstTask[x])'
  BY <1>a, <1>5, RequestFacts, MovesKeep
<1>8. RequestFits(x)'
  BY <1>a, <1>1, <1>2, <1>6, <1>7 DEF RequestFits, Decided, Planning
<1> HIDE DEF next
<1> QED
  BY OwnerOpensNone, <1>a, <1>1, <1>4, <1>5, <1>6, <1>8, RequestStepFits DEF AskTypes

LEMMA WorkFits ==
  ASSUME TypeOK, AskFit, NEW x \in Requests,
         \/ ClaimTask(x) \/ StartTask(x) \/ ClaimKey(x) \/ WriteCheckpoint(x) \/ Kill(x)
         \/ HandlerReturns(x) \/ JudgeReturns(x) \/ Renew(x)
  PROVE  AskFit' /\ NoneOpens
<1> PICK t \in Tasks : t = task[x]
  BY RequestFacts DEF AskFit
<1> PICK i \in Instances : i = Home[x]
  BY RequestFacts DEF AskFit
<1>a. AskTypes /\ RequestFits(x)
  BY DEF AskFit
<1>b. {"start", "idem", "checkpoint", "handler", "judge", "verifying", "raced", "escalate",
       "commit", "withholding", "fail", "kill"} \subseteq Steps
  BY DEF Steps, Beginning, Awaiting, Finalizing
<1>c. step[x] \in {"claim", "start", "idem", "checkpoint", "handler", "judge"} =>
        step[x] \in OwnSteps /\ state[t] # "COMPLETED"
  BY <1>a DEF RequestFits, OwnSteps, Awaiting
<1>d. \A s : Goes(x, s) => step'[x] = s
  BY <1>a DEF Goes, AskTypes
<1> USE DEF vars
<1>1. ASSUME NEW s \in Steps, Goes(x, s), UNCHANGED <<task, lease, reply, state>>,
             step[x] \in OwnSteps, state[t] # "COMPLETED",
             s \notin Planning \cup {"done", "answering"}
      PROVE  AskFit' /\ NoneOpens
  <2>1. \A u \in Tasks : Mild(u)
    BY <1>1 DEF Mild
  <2>2. step[x] # "done"
    BY <1>1 DEF OwnSteps, Planning, Awaiting, Finalizing
  <2> QED
    BY <1>1, <1>a, <2>1, <2>2, MildStepFits DEF AskTypes
<1>2. CASE ClaimTask(x)
  <2>1. /\ Grant(i, t) /\ state[t] = "QUEUED" /\ Move(t, "LEASED") /\ step[x] = "claim"
        /\ lease' = [lease EXCEPT ![x] = latest'[t]]
        /\ Goes(x, "start") /\ UNCHANGED <<task, reply>>
    BY <1>2 DEF ClaimTask, Claim, At
  <2>2. lease' \in [Requests -> Tokens \cup {NoLease}]
    BY <1>a, <2>1, GrantType DEF AskTypes
  <2>3. (\A u \in Tasks : Mild(u)) /\ state'[t] = "LEASED"
    BY <2>1, MildMove, MoveIsLocal
  <2> QED
    BY <1>b, <1>c, <2>1, <2>2, <2>3, MildStepFits DEF Planning
<1>3. CASE StartTask(x)
  <2>1. /\ state[t] = "LEASED" /\ Move(t, "RUNNING") /\ step[x] = "start"
        /\ Goes(x, "idem") /\ UNCHANGED <<task, lease, reply>>
    BY <1>3 DEF StartTask, Start, At
  <2>2. (\A u \in Tasks : Mild(u)) /\ state'[t] = "RUNNING"
    BY <2>1, MildMove, MoveIsLocal DEF LeasedStates
  <2> QED
    BY <1>a, <1>b, <1>c, <2>1, <2>2, MildStepFits DEF Planning, AskTypes
<1>4. CASE ClaimKey(x)
  BY <1>1, <1>4, <1>b, <1>c DEF ClaimKey, IdempotencyClaim, At, Planning
<1>5. CASE WriteCheckpoint(x)
  <2>1. /\ step[x] = "checkpoint" /\ UNCHANGED <<task, lease, reply, state>>
        /\ Goes(x, "handler") \/ Goes(x, "kill")
    BY <1>5 DEF WriteCheckpoint, Checkpoint, At
  <2> QED
    BY <1>1, <1>b, <1>c, <2>1 DEF Planning
<1>6. CASE Kill(x)
  <2>1. SetTaskKill(i, t) \/ UNCHANGED vars
    BY <1>6 DEF Kill
  <2>2. \A u \in Tasks : Mild(u)
    <3>1. SetTaskKill(i, t) => \A u \in Tasks : Mild(u)
      BY MildMove DEF SetTaskKill
    <3>2. UNCHANGED vars => \A u \in Tasks : Mild(u)
      BY DEF Mild
    <3> QED
      BY <2>1, <3>1, <3>2
  <2> QED
    BY <1>6, <2>2, EndFits DEF Kill, Replies
<1>7. CASE HandlerReturns(x)
  <2>1. /\ step[x] = "handler" /\ UNCHANGED <<task, lease, reply, state>>
        /\ Goes(x, Observed(state[t])) \/ Goes(x, "fail")
    BY <1>7 DEF HandlerReturns, At
  <2>2. Observed(state[t]) \in {"withholding", "verifying", "judge", "escalate"}
    BY DEF Observed
  <2> HIDE DEF vars
  <2> QED
    BY <1>1, <1>b, <1>c, <2>1, <2>2 DEF Planning
<1>8. CASE JudgeReturns(x)
  BY <1>1, <1>8, <1>b, <1>c DEF JudgeReturns, At, Planning
<1>9. CASE Renew(x)
  <2>1. UNCHANGED <<state, step, task, lease, reply>>
    BY <1>9 DEF Renew, ask
  <2> QED
    BY <1>a, <2>1, EnvironmentStepFits DEF Mild, AskTypes
<1> QED
  BY <1>2, <1>3, <1>4, <1>5, <1>6, <1>7, <1>8, <1>9

LEMMA FinalizeFits ==
  ASSUME TypeOK, AskFit, NEW x \in Requests,
         \/ Verifying(x) \/ Raced(x) \/ Commit(x) \/ Escalate(x) \/ Report(x) \/ Fail(x)
         \/ Raise(x)
  PROVE  AskFit' /\ NoneOpens
<1> PICK t \in Tasks : t = task[x]
  BY RequestFacts DEF AskFit
<1> PICK i \in Instances : i = Home[x]
  BY RequestFacts DEF AskFit
<1>a. AskTypes /\ RequestFits(x) /\ SoleOwner
  BY DEF AskFit
<1>b. {"judge", "raced", "escalate", "answering", "withholding", "fail", "kill"} \subseteq Steps
  BY DEF Steps, Beginning, Awaiting, Finalizing
<1>c. step[x] \in {"verifying", "raced", "escalate", "commit", "withholding"} =>
        step[x] \in OwnSteps /\ state[t] # "COMPLETED"
  BY <1>a DEF RequestFits, OwnSteps, Finalizing
<1> USE DEF vars
<1>1. ASSUME NEW s \in Steps, Goes(x, s), UNCHANGED <<task, lease, reply>>,
             \A u \in Tasks : Mild(u), state'[t] # "COMPLETED", step[x] \in OwnSteps,
             s \notin Planning \cup {"done", "answering"}
      PROVE  AskFit' /\ NoneOpens
  <2>1. step[x] # "done"
    BY <1>1 DEF OwnSteps, Planning, Awaiting, Finalizing
  <2> QED
    BY <1>1, <1>a, <2>1, MildStepFits DEF AskTypes
<1>2. ASSUME UNCHANGED vars PROVE (\A u \in Tasks : Mild(u)) /\ state' = state
  BY <1>2 DEF Mild
<1>3. CASE Verifying(x)
  <2>1. CASE Transition(i, t, "VERIFYING", NoLease) /\ Goes(x, "judge")
    <3>1. Move(t, "VERIFYING") /\ "VERIFYING" \in Allowed(state[t])
      BY <2>1 DEF Transition
    <3>2. state[t] \in LeasedStates
      BY <3>1, AllowedFacts
    <3>3. (\A u \in Tasks : Mild(u)) /\ state'[t] = "VERIFYING"
      BY <3>1, <3>2, MildMove, MoveIsLocal
    <3> QED
      BY <1>1, <1>3, <1>b, <1>c, <2>1, <3>3 DEF Verifying, At, Planning
  <2>2. CASE UNCHANGED vars /\ Goes(x, "raced")
    <3> HIDE DEF vars
    <3> QED
      BY <1>1, <1>2, <1>3, <1>b, <1>c, <2>2 DEF Verifying, At, Planning
  <2> QED
    BY <1>3, <2>1, <2>2 DEF Verifying
<1>4. CASE Raced(x)
  <2>1. Goes(x, "withholding") \/ Goes(x, "escalate")
    BY <1>4 DEF Raced
  <2> HIDE DEF vars
  <2> QED
    BY <1>1, <1>2, <1>4, <1>b, <1>c, <2>1 DEF Raced, At, Planning
<1>5. CASE Commit(x)
  <2>1. CASE CommitCompleted(i, t) /\ Goes(x, "answering")
    <3>1. /\ state[t] = "VERIFYING" /\ Move(t, "COMPLETED") /\ step[x] = "commit"
          /\ UNCHANGED <<task, lease, reply>>
      BY <1>5, <2>1 DEF Commit, CommitCompleted, EndAttempt, At
    <3>2. state'[t] = "COMPLETED" /\ \A u \in Tasks \ {t} : state'[u] = state[u]
      BY <3>1, MoveIsLocal
    <3>3. Owns(x)
      BY <3>1 DEF Owns, OwnSteps, Finalizing
    <3>4. \A u \in Tasks : Mild(u) \/ Advance(x, u)
      BY <3>1, <3>2, <3>3 DEF Mild, Advance, Decided, Terminal, NoTask
    <3>5. step'[x] = "answering"
      BY <1>a, <2>1 DEF Goes, AskTypes
    <3>6. Decided(FirstTask[x]) => Decided(FirstTask[x])'
      BY <1>a, <3>4, RequestFacts, MovesKeep
    <3>7. RequestFits(x)'
      BY <1>a, <3>1, <3>2, <3>5, <3>6 DEF RequestFits, Decided
    <3> QED
      BY <1>a, <1>b, <2>1, <3>1, <3>3, <3>4, <3>7, OwnerOpensNone, RequestStepFits DEF AskTypes
  <2>2. CASE UNCHANGED vars /\ Goes(x, "raced")
    <3> HIDE DEF vars
    <3> QED
      BY <1>1, <1>2, <1>5, <1>b, <1>c, <2>2 DEF Commit, At, Planning
  <2> QED
    BY <1>5, <2>1, <2>2 DEF Commit
<1>6. CASE Escalate(x)
  <2>1. step[x] = "escalate" /\ Goes(x, "withholding") /\ UNCHANGED <<task, lease, reply>>
    BY <1>6 DEF Escalate, At
  <2>2. CASE Transition(i, t, "HUMAN_REVIEW", NoLease)
    <3>1. Move(t, "HUMAN_REVIEW") /\ "HUMAN_REVIEW" \in Allowed(state[t])
      BY <2>2 DEF Transition
    <3>2. state[t] \in {"UNKNOWN", "RECOVERING", "RECONCILING"} \cup LeasedStates
      BY <3>1 DEF Allowed, LeasedStates
    <3>3. (\A u \in Tasks : Mild(u)) /\ state'[t] = "HUMAN_REVIEW"
      BY <3>1, <3>2, MildMove, MoveIsLocal
    <3> QED
      BY <1>1, <1>b, <1>c, <2>1, <3>3 DEF Planning
  <2>3. CASE UNCHANGED vars
    <3> HIDE DEF vars
    <3> QED
      BY <1>1, <1>2, <1>b, <1>c, <2>1, <2>3 DEF Planning
  <2> QED
    BY <1>6, <2>2, <2>3 DEF Escalate
<1>7. CASE Report(x)
  <2>1. /\ UNCHANGED <<vars, task, lease>>
        /\ \/ step[x] = "answering" /\ Ends(x, "answered")
           \/ step[x] = "withholding" /\ Ends(x, "withheld")
    BY <1>7 DEF Report, At
  <2>2. state' = state /\ \A u \in Tasks : Mild(u)
    BY <2>1 DEF Mild
  <2>3. /\ step[x] = "answering" => step[x] \in OwnSteps /\ state[t] = "COMPLETED"
        /\ "answered" \in Replies /\ "withheld" \in Replies
    BY <1>a DEF RequestFits, OwnSteps, Finalizing, Replies
  <2> HIDE DEF vars
  <2> QED
    BY <1>c, <2>1, <2>2, <2>3, EndFits
<1>8. CASE Fail(x)
  <2>1. \A u \in Tasks : Mild(u)
    <3>1. CommitFailed(i, t, "terminal") => Move(t, "FAILED") /\ state[t] \in LeasedStates
      BY DEF CommitFailed, EndAttempt, AfterFailure
    <3>2. CommitFailed(i, t, "terminal") => \A u \in Tasks : Mild(u)
      BY <3>1, MildMove
    <3> QED
      BY <1>2, <1>8, <3>2 DEF Fail
  <2> QED
    BY <1>8, <2>1, EndFits DEF Fail, Replies
<1>9. CASE Raise(x)
  <2>1. /\ UNCHANGED <<state, task, lease, reply>>
        /\ step[x] \in (Beginning \ {"kill"}) \cup (Finalizing \ {"fail"})
        /\ Goes(x, IF step[x] \in Beginning THEN "kill" ELSE "fail")
    BY <1>9 DEF Raise, CommitRaises
  <2>2. \A u \in Tasks : Mild(u)
    BY <2>1 DEF Mild
  <2>3. PICK s \in {"kill", "fail"} : Goes(x, s) /\ (s = "fail" => step[x] \in Finalizing)
    BY <2>1
  <2>4. /\ s \in Steps /\ s \notin Planning \cup {"done", "answering"}
        /\ s \in OwnSteps => step[x] \in OwnSteps
        /\ s \notin OwnSteps \ {"answering", "fail"}
        /\ step[x] # "done"
    BY <1>b, <2>1, <2>3 DEF OwnSteps, Planning, Awaiting, Finalizing, Beginning
  <2> QED
    BY <1>a, <2>1, <2>2, <2>3, <2>4, MildStepFits DEF AskTypes
<1> QED
  BY <1>3, <1>4, <1>5, <1>6, <1>7, <1>8, <1>9

-----------------------------------------------------------------------------
(* Every step. *)

LEMMA EnvironmentFits ==
  ASSUME TypeOK, AskFit,
         \/ Time
         \/ \E i \in Instances : ProcessDies(i) \/ ExpiryTick(i)
         \/ \E i \in Instances, stale \in SUBSET Tasks : OrphanTick(i, stale)
  PROVE  AskFit' /\ NoneOpens
<1>a. AskTypes
  BY DEF AskFit
<1> USE DEF ask
<1>1. CASE Time
  <2>1. UNCHANGED <<state, step, task, lease, reply>>
    BY <1>1 DEF Time, Tick
  <2> QED
    BY <1>a, <2>1, EnvironmentStepFits DEF Mild, AskTypes
<1>2. ASSUME NEW i \in Instances, ProcessDies(i) PROVE AskFit' /\ NoneOpens
  <2>1. /\ UNCHANGED <<state, task, lease, reply>>
        /\ step' \in [Requests -> Steps]
        /\ \A y \in Requests : step'[y] = step[y] \/ (step'[y] = "dead" /\ step[y] # "done")
    BY <1>2, <1>a DEF ProcessDies, AskTypes, Steps
  <2> QED
    BY <2>1, EnvironmentStepFits DEF Mild
<1>3. ASSUME NEW i \in Instances, ExpiryTick(i) PROVE AskFit' /\ NoneOpens
  <2>1. ExpireLeases(i) /\ UNCHANGED <<step, task, lease, reply>>
    BY <1>3 DEF ExpiryTick
  <2>2. ASSUME NEW u \in Tasks PROVE Mild(u)
    <3>1. state'[u] = state[u] \/ state'[u] = AfterExpiry(state[u])
      BY <2>1 DEF ExpireLeases
    <3> QED
      BY <3>1 DEF Mild, AfterExpiry, Terminal, NoTask
  <2> QED
    BY <1>a, <2>1, <2>2, EnvironmentStepFits DEF AskTypes
<1>4. ASSUME NEW i \in Instances, NEW stale \in SUBSET Tasks, OrphanTick(i, stale)
      PROVE  AskFit' /\ NoneOpens
  <2>1. AutoReconcile(i, stale) /\ UNCHANGED <<step, task, lease, reply>>
    BY <1>4 DEF OrphanTick
  <2>2. ASSUME NEW u \in Tasks PROVE Mild(u)
    <3>1. state'[u] = state[u] \/ (state[u] \in Sweepable /\ state'[u] = "RECONCILING")
      BY <2>1 DEF AutoReconcile, Orphan
    <3> QED
      BY <3>1 DEF Mild, Sweepable, Terminal, NoTask
  <2> QED
    BY <1>a, <2>1, <2>2, EnvironmentStepFits DEF AskTypes
<1> QED
  BY <1>1, <1>2, <1>3, <1>4

LEMMA AskStepFits ==
  ASSUME TypeOK, AskFit, [AskNext]_avars
  PROVE  AskFit' /\ (NoneOpens \/ \E x \in Requests : Create(x))
<1>1. ASSUME NEW x \in Requests, RequestStep(x)
      PROVE  AskFit' /\ (NoneOpens \/ Create(x))
  BY <1>1, BeginFits, PlanFits, WorkFits, FinalizeFits DEF RequestStep
<1>2. CASE UNCHANGED avars
  <2>1. UNCHANGED <<state, step, task, lease, reply>>
    BY <1>2 DEF avars, vars
  <2> QED
    BY <2>1, EnvironmentStepFits DEF Mild, AskFit, AskTypes
<1> QED
  BY <1>1, <1>2, EnvironmentFits DEF AskNext

-----------------------------------------------------------------------------
(* Admission. *)

\* Only an admitted request comes between the count and the creation.
LEMMA CreatingSteps ==
  ASSUME AskTypes, [AskNext]_avars
  PROVE  \/ \E x \in Requests : Admit(x)
         \/ \A y \in Requests : step'[y] = "create" => step[y] = "create"
<1>1. ASSUME NEW x \in Requests, NEW s, Goes(x, s), s # "create"
      PROVE  \A y \in Requests : step'[y] = "create" => step[y] = "create"
  BY <1>1 DEF Goes, AskTypes
<1>2. ASSUME NEW x \in Requests, RequestStep(x), ~Admit(x)
      PROVE  \A y \in Requests : step'[y] = "create" => step[y] = "create"
  <2>1. CASE Renew(x)
    BY <2>1 DEF Renew, ask
  <2>2. CASE Plan(x)
    BY <1>1, <2>2 DEF Plan, Planning
  <2>3. CASE HandlerReturns(x)
    BY <1>1, <2>3 DEF HandlerReturns, Observed
  <2>4. CASE \/ Create(x) \/ CreateDuplicate(x) \/ ClaimTask(x) \/ StartTask(x) \/ ClaimKey(x)
             \/ WriteCheckpoint(x) \/ Kill(x) \/ JudgeReturns(x)
    BY <1>1, <2>4 DEF Create, CreateDuplicate, ClaimTask, StartTask, ClaimKey,
       WriteCheckpoint, Kill, JudgeReturns, Ends
  <2>5. CASE \/ Verifying(x) \/ Raced(x) \/ Commit(x) \/ Escalate(x) \/ Report(x) \/ Fail(x)
             \/ Raise(x)
    BY <1>1, <2>5 DEF Verifying, Raced, Commit, Escalate, Report, Fail, Raise, Ends
  <2> QED
    BY <1>2, <2>1, <2>2, <2>3, <2>4, <2>5 DEF RequestStep
<1>3. CASE UNCHANGED avars
  BY <1>3 DEF avars
<1>4. ASSUME NEW i \in Instances, ProcessDies(i)
      PROVE  \A y \in Requests : step'[y] = "create" => step[y] = "create"
  BY <1>4 DEF ProcessDies
<1>5. CASE \/ Time \/ \E i \in Instances : ExpiryTick(i)
           \/ \E i \in Instances, stale \in SUBSET Tasks : OrphanTick(i, stale)
  BY <1>5 DEF Time, ExpiryTick, OrphanTick, ask
<1> QED
  BY <1>2, <1>3, <1>4, <1>5 DEF AskNext

\* A process counts and creates without yielding: its loop has one such request.
LEMMA OneCreatingKept ==
  ASSUME AskTypes, OneCreating, [AskNext]_avars
  PROVE  OneCreating'
<1>1. CASE \A y \in Requests : step'[y] = "create" => step[y] = "create"
  BY <1>1 DEF OneCreating
<1>2. ASSUME NEW x \in Requests, Admit(x) PROVE OneCreating'
  <2>1. \A y \in Requests \ {x} : Home[y] = Home[x] => step[y] # "create"
    BY <1>2 DEF Admit, At, LoopFree, Beginning
  <2>2. \A y \in Requests \ {x} : step'[y] = step[y]
    BY <1>2 DEF Admit, Ends, Goes, AskTypes
  <2> QED
    BY <2>1, <2>2 DEF OneCreating
<1> QED
  BY <1>1, <1>2, CreatingSteps

CreatingBounded ==
  IsFiniteSet(Creating) /\ Cardinality(Creating) <= Cardinality(Instances)

LEMMA OneToAProcess == OneCreating => CreatingBounded
<1> SUFFICES ASSUME OneCreating PROVE CreatingBounded
  OBVIOUS
<1> DEFINE home == [x \in Creating |-> Home[x]]
<1>1. home \in [Creating -> Instances]
  BY AskAssumption DEF AskAssumption, Creating
<1>2. \A x, y \in Creating : home[x] = home[y] => x = y
  BY DEF OneCreating, Creating
<1> HIDE DEF home
<1>3. home \in Injection(Creating, Instances)
  BY <1>1, <1>2 DEF Injection, IsInjective
<1>4. IsFiniteSet(Instances)
  BY AskAssumption DEF AskAssumption
<1> QED
  BY <1>3, <1>4, FS_Injection DEF CreatingBounded

LEMMA FewInFlight ==
  /\ IsFiniteSet(InFlightTasks) /\ Cardinality(InFlightTasks) \in Nat
  /\ IsFiniteSet(InFlightTasks') /\ Cardinality(InFlightTasks') \in Nat
<1>1. IsFiniteSet(Tasks) /\ InFlightTasks \subseteq Tasks /\ InFlightTasks' \subseteq Tasks
  BY KernelAssumption DEF KernelAssumption, InFlightTasks
<1> QED
  BY <1>1, FS_Subset, FS_CardinalityType

\* A request that is counted in leaves a place free for itself, and the requests of
\* the other processes that were counted in beside it take one each at most.
LEMMA AdmissionKept ==
  ASSUME TypeOK, AskFit, OneCreating, Admission, OneCreating', [AskNext]_avars
  PROVE  Admission'
<1>a. AskTypes
  BY DEF AskFit
<1>b. /\ IsFiniteSet(Creating) /\ Cardinality(Creating) \in Nat
      /\ IsFiniteSet(Creating') /\ Cardinality(Creating') \in Nat
      /\ Cardinality(Creating') <= Cardinality(Instances)
  <2>1. CreatingBounded /\ CreatingBounded'
    BY OneToAProcess, PTL
  <2> QED
    BY <2>1, FS_CardinalityType DEF CreatingBounded
<1>c. MaxInflight \in Nat /\ Cardinality(Instances) \in Nat
  BY AskAssumption, FS_CardinalityType DEF AskAssumption
<1>1. CASE NoneOpens /\ \A y \in Requests : step'[y] = "create" => step[y] = "create"
  <2>1. InFlightTasks' \subseteq InFlightTasks
    BY <1>1 DEF NoneOpens, Opens, InFlightTasks
  <2>2. Creating' \subseteq Creating
    BY <1>1 DEF Creating
  <2>3. /\ Cardinality(InFlightTasks') <= Cardinality(InFlightTasks)
        /\ Cardinality(Creating') <= Cardinality(Creating)
    BY <2>1, <2>2, <1>b, FewInFlight, FS_Subset
  <2> QED
    BY <2>3, <1>b, <1>c, FewInFlight DEF Admission
<1>2. ASSUME NEW x \in Requests, Create(x) PROVE Admission'
  <2> PICK t \in Tasks : t = task[x]
    BY <1>a, RequestFacts
  <2>1. step[x] = "create" /\ Goes(x, "PLANNING") /\ Move(t, "CREATED")
    BY <1>2 DEF Create, CreateTask, At
  <2>2. InFlightTasks' \subseteq InFlightTasks \cup {t}
    <3>1. \A u \in Tasks \ {t} : state'[u] = state[u]
      BY <2>1, MoveIsLocal
    <3> QED
      BY <3>1 DEF InFlightTasks
  <2>3. x \in Creating /\ Creating' \subseteq Creating \ {x}
    BY <2>1, <1>a DEF Creating, Goes, AskTypes
  <2>4. Cardinality(InFlightTasks') <= Cardinality(InFlightTasks) + 1
    <3>1. /\ IsFiniteSet(InFlightTasks \cup {t})
          /\ Cardinality(InFlightTasks \cup {t}) <= Cardinality(InFlightTasks) + 1
      BY FewInFlight, FS_AddElement
    <3>2. Cardinality(InFlightTasks') <= Cardinality(InFlightTasks \cup {t})
      BY <2>2, <3>1, FS_Subset
    <3>3. Cardinality(InFlightTasks \cup {t}) \in Nat
      BY <3>1, FS_CardinalityType
    <3> QED
      BY <3>1, <3>2, <3>3, FewInFlight
  <2>5. Cardinality(Creating') <= Cardinality(Creating) - 1
    <3>1. /\ IsFiniteSet(Creating \ {x})
          /\ Cardinality(Creating \ {x}) = Cardinality(Creating) - 1
      BY <1>b, <2>3, FS_RemoveElement
    <3> QED
      BY <2>3, <3>1, FS_Subset
  <2> QED
    BY <2>4, <2>5, <1>b, <1>c, FewInFlight DEF Admission
<1>3. ASSUME NEW x \in Requests, Admit(x) PROVE Admission'
  <2>1. UNCHANGED state
    BY <1>3 DEF Admit, vars
  <2>2. CASE Ends(x, "backpressure")
    <3>1. \A y \in Requests : step'[y] = "create" => step[y] = "create"
      BY <2>2, <1>a DEF Ends, Goes, AskTypes
    <3> QED
      BY <1>1, <2>1, <3>1 DEF NoneOpens, Opens
  <2>3. CASE InFlight < MaxInflight
    <3>1. Cardinality(InFlightTasks) < MaxInflight
      BY <2>3 DEF InFlight, InFlightTasks
    <3>2. InFlightTasks' = InFlightTasks
      BY <2>1 DEF InFlightTasks
    <3>3. Cardinality(InFlightTasks') + Cardinality(Creating')
            <= MaxInflight + Cardinality(Instances) - 1
      BY <3>1, <3>2, <1>b, <1>c, FewInFlight
    <3> QED
      BY <3>3 DEF Admission
  <2>4. Ends(x, "backpressure") \/ InFlight < MaxInflight
    <3>1. InFlight \in Nat
      BY FewInFlight DEF InFlight, InFlightTasks
    <3> QED
      BY <1>3, <3>1, <1>c DEF Admit
  <2> QED
    BY <2>2, <2>3, <2>4
<1> QED
  BY <1>1, <1>2, <1>3, <1>a, CreatingSteps, AskStepFits

-----------------------------------------------------------------------------
(* What the invariant says about the adapter. *)

LEMMA AskInitFits == AskInit => AInv
<1> SUFFICES ASSUME AskInit PROVE AInv
  OBVIOUS
<1>1. IInv
  BY InitFit DEF AskInit
<1>2. AskFit
  BY AskAssumption DEF AskInit, Init, AskFit, AskAssumption, AskTypes, SoleOwner, Owns,
     RequestFits, OwnSteps, Planning, Awaiting, Finalizing, Steps, Replies, NoTask
<1>3. Creating = {} /\ InFlightTasks = {} /\ OneCreating
  BY DEF AskInit, Init, Creating, InFlightTasks, OneCreating
<1>4. Admission
  <2>1. Cardinality(Creating) = 0 /\ Cardinality(InFlightTasks) = 0
    BY <1>3, FS_EmptySet
  <2>2. MaxInflight \in Nat \ {0} /\ Cardinality(Instances) \in Nat
    BY AskAssumption, FS_CardinalityType DEF AskAssumption
  <2> QED
    BY <2>1, <2>2 DEF Admission
<1> QED
  BY <1>1, <1>2, <1>3, <1>4 DEF AInv

LEMMA AskNextFits == AInv /\ [AskNext]_avars => AInv'
<1> SUFFICES ASSUME AInv, [AskNext]_avars PROVE AInv'
  OBVIOUS
<1>1. IInv /\ TypeOK /\ AskFit /\ AskTypes /\ OneCreating /\ Admission
  BY DEF AInv, IInv, Sound, AskFit
<1>2. IInv'
  BY <1>1, AskKernelStep, AskKeepsKernel
<1>3. AskFit' /\ OneCreating'
  BY <1>1, AskStepFits, OneCreatingKept
<1> QED
  BY <1>1, <1>2, <1>3, AdmissionKept DEF AInv

\* The invariant holds initially, and every step of a request, a watchdog or the
\* environment keeps it.
THEOREM AskInvariance == AskSpec => []AInv
BY AskInitFits, AskNextFits, PTL DEF AskSpec

\* Every variable of the adapter and the kernel under it keeps its type.
THEOREM AskTypeCorrect == AskSpec => []AskTypeOK
<1>1. AInv => AskTypeOK
  BY DEF AInv, IInv, Sound, AskFit, AskTypes, AskTypeOK
<1> QED
  BY <1>1, AskInvariance, PTL

\* A released answer is that of a completed task, and no completed task's answer was
\* withheld, for any interleaving of finalize() with watchdogs and other requests.
THEOREM AnswersMatchRecord == AskSpec => []AnswerMatchesRecord
<1>1. AInv => AnswerMatchesRecord
  BY DEF AInv, AskFit, RequestFits, AnswerMatchesRecord
<1> QED
  BY <1>1, AskInvariance, PTL

\* A question is handled again only after a decision on it, and no task is handled for
\* two requests.
THEOREM RepeatsAreDecided == AskSpec => []RepeatOnlyAfterDecision
<1>1. AInv => RepeatOnlyAfterDecision
  BY DEF AInv, AskFit, SoleOwner, Owns, OwnSteps, RequestFits, Decided, RepeatOnlyAfterDecision
<1> QED
  BY <1>1, AskInvariance, PTL

\* The tasks in flight exceed the admission cap by at most one for every further
\* process, however many requests race for the last place.
THEOREM InFlightStaysBounded == AskSpec => []InFlightBound
<1>1. AInv => InFlightBound
  <2> SUFFICES ASSUME AInv PROVE InFlightBound
    OBVIOUS
  <2>1. Cardinality(Creating) \in Nat
    BY OneToAProcess, FS_CardinalityType DEF AInv, CreatingBounded
  <2>2. MaxInflight \in Nat /\ Cardinality(Instances) \in Nat
    BY AskAssumption, FS_CardinalityType DEF AskAssumption
  <2>3. InFlight = Cardinality(InFlightTasks)
    BY DEF InFlight, InFlightTasks
  <2> QED
    BY <2>1, <2>2, <2>3, FewInFlight DEF AInv, Admission, InFlightBound
<1> QED
  BY <1>1, AskInvariance, PTL

\* Under the adapter too a task has one live attempt and one instance that may write,
\* and the tasks row is what the journal replays to, although a heartbeat renews
\* leases its instance is no longer bound to.
THEOREM AskKeepsAuthority ==
  AskSpec => [](OneLiveAttempt /\ ExclusiveAuthority /\ ProjectionIsReplay)
<1>1. AInv => OneLiveAttempt /\ ExclusiveAuthority /\ ProjectionIsReplay
  BY InvariantMeans DEF AInv
<1> QED
  BY <1>1, AskInvariance, PTL

\* A renewal is nothing ExecutionAuthority can see.
LEMMA RenewalUnseen ==
  ASSUME Sound, Renewal
  PROVE  UNCHANGED Authority!avars
<1>1. PICK t \in Tasks, l \in Tokens \cup {NoLease} : Extend(t, l) /\ UNCHANGED <<state, latest>>
  BY DEF Renewal
<1>2. \A u \in Tasks : held'[u] = {} <=> held[u] = {}
  <2> DEFINE extended(r) == IF r.token = l THEN [r EXCEPT !.ttl = TTL] ELSE r
  <2>1. held' = [held EXCEPT ![t] = {extended(r) : r \in held[t]}]
    BY <1>1 DEF Extend
  <2> HIDE DEF extended
  <2>2. {extended(r) : r \in held[t]} = {} <=> held[t] = {}
    OBVIOUS
  <2>3. held \in [Tasks -> SUBSET LeaseRows]
    BY DEF Sound, TypeOK
  <2> QED
    BY <2>1, <2>2, <2>3
<1>3. \A u \in Tasks : Phase(u)' = Phase(u)
  BY <1>1, <1>2 DEF Phase
<1> DEFINE phase == [u \in Tasks |-> Phase(u)]
<1>4. phase' = phase
  BY <1>3
<1> QED
  BY <1>1, <1>4 DEF Authority!avars

\* The leases under the adapter are the attempts of ExecutionAuthority.
THEOREM AskImplementsAuthority == AskSpec => ImplementsAuthority
<1>1. AskInit => Authority!AInit
  BY InitAuthority DEF AskInit
<1>2. AInv /\ AInv' /\ [AskNext]_avars => [Authority!ANext]_(Authority!avars)
  <2> SUFFICES ASSUME AInv, AInv', [AskNext]_avars
               PROVE  [Authority!ANext]_(Authority!avars)
    OBVIOUS
  <2>1. Sound /\ TypeOK /\ TypeOK' /\ AskTypes
    BY DEF AInv, IInv, Sound, AskFit
  <2> QED
    BY <2>1, AskKernelStep, StepAuthority, RenewalUnseen DEF KernelOrRenewal
<1> QED
  BY <1>1, <1>2, AskInvariance, PTL DEF AskSpec, ImplementsAuthority, Authority!ASpec
=============================================================================
