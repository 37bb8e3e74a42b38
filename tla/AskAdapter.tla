------------------------------ MODULE AskAdapter ------------------------------
(***************************************************************************)
(* Questions under the task kernel (src/scp/ask_kernel_adapter.py):        *)
(* run_rag() admits a request, creates, claims and starts its task, awaits *)
(* the handler and then the judge while a heartbeat renews the lease, and  *)
(* releases the answer only if the task could be completed.                *)
(*                                                                         *)
(* The requests of a process run on one event loop and yield to each other *)
(* only while a handler or a judge is awaited; the two kernel watchdogs    *)
(* are threads of the process working through the same kernel object, so   *)
(* they interleave at every transaction and drop its bindings.             *)
(***************************************************************************)
EXTENDS TaskKernelSafety

CONSTANTS
  Requests,   \* questions asked
  FirstTask,  \* the task of each: the hash of its scope, question and evidence
  AgainTask,  \* the uniquified task of a question asked again
  Home,       \* the process, with its kernel instance, of each
  MaxInflight \* SCP_ASK_MAX_INFLIGHT

ASSUME AskAssumption ==
  /\ FirstTask \in [Requests -> Tasks]
  /\ AgainTask \in [Requests -> Tasks]
  /\ Home \in [Requests -> Instances]
  /\ IsFiniteSet(Instances)
  /\ MaxInflight \in Nat \ {0}

VARIABLES
  step,  \* where each request is
  task,  \* its task id
  lease, \* its lease_id
  reply  \* what it was answered

ask == <<step, task, lease, reply>>
avars == <<vars, step, task, lease, reply>>

Planning == {"PLANNING", "READY", "QUEUED"}
Beginning == {"create", "claim", "start", "idem", "checkpoint", "kill"} \cup Planning
Awaiting == {"handler", "judge"}
Finalizing == {"verifying", "raced", "escalate", "commit", "answering",
               "withholding", "fail"}
Steps == {"begin", "done", "dead"} \cup Beginning \cup Awaiting \cup Finalizing
Replies == {"none", "backpressure", "duplicate", "blocked", "answered",
            "withheld", "error"}

\* Faulty: a task whose lease ran out is taken for decided.
InFlightExceptRecovering ==
  {"CREATED", "PLANNING", "READY", "QUEUED", "LEASED", "RUNNING", "WAITING_TOOL",
   "VERIFYING", "CHECKPOINTED", "UNKNOWN", "RECONCILING", "RETRY_SCHEDULED"}

\* _IN_FLIGHT_STATES: a repeated question with a task in one of them is a
\* transport retry; with a task in any other it is a new question.
InFlightStates ==
  {"CREATED", "PLANNING", "READY", "QUEUED", "LEASED", "RUNNING", "WAITING_TOOL",
   "VERIFYING", "CHECKPOINTED", "UNKNOWN", "RECOVERING", "RECONCILING",
   "RETRY_SCHEDULED"}

AskInit ==
  /\ Init
  /\ step = [x \in Requests |-> "begin"]
  /\ task = FirstTask
  /\ lease = [x \in Requests |-> NoLease]
  /\ reply = [x \in Requests |-> "none"]

LoopFree(i, x) ==
  \A y \in Requests \ {x} : Home[y] = i => step[y] \notin Beginning \cup Finalizing

At(x, s) == step[x] = s /\ LoopFree(Home[x], x)
Goes(x, s) == step' = [step EXCEPT ![x] = s]
Ends(x, r) == Goes(x, "done") /\ reply' = [reply EXCEPT ![x] = r]
OwnLease(x) == lease[x] = bound[Home[x]][task[x]]

-----------------------------------------------------------------------------
(* begin() *)

\* in_flight_count()
InFlight == Cardinality({t \in Tasks : state[t] \notin Terminal \cup {NoTask}})

\* Faulty: off by one.
AdmitAtCap(x) ==
  /\ At(x, "begin")
  /\ IF InFlight > MaxInflight
       THEN Ends(x, "backpressure")
       ELSE Goes(x, "create") /\ UNCHANGED reply
  /\ UNCHANGED <<vars, task, lease>>

Admit(x) ==
  /\ At(x, "begin")
  /\ IF InFlight >= MaxInflight
       THEN Ends(x, "backpressure")
       ELSE Goes(x, "create") /\ UNCHANGED reply
  /\ UNCHANGED <<vars, task, lease>>

Create(x) ==
  /\ At(x, "create")
  /\ CreateTask(task[x])
  /\ Goes(x, "PLANNING")
  /\ UNCHANGED <<task, lease, reply>>

\* create_task() finds the id taken: begin() starts over, once, with a fresh id
\* if the earlier task is decided, and refuses otherwise.
CreateDuplicate(x) ==
  /\ At(x, "create")
  /\ state[task[x]] # NoTask
  /\ \/ /\ task[x] = FirstTask[x]
        /\ state[task[x]] \notin InFlightStates
        /\ task' = [task EXCEPT ![x] = AgainTask[x]]
        /\ Goes(x, "begin")
        /\ UNCHANGED reply
     \/ /\ task[x] = FirstTask[x] => state[task[x]] \in InFlightStates
        /\ Ends(x, "duplicate")
        /\ UNCHANGED task
  /\ UNCHANGED <<vars, lease>>

Plan(x) ==
  /\ step[x] \in Planning
  /\ At(x, step[x])
  /\ Transition(Home[x], task[x], step[x], NoLease)
  /\ Goes(x, CASE step[x] = "PLANNING" -> "READY"
               [] step[x] = "READY" -> "QUEUED"
               [] step[x] = "QUEUED" -> "claim")
  /\ UNCHANGED <<task, lease, reply>>

ClaimTask(x) ==
  /\ At(x, "claim")
  /\ Claim(Home[x], task[x])
  /\ lease' = [lease EXCEPT ![x] = latest'[task[x]]]
  /\ Goes(x, "start")
  /\ UNCHANGED <<task, reply>>

StartTask(x) ==
  /\ At(x, "start")
  /\ OwnLease(x)
  /\ Start(Home[x], task[x])
  /\ Goes(x, "idem")
  /\ UNCHANGED <<task, lease, reply>>

\* A new task's key is free; claimed by another it would raise.
ClaimKey(x) ==
  /\ At(x, "idem")
  /\ IdempotencyClaim(Home[x], task[x])
  /\ Goes(x, "checkpoint")
  /\ UNCHANGED <<task, lease, reply>>

\* The checkpoint, and the trace entry after it, which may raise.
WriteCheckpoint(x) ==
  /\ At(x, "checkpoint")
  /\ OwnLease(x)
  /\ Checkpoint(Home[x], task[x])
  /\ Goes(x, "handler") \/ Goes(x, "kill")
  /\ UNCHANGED <<task, lease, reply>>

\* The handler of exceptions in begin(): a task that has not ended is cancelled,
\* if the database lets it. After a create_task() that raised for another reason
\* than a duplicate, it may be the task of an earlier request.
Kill(x) ==
  /\ At(x, "kill")
  /\ \/ SetTaskKill(Home[x], task[x])
     \/ UNCHANGED vars
  /\ Ends(x, "blocked")
  /\ UNCHANGED <<task, lease>>

-----------------------------------------------------------------------------
(* The handler and the judge, external; and the heartbeat beside them. *)

\* What finalize() does, by the state it reads first.
Observed(s) ==
  CASE s \in Terminal -> "withholding"
    [] s = "RUNNING" -> "verifying"
    [] s = "VERIFYING" -> "judge"
    [] OTHER -> "escalate"

HandlerReturns(x) ==
  /\ At(x, "handler")
  /\ Goes(x, Observed(state[task[x]])) \/ Goes(x, "fail")
  /\ UNCHANGED <<vars, task, lease, reply>>

JudgeReturns(x) ==
  /\ At(x, "judge")
  /\ \E s \in {"commit", "escalate", "fail"} : Goes(x, s)
  /\ UNCHANGED <<vars, task, lease, reply>>

\* _lease_heartbeat() and renew_lease(), which looks at the lease presented and
\* not at the instance's bindings. Stopping is never renewing again.
Renew(x) ==
  /\ step[x] \in Awaiting
  /\ At(x, step[x])
  /\ active[task[x]] = lease[x]
  /\ LeaseValid(task[x], lease[x])
  /\ state[task[x]] \in Renewable
  /\ Extend(task[x], lease[x])
  /\ UNCHANGED <<control, state, active, latest, attempts, journal, effects,
                 late, accounts, bound, ask>>

-----------------------------------------------------------------------------
(* finalize() and fail() *)

\* transition() without a lease_id. It raises InvalidTransition if the task has
\* moved, or by a veto of the WHY gate.
Verifying(x) ==
  /\ At(x, "verifying")
  /\ \/ /\ Transition(Home[x], task[x], "VERIFYING", NoLease)
        /\ Goes(x, "judge")
     \/ /\ Goes(x, "raced")
        /\ UNCHANGED vars
  /\ UNCHANGED <<task, lease, reply>>

\* The state is read again to say what the race was lost to.
Raced(x) ==
  /\ At(x, "raced")
  /\ Goes(x, IF state[task[x]] \in Terminal THEN "withholding" ELSE "escalate")
  /\ UNCHANGED <<vars, task, lease, reply>>

\* Faulty: a verified answer is released although its commit was refused.
CommitOrAnswer(x) ==
  /\ At(x, "commit")
  /\ \/ OwnLease(x) /\ CommitCompleted(Home[x], task[x])
     \/ UNCHANGED vars
  /\ Goes(x, "answering")
  /\ UNCHANGED <<task, lease, reply>>

\* commit_verification_result(), or the KernelError it raises: the lease or the
\* state has changed, the receipt is not accepted.
Commit(x) ==
  /\ At(x, "commit")
  /\ \/ /\ OwnLease(x)
        /\ CommitCompleted(Home[x], task[x])
        /\ Goes(x, "answering")
     \/ /\ Goes(x, "raced")
        /\ UNCHANGED vars
  /\ UNCHANGED <<task, lease, reply>>

\* _escalate_to_human_review(): nothing more to do for a task that is decided, and
\* a refused transition is swallowed.
Escalate(x) ==
  /\ At(x, "escalate")
  /\ \/ Transition(Home[x], task[x], "HUMAN_REVIEW", NoLease)
     \/ /\ \/ "HUMAN_REVIEW" \notin Allowed(state[task[x]])
           \/ ~LeaseGate(Home[x], task[x], bound[Home[x]][task[x]])
        /\ UNCHANGED vars
  /\ Goes(x, "withholding")
  /\ UNCHANGED <<task, lease, reply>>

\* The trace entry, and the answer.
Report(x) ==
  /\ \/ At(x, "answering") /\ Ends(x, "answered")
     \/ At(x, "withholding") /\ Ends(x, "withheld")
  /\ UNCHANGED <<vars, task, lease>>

\* fail(): its own exceptions are swallowed.
Fail(x) ==
  /\ At(x, "fail")
  /\ \/ OwnLease(x) /\ CommitFailed(Home[x], task[x], "terminal")
     \/ UNCHANGED vars
  /\ Ends(x, "error")
  /\ UNCHANGED <<task, lease>>

\* An exception: a refused or busy database, a trace that cannot be written, a
\* receipt that cannot be signed.
Raise(x) ==
  /\ step[x] \in (Beginning \ {"kill"}) \cup (Finalizing \ {"fail"})
  /\ At(x, step[x])
  /\ \/ UNCHANGED vars
     \/ step[x] \in {"commit", "escalate"} /\ CommitRaises(Home[x], task[x])
  /\ Goes(x, IF step[x] \in Beginning THEN "kill" ELSE "fail")
  /\ UNCHANGED <<task, lease, reply>>

-----------------------------------------------------------------------------
(* The environment. *)

\* The process of instance i dies and is started again.
ProcessDies(i) ==
  LET lost == {x \in Requests : Home[x] = i /\ step[x] \notin {"begin", "done", "dead"}} IN
  /\ lost # {}
  /\ Unbind(i, Tasks)
  /\ step' = [x \in Requests |-> IF x \in lost THEN "dead" ELSE step[x]]
  /\ UNCHANGED <<control, state, leases, attempts, journal, effects, late,
                 accounts, task, lease, reply>>

\* kernel_lease_expiry and kernel_orphan_reconcile, threads of every process.
ExpiryTick(i) == ExpireLeases(i) /\ UNCHANGED ask
OrphanTick(i, stale) == AutoReconcile(i, stale) /\ UNCHANGED ask

Time == Tick /\ UNCHANGED ask

RequestStep(x) ==
  \/ Admit(x) \/ Create(x) \/ CreateDuplicate(x) \/ Plan(x) \/ ClaimTask(x)
  \/ StartTask(x) \/ ClaimKey(x) \/ WriteCheckpoint(x) \/ Kill(x)
  \/ HandlerReturns(x) \/ JudgeReturns(x) \/ Renew(x)
  \/ Verifying(x) \/ Raced(x) \/ Commit(x) \/ Escalate(x) \/ Report(x) \/ Fail(x)
  \/ Raise(x)

AskNext ==
  \/ \E x \in Requests : RequestStep(x)
  \/ \E i \in Instances : ProcessDies(i) \/ ExpiryTick(i)
  \/ \E i \in Instances, stale \in SUBSET Tasks : OrphanTick(i, stale)
  \/ Time

AskSpec == AskInit /\ [][AskNext]_avars

-----------------------------------------------------------------------------
AskTypeOK ==
  /\ TypeOK
  /\ step \in [Requests -> Steps]
  /\ task \in [Requests -> Tasks]
  /\ lease \in [Requests -> Tokens \cup {NoLease}]
  /\ reply \in [Requests -> Replies]

\* What the client got is what the kernel recorded, for good: an answer only of a
\* task that is COMPLETED, and a task that is COMPLETED never had its answer
\* withheld, whatever watchdogs and other requests did between the reads and
\* writes of finalize().
AnswerMatchesRecord ==
  \A x \in Requests :
    /\ reply[x] = "answered" => state[task[x]] = "COMPLETED"
    /\ reply[x] = "withheld" => state[task[x]] # "COMPLETED"

\* A question is handled again only after the task of the earlier request has
\* reached a decision (it has ended, or its answer was withheld), and one task is
\* never handled for two requests.
RepeatOnlyAfterDecision ==
  \A x \in Requests : step[x] \in Awaiting =>
    /\ task[x] # FirstTask[x] => state[FirstTask[x]] \in Terminal \cup {"HUMAN_REVIEW"}
    /\ \A y \in Requests \ {x} : task[y] = task[x] => step[y] \notin Awaiting

\* Admission counts and creates in two transactions, but begin() never yields: the
\* cap is exceeded by at most one task for every further process.
InFlightBound ==
  InFlight <= MaxInflight + Cardinality(Instances) - 1
=============================================================================
