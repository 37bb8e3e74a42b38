----------------------------- MODULE HandsBridge -----------------------------
(***************************************************************************)
(* Mutating actions under the task kernel                                  *)
(* (src/scp/hands/task_kernel_bridge.py): execute() queues and claims a    *)
(* task, claims the idempotency key of the effect, writes a checkpoint,    *)
(* awaits the driver while a heartbeat renews the lease, and then records  *)
(* what it learned.                                                        *)
(*                                                                         *)
(* Every step is one kernel transaction, or the start or the end of the    *)
(* driver. The calls of one process (one bridge, one kernel instance) run  *)
(* on one event loop and yield to each other only while a driver runs;     *)
(* calls of two processes (API server and MCP server) interleave at every  *)
(* transaction. No watchdog works on this database: the environment is     *)
(* time, the kill switch, process deaths and reconciliation requests.      *)
(***************************************************************************)
EXTENDS TaskKernelSafety

CONSTANTS
  Calls,  \* executions requested
  Task,   \* the task of each: the hash of its request key
  Home    \* the kernel instance of each

ASSUME BridgeAssumption ==
  /\ Task \in [Calls -> Tasks]
  /\ Home \in [Calls -> Instances]

VARIABLES
  step,    \* where each call is
  lease,   \* lease_id of each call
  reply,   \* what it answered
  applied  \* how often the task's effect was produced in the outside world

bridge == <<step, lease, reply, applied>>
bvars == <<vars, step, lease, reply, applied>>

\* The statements of execute() up to the checkpoint, and those after the driver.
Planning == {"PLANNING", "READY", "QUEUED"}
BeforeDispatch == Planning \cup {"claim", "start", "idem", "checkpoint"}
InDriver == {"driver", "driven"}
AfterDispatch == {"blocked", "verify", "complete", "commit", "unknown"}
Leaving == {"failed", "release"}
Synchronous == BeforeDispatch \cup AfterDispatch \cup Leaving
Steps == Synchronous \cup InDriver \cup {"begin", "done", "dead"}
Replies == {"none", "replayed", "refused", "denied", "success", "unknown",
            "lost", "failed"}

BridgeInit ==
  /\ Init
  /\ step = [x \in Calls |-> "begin"]
  /\ lease = [x \in Calls |-> NoLease]
  /\ reply = [x \in Calls |-> "none"]
  /\ applied = [t \in Tasks |-> 0]

\* The event loop of process i runs no other call's statements.
LoopFree(i, x) ==
  \A y \in Calls \ {x} : Home[y] = i => step[y] \notin Synchronous

At(x, s) == step[x] = s /\ LoopFree(Home[x], x)
Goes(x, s) == step' = [step EXCEPT ![x] = s]
Answers(x, r) == reply' = [reply EXCEPT ![x] = r]

\* The kernel refuses a lease_id that is not the one its instance is bound to.
OwnLease(x) == lease[x] = bound[Home[x]][Task[x]]

-----------------------------------------------------------------------------
(* Up to the checkpoint. *)

Create(x) ==
  /\ At(x, "begin")
  /\ CreateTask(Task[x])
  /\ Goes(x, "PLANNING")
  /\ UNCHANGED <<lease, reply, applied>>

\* create_task() finds the id taken: a queued task is executed again, any other
\* answered as replayed.
CreateDuplicate(x) ==
  /\ At(x, "begin")
  /\ state[Task[x]] # NoTask
  /\ IF state[Task[x]] = "QUEUED"
       THEN Goes(x, "claim") /\ UNCHANGED reply
       ELSE Goes(x, "done") /\ Answers(x, "replayed")
  /\ UNCHANGED <<vars, lease, applied>>

Plan(x) ==
  /\ step[x] \in Planning
  /\ At(x, step[x])
  /\ Transition(Home[x], Task[x], step[x], NoLease)
  /\ Goes(x, CASE step[x] = "PLANNING" -> "READY"
               [] step[x] = "READY" -> "QUEUED"
               [] step[x] = "QUEUED" -> "claim")
  /\ UNCHANGED <<lease, reply, applied>>

ClaimTask(x) ==
  /\ At(x, "claim")
  /\ Claim(Home[x], Task[x])
  /\ lease' = [lease EXCEPT ![x] = latest'[Task[x]]]
  /\ Goes(x, "start")
  /\ UNCHANGED <<reply, applied>>

StartTask(x) ==
  /\ At(x, "start")
  /\ OwnLease(x)
  /\ Start(Home[x], Task[x])
  /\ Goes(x, "idem")
  /\ UNCHANGED <<lease, reply, applied>>

\* idempotency_claim(); when it answers that the effect is another's, execute()
\* refuses. (A task is QUEUED only new or after NOT_APPLIED, so on this database
\* the refusal is a second line of defence.)
ClaimEffect(x) ==
  /\ At(x, "idem")
  /\ IF idem[Task[x]] \in {"NONE", "RETRYABLE"}
       THEN /\ IdempotencyClaim(Home[x], Task[x])
            /\ Goes(x, "checkpoint")
            /\ UNCHANGED reply
       ELSE /\ Authorised(Home[x], Task[x])
            /\ Goes(x, "release")
            /\ Answers(x, "refused")
            /\ UNCHANGED vars
  /\ UNCHANGED <<lease, applied>>

\* Faulty: the driver is started before the checkpoint is written.
DispatchUnrecorded(x) ==
  /\ At(x, "checkpoint")
  /\ OwnLease(x)
  /\ Goes(x, "driver")
  /\ UNCHANGED <<vars, lease, reply, applied>>

\* The checkpoint, after which dispatch_started is set and the driver awaited.
WriteCheckpoint(x) ==
  /\ At(x, "checkpoint")
  /\ OwnLease(x)
  /\ Checkpoint(Home[x], Task[x])
  /\ Goes(x, "driver")
  /\ UNCHANGED <<lease, reply, applied>>

-----------------------------------------------------------------------------
(* The driver, external; and the heartbeat beside it. *)

Apply(x) ==
  /\ step[x] = "driver"
  /\ applied' = [applied EXCEPT ![Task[x]] = @ + 1]
  /\ Goes(x, "driven")
  /\ UNCHANGED <<vars, lease, reply>>

\* The driver returns: blocked by a policy before it did anything, verified, or
\* anything else, an exception included.
DriverReturns(x) ==
  /\ step[x] \in InDriver
  /\ At(x, step[x])
  /\ \/ Goes(x, "unknown")
     \/ step[x] = "driver" /\ Goes(x, "blocked")
     \/ step[x] = "driven" /\ Goes(x, "verify")
  /\ UNCHANGED <<vars, lease, reply, applied>>

\* _heartbeat_until_finished(): stopping after a KernelError is never beating again.
Beat(x) ==
  /\ step[x] \in InDriver
  /\ At(x, step[x])
  /\ OwnLease(x)
  /\ Heartbeat(Home[x], Task[x])
  /\ UNCHANGED bridge

-----------------------------------------------------------------------------
(* After the driver. *)

Denied(x) ==
  /\ At(x, "blocked")
  /\ OwnLease(x)
  /\ CommitFailed(Home[x], Task[x], "terminal")
  /\ Goes(x, "done")
  /\ Answers(x, "denied")
  /\ UNCHANGED <<lease, applied>>

\* Faulty: the key is not completed before the task is.
VerifySkippingKey(x) ==
  /\ At(x, "verify")
  /\ Transition(Home[x], Task[x], "VERIFYING", NoLease)
  /\ Goes(x, "commit")
  /\ UNCHANGED <<lease, reply, applied>>

\* transition() without a lease_id: it takes the lease the instance is bound to.
Verify(x) ==
  /\ At(x, "verify")
  /\ Transition(Home[x], Task[x], "VERIFYING", NoLease)
  /\ Goes(x, "complete")
  /\ UNCHANGED <<lease, reply, applied>>

CompleteEffect(x) ==
  /\ At(x, "complete")
  /\ IdempotencyComplete(Home[x], Task[x])
  /\ Goes(x, "commit")
  /\ UNCHANGED <<lease, reply, applied>>

\* Faulty: success is answered when the key is completed, the commit skipped.
SuccessBeforeCommit(x) ==
  /\ At(x, "commit")
  /\ Goes(x, "release")
  /\ Answers(x, "success")
  /\ UNCHANGED <<vars, lease, applied>>

CommitVerified(x) ==
  /\ At(x, "commit")
  /\ OwnLease(x)
  /\ CommitCompleted(Home[x], Task[x])
  /\ Goes(x, "done")
  /\ Answers(x, "success")
  /\ UNCHANGED <<lease, applied>>

\* Faulty: what is not verified is reported to the kernel as a failure.
UnknownAsFailure(x) ==
  /\ At(x, "unknown")
  /\ OwnLease(x)
  /\ CommitFailed(Home[x], Task[x], "terminal")
  /\ Goes(x, "release")
  /\ Answers(x, "unknown")
  /\ UNCHANGED <<lease, applied>>

RecordUnknown(x) ==
  /\ At(x, "unknown")
  /\ OwnLease(x)
  /\ RecordActionDispatched(Home[x], Task[x])
  /\ Goes(x, "release")
  /\ Answers(x, "unknown")
  /\ UNCHANGED <<lease, applied>>

\* The exception handler before dispatch: commit_failed() under a lease, whose
\* own exceptions are swallowed.
Fail(x) ==
  /\ At(x, "failed")
  /\ Answers(x, "failed")
  /\ \/ /\ lease[x] = NoLease
        /\ Goes(x, "done")
        /\ UNCHANGED vars
     \/ /\ lease[x] # NoLease
        /\ OwnLease(x)
        /\ CommitFailed(Home[x], Task[x], "terminal")
        /\ Goes(x, "release")
  /\ UNCHANGED <<lease, applied>>

\* The finally clause.
ReleaseInFinally(x) ==
  /\ At(x, "release")
  /\ OwnLease(x)
  /\ ReleaseLease(Home[x], Task[x])
  /\ Goes(x, "done")
  /\ UNCHANGED <<lease, reply, applied>>

\* Where an exception takes a call: a refused transaction, a busy database, a
\* missing signing secret.
Handler(s) ==
  CASE s \in BeforeDispatch \cup {"begin"} -> "failed"
    [] s \in AfterDispatch \ {"unknown"} -> "unknown"
    [] s \in {"unknown", "failed"} -> "release"
    [] s = "release" -> "done"

Raise(x) ==
  /\ step[x] \in Synchronous \cup {"begin"}
  /\ At(x, step[x])
  /\ step[x] = "failed" => lease[x] # NoLease
  /\ \/ UNCHANGED vars
     \/ /\ step[x] \in {"blocked", "commit", "failed", "release"}
        /\ CommitRaises(Home[x], Task[x])
  /\ Goes(x, Handler(step[x]))
  /\ CASE step[x] = "unknown" -> Answers(x, "lost")
       [] step[x] = "failed" -> Answers(x, "failed")
       [] OTHER -> UNCHANGED reply
  /\ UNCHANGED <<lease, applied>>

-----------------------------------------------------------------------------
(* The environment. *)

\* The process of instance i dies; its drivers with it.
ProcessDies(i) ==
  LET lost == {x \in Calls : Home[x] = i /\ step[x] \notin {"begin", "done", "dead"}} IN
  /\ lost # {}
  /\ Unbind(i, Tasks)
  /\ step' = [x \in Calls |-> IF x \in lost THEN "dead" ELSE step[x]]
  /\ UNCHANGED <<control, state, leases, attempts, journal, effects, late,
                 accounts, lease, reply, applied>>

\* reconcile_unknown() is two transactions: the first may be all that is done.
EnterReconcile(i, t) ==
  /\ \A x \in Calls : Home[x] = i => step[x] \notin Synchronous
  /\ EnterReconciling(i, t)
  /\ UNCHANGED bridge

\* Faulty: the evidence is not looked at.
ReconcileBlindly(i, t, outcome) ==
  /\ \A x \in Calls : Home[x] = i => step[x] \notin Synchronous
  /\ ReconcileUnknown(i, t, outcome)
  /\ UNCHANGED bridge

\* The outcome rests on evidence from outside, assumed true: NOT_APPLIED is
\* reported only of an effect that was not produced.
Reconcile(i, t, outcome) ==
  /\ \A x \in Calls : Home[x] = i => step[x] \notin Synchronous
  /\ outcome = "NOT_APPLIED" => applied[t] = 0
  /\ ReconcileUnknown(i, t, outcome)
  /\ UNCHANGED bridge

TimeOrKill ==
  /\ \/ Tick
     \/ \E on \in BOOLEAN : SetGlobalKill(on)
  /\ UNCHANGED bridge

CallStep(x) ==
  \/ Create(x) \/ CreateDuplicate(x) \/ Plan(x) \/ ClaimTask(x) \/ StartTask(x)
  \/ ClaimEffect(x) \/ WriteCheckpoint(x)
  \/ Apply(x) \/ DriverReturns(x) \/ Beat(x)
  \/ Denied(x) \/ Verify(x) \/ CompleteEffect(x) \/ CommitVerified(x)
  \/ RecordUnknown(x) \/ Fail(x) \/ ReleaseInFinally(x) \/ Raise(x)

BridgeNext ==
  \/ \E x \in Calls : CallStep(x)
  \/ \E i \in Instances : ProcessDies(i)
  \/ \E i \in Instances, t \in Tasks :
       EnterReconcile(i, t) \/ \E outcome \in Outcomes : Reconcile(i, t, outcome)
  \/ TimeOrKill

BridgeSpec == BridgeInit /\ [][BridgeNext]_bvars

-----------------------------------------------------------------------------
BridgeTypeOK ==
  /\ TypeOK
  /\ step \in [Calls -> Steps]
  /\ lease \in [Calls -> Tokens \cup {NoLease}]
  /\ reply \in [Calls -> Replies]
  /\ applied \in [Tasks -> Nat]

\* No two drivers ever run for one task, in one process or in two, and before a
\* driver starts the claim of its effect and a checkpoint are durable: wherever
\* the process dies, the database says that something was dispatched.
OneRecordedDispatch ==
  \A x \in Calls : step[x] \in InDriver =>
    /\ \A y \in Calls \ {x} : Task[y] = Task[x] => step[y] \notin InDriver
    /\ idem[Task[x]] = "CLAIMED"
    /\ snapshots[Task[x]] # {}

\* An effect that was produced is never shown as one that may be tried again or
\* that failed: the task is not queued, not FAILED, and its key not retryable,
\* whatever raised, expired or died since.
AppliedIsNeverRetryable ==
  \A t \in Tasks : applied[t] > 0 =>
    /\ state[t] \notin {"QUEUED", "FAILED", "RETRY_SCHEDULED"}
    /\ idem[t] \in {"CLAIMED", "COMPLETED", "RECONCILED"}

\* The caller is told of success only when everything is: the effect was
\* produced, its key completed and the task completed, for good. The three are
\* written by three transactions.
SuccessIsDurable ==
  \A x \in Calls : reply[x] = "success" =>
    /\ applied[Task[x]] = 1
    /\ idem[Task[x]] = "COMPLETED"
    /\ state[Task[x]] = "COMPLETED"

\* A task is completed only with the effect's key: after a death between the
\* commits the key may be ahead of the task, never behind it.
KeyBeforeTask ==
  \A t \in Tasks : state[t] = "COMPLETED" => idem[t] = "COMPLETED"

Ledger == INSTANCE EffectLedger WITH
  claim <- [t \in Tasks |-> CASE idem[t] \in {"NONE", "RETRYABLE"} -> "free"
                              [] idem[t] = "CLAIMED" -> "claimed"
                              [] OTHER -> "closed"],
  produced <- applied

\* The bridge over the kernel implements EffectLedger: an effect is produced at
\* most once, under a claim, and a claim is given back only unproduced.
ImplementsEffectLedger == Ledger!LSpec
=============================================================================
