---------------------------- MODULE BootRecovery ----------------------------
(***************************************************************************)
(* The task kernel with its server's restarts. recover_on_boot() is the    *)
(* one operation of the kernel that is not one transaction: for each task  *)
(* it rebuilds the projection, releases the leases, decrements the owner's *)
(* account once for each and moves the task, and every one of these is     *)
(* committed on its own. The process may die between any two of them, and  *)
(* the server's lifespan hook catches whatever recovery raises, calls it   *)
(* non-fatal and starts serving                                            *)
(* (src/scp/api_server_parts/lifespan.py).                                 *)
(***************************************************************************)
EXTENDS TaskKernelSafety

CONSTANT MaxFailures \* bound: recoveries cut short (the server may die in service
                     \* any number of times)

ASSUME FailureAssumption == MaxFailures \in Nat

VARIABLES
  phase,    \* what the server is doing, and in recovery the next step
  todo,     \* the tasks recovery has still to visit
  current,  \* the task it is at, NoTask between two
  owed,     \* account decrements it still has to make for that task
  failures  \* recoveries cut short so far, by a death or because they raised

bootVars == <<phase, todo, current, owed, failures>>
allVars == <<vars, phase, todo, current, owed, failures>>

Phases == {"serving", "down", "pick", "release", "account", "move"}

BootInit ==
  /\ Init
  /\ phase = "serving"
  /\ todo = {}
  /\ current = NoTask
  /\ owed = 0
  /\ failures = 0

\* Requests, workers and watchdogs run only while the server serves.
Serve ==
  /\ phase = "serving"
  /\ Next
  /\ UNCHANGED bootVars

Recovering == phase \in {"pick", "release", "account", "move"}

\* What recovery remembers from one statement to the next is lost.
Forget ==
  /\ todo' = {}
  /\ current' = NoTask
  /\ owed' = 0

\* The process dies: every binding is lost, whatever was committed stays.
ServerDies ==
  /\ phase # "down"
  /\ failures' = IF Recovering THEN failures + 1 ELSE failures
  /\ failures' <= MaxFailures
  /\ phase' = "down"
  /\ Forget
  /\ bound' = [i \in Instances |-> [t \in Tasks |-> NoLease]]
  /\ UNCHANGED <<control, state, leases, attempts, journal, effects, late,
                 accounts>>

\* recover_on_boot() begins: SELECT task_id, state FROM tasks, of which the
\* terminal ones are passed over.
BeginRecovery ==
  /\ phase = "down"
  /\ phase' = "pick"
  /\ todo' = {t \in Tasks : state[t] \notin Terminal \cup {NoTask}}
  /\ UNCHANGED <<vars, current, owed, failures>>

\* rebuild_projection() of the next task, in one transaction.
RebuildNext(t) ==
  /\ phase = "pick"
  /\ t \in todo
  /\ todo' = todo \ {t}
  /\ current' = t
  /\ RebuildProjection(t)
  /\ phase' = "release"
  /\ UNCHANGED <<owed, failures>>

\* Faulty: the leases of before the restart stay.
ReleaseNothing ==
  /\ phase = "release"
  /\ owed' = Cardinality(held[current])
  /\ phase' = "account"
  /\ UNCHANGED <<vars, todo, current, failures>>

\* UPDATE leases SET released=1 for every unreleased lease of the task; how many
\* there were is remembered in memory only.
ReleaseLeases ==
  /\ phase = "release"
  /\ owed' = Cardinality(held[current])
  /\ held' = [held EXCEPT ![current] = {}]
  /\ phase' = "account"
  /\ UNCHANGED <<control, state, active, latest, attempts, journal, effects,
                 late, accounts, bound, todo, current, failures>>

\* Faulty: one decrement more than there were leases.
SettleUnguarded ==
  /\ phase = "account"
  /\ owed' = owed - 1
  /\ accounts' = [accounts EXCEPT ![Owner[current]] = Minus(@, 1)]
  /\ UNCHANGED <<control, state, leases, attempts, journal, effects, late,
                 bound, phase, todo, current, failures>>

\* Faulty, as it once was: the accounts are forgotten.
SettleNothing ==
  /\ phase = "account"
  /\ owed > 0
  /\ owed' = owed - 1
  /\ UNCHANGED <<vars, phase, todo, current, failures>>

\* One UPDATE queue_accounts, for one of the released leases.
SettleAccount ==
  /\ phase = "account"
  /\ owed > 0
  /\ owed' = owed - 1
  /\ accounts' = [accounts EXCEPT ![Owner[current]] = Minus(@, 1)]
  /\ UNCHANGED <<control, state, leases, attempts, journal, effects, late,
                 bound, phase, todo, current, failures>>

\* Faulty: the account is decremented once more for the task itself.
AccountSettledTwice ==
  /\ phase = "account"
  /\ owed = 0
  /\ phase' = "move"
  /\ accounts' = [accounts EXCEPT ![Owner[current]] = Minus(@, 1)]
  /\ UNCHANGED <<control, state, leases, attempts, journal, effects, late,
                 bound, todo, current, owed, failures>>

AccountSettled ==
  /\ phase = "account"
  /\ owed = 0
  /\ phase' = "move"
  /\ UNCHANGED <<vars, todo, current, owed, failures>>

\* Faulty: a task under verification is left as it is.
AfterBootButVerifying(s) ==
  CASE s = "RUNNING" -> "HUMAN_REVIEW"
    [] s \in {"LEASED", "WAITING_TOOL"} -> "RECOVERING"
    [] s = "CHECKPOINTED" -> "QUEUED"
    [] OTHER -> s

\* Where recovery takes a task; the other states are left as they are.
AfterBoot(s) ==
  CASE s \in {"RUNNING", "VERIFYING"} -> "HUMAN_REVIEW"
    [] s \in {"LEASED", "WAITING_TOOL"} -> "RECOVERING"
    [] s = "CHECKPOINTED" -> "QUEUED"
    [] OTHER -> s

\* transition() under _system_authority: no lease gate, no lease released.
MoveToSafety ==
  LET to == AfterBoot(state[current]) IN
  /\ phase = "move"
  /\ IF to = state[current]
       THEN UNCHANGED <<state, journal, active>>
       ELSE Move(current, to) /\ Deactivate(current)
  /\ phase' = "pick"
  /\ current' = NoTask
  /\ UNCHANGED <<control, latest, held, attempts, effects, late, accounts,
                 bound, todo, owed, failures>>

FinishRecovery ==
  /\ phase = "pick"
  /\ todo = {}
  /\ phase' = "serving"
  /\ UNCHANGED <<vars, todo, current, owed, failures>>

\* A step of recovery raises: the server serves the half-recovered database.
RecoveryRaises ==
  /\ Recovering
  /\ failures < MaxFailures
  /\ failures' = failures + 1
  /\ phase' = "serving"
  /\ Forget
  /\ UNCHANGED vars

BootNext ==
  \/ Serve
  \/ ServerDies
  \/ BeginRecovery
  \/ \E t \in Tasks : RebuildNext(t)
  \/ ReleaseLeases
  \/ SettleAccount
  \/ AccountSettled
  \/ MoveToSafety
  \/ FinishRecovery
  \/ RecoveryRaises

BootSpec == BootInit /\ [][BootNext]_allVars

-----------------------------------------------------------------------------
BootTypeOK ==
  /\ TypeOK
  /\ phase \in Phases
  /\ todo \in SUBSET Tasks
  /\ current \in Tasks \cup {NoTask}
  /\ owed \in Nat
  /\ failures \in 0..MaxFailures

\* Recovery brings every task to a state nobody needs a lease for: when it ends,
\* no task is leased, running, waiting for a tool, verifying or checkpointed,
\* and no lease is left unreleased.
NothingInFlightAfterBoot ==
  [][FinishRecovery => \A t \in Tasks :
       held[t] = {} /\ state[t] \notin LeasedStates \ {"UNKNOWN"}]_allVars

\* However often recovery is cut short or raises, an owner's account never counts
\* fewer leases than the owner has, and in recovery it still has those owed: the
\* cap of claim_next() is never exceeded because of a restart.
AccountsNeverUndercount ==
  \A o \in Owners : accounts[o] >= LeasesOf(o)

\* A recovery that is not cut short leaves every owner's account equal to the
\* leases it has.
CleanRecoveryKeepsAccounts ==
  failures = 0 /\ phase = "serving" => AccountsMatchLeases

\* Every phase of recovery, cut short anywhere, still implements
\* ExecutionAuthority: no attempt of before the restart regains the right to
\* execute, and no second one overlaps it.
BootImplementsAuthority == Authority!ASpec

\* test_adversarial_kernel_flaws.py:44 "queue_accounts.active leaked across boot
\* recovery", :51 "owner was permanently blocked by leaked queue_accounts quota":
\* when a recovery has run to its end, the accounts count no lease.
AccountsClearedByBoot ==
  [][FinishRecovery => \A o \in Owners : accounts[o] = 0]_allVars
=============================================================================
