# A TLA+ model of SCP's task kernel

SCP stands between an AI agent and the systems it acts on: every action is a
durable *task*, executed under a lease, journalled, verified independently and
recovered after a crash. Around the kernel are the callers that run actions and
answer questions under it, the gateway to the language models and the bus that
carries events between containers. This directory holds TLA+ modules of the parts
where that can go wrong, TLC configurations that check them on small instances, and
TLAPS proofs, for every instance, of all the safety properties that the passing runs
check, the refinements included.

Paths are relative to the repository; `taskkernel.py` is
`src/scp/task_kernel_parts/taskkernel.py`, `task_kernel.py` is
`src/scp/task_kernel.py`, the *bridge* is `src/scp/hands/task_kernel_bridge.py`,
the *adapter* `src/scp/ask_kernel_adapter.py`, `client.py`
`src/scp/llm_gateway/client.py`.

## 1. The system

| Component | State | Operations | Talks to | What is hard | What makes it correct |
|---|---|---|---|---|---|
| Task state machine (`task_kernel.py`) | none: `STATES`, `ALLOWED_TRANSITIONS`, the sets the operations test | – | everything below | 18 states, five partly overlapping state sets | leased states and terminal states are disjoint; a worker's states are entered only from leased ones |
| **Durable task kernel** (`taskkernel.py`, `task_kernel.py`) | SQLite tables `tasks`, `leases`, `task_events` (the journal), `checkpoints`, `idempotency`, `queue_accounts`, `control`; in memory `_bound_leases` of each `TaskKernel` object | create, transition, approve, claim, claim_next, start, heartbeat, renew, release, checkpoint, dispatch record, idempotency claim/complete, commit completed/failed, reconcile, kill, two watchdog sweeps, rebuild | the database; called by adapters, bridge, watchdogs, boot | several instances and processes on one database, leases that expire while in use, stale in-memory bindings, the kill switch, sweeps over many tasks | one attempt at a time; a fenced-off worker writes nothing; the journal replays to the tasks row; accounts count leases; terminal is final; an effect is retried only after reconciliation |
| **Boot recovery** (`recover_on_boot`, `lifespan.py`) | the same tables, an in-memory count of released leases | rebuild, release, account, move, for each task | kernel | not one transaction; exceptions are swallowed | nothing is in flight afterwards, accounts are right, no attempt regains its right |
| Kernel storage (`kernel_storage*.py`) | connection | begin immediate, commit, rollback | kernel | two back ends | transactions atomic and serial (assumed) |
| Background jobs (`api/background_jobs.py`) | one thread, stop event and error counter per job | register, start_all, stop | kernel | a slow job outlives its stop | exactly one loop per job; required jobs run |
| **Hands kernel bridge** (`hands/task_kernel_bridge.py`) | where each call is, its lease | execute: create, plan, claim, start, idempotency claim, checkpoint, driver with heartbeats, VERIFYING, complete, commit; UNKNOWN; release; reconcile | kernel, drivers, verifier | the lease lost during the effect; exceptions between the commits; two servers on one database | an effect is produced at most once per claim; what was produced is never shown as retryable; success is durable |
| **Ask kernel adapter** (`ask_kernel_adapter.py`) | where each request is, its task, its lease | begin, handler and judge with renewal, finalize, fail | kernel, watchdog threads | watchdogs between the reads and writes of finalize; repeated questions; admission apart from creation | an answer only of a completed task; a repeat only after a decision; the cap on tasks in flight |
| Retry policy (`policy/retry_policy.py`) | `_first_seen`, attempts, in memory | poll, requeue, fail | kernel | timers surviving the episode they time | a scheduled retry is queued once, after its delay |
| Capability epoch (`security/capability_epoch.py`) | epoch file | issue, check, revoke, restore | security gates | a damaged file | a revoked token never becomes valid |
| Circuit breakers (`core/`, `security/circuit_breaker.py`) | state, counters, probe slot | allow, success, failure | gateway | late results of earlier states | one probe; opens at the threshold |
| **LLM gateway client** (`llm_gateway/client.py`) | a breaker per provider; the race of each call | chat: sequential or hedged race over providers, each over its models and keys | providers | hedges, cap, cancellation and late answers; failures counted at two levels | no answer and no provider is lost; no request outlives its call; a failure counts once; every call ends |
| **PostgreSQL event bus** (`event_bus_pg.py`) | table `scp_events`; cursor and batch of each reader | publish, subscribe_poll, replay_undelivered | publishers, the sandbox evaluator | fetch, handler and acknowledgement are not one transaction; readers share one count; commits out of id order | at least once per cursor; given up only after enough failures; a poison event blocks nobody |
| Sandbox evaluator (`sandbox_evaluator/loop.py`) | none | a reader of the bus that starts at the beginning | event bus | replays on restart | idempotent handler |
| Process manager, trace ledger, verifier, db manager, PC/web control, autofix, knowledge, dashboards | see PROJECT.json | – | – | – | not modelled, see section 5 |

`PROJECT.json` lists each component with its status, and under `hazards` every
place of this code that is hard to test, at its line.

**How they interact.** The ask server's lifespan hook runs `recover_on_boot()`
on a kernel object of its own, then starts the background jobs; requests go
through adapters and the hands bridge, each with its own `TaskKernel` object.
They share nothing but the database, and what each remembers in
`_bound_leases` may be stale at any time. The bridge's database is its own (beside
the executor's data), shared by the API server and the MCP server; the adapter's is
the application's, shared with the watchdog threads of its process. The gateway
and the event bus do not touch the kernel.

## 2. The modules

| Module | Stands for | Uses |
|---|---|---|
| `KernelStates` | the state machine: states, table, state sets | – |
| `TaskKernel` | the kernel: 13 variables, one action per operation, `Spec` | `KernelStates` |
| `TaskKernelSafety` | invariants, action properties, refinement mapping | `TaskKernel`, `ExecutionAuthority` |
| `TaskKernelLiveness` | fairness of the watchdogs and what they promise | `TaskKernel` |
| `ExecutionAuthority` | the abstract promise: a task is open, held or closed; at most one attempt at a time, each a new one | – |
| `BootRecovery` | the kernel with server deaths and a statement-by-statement recovery | `TaskKernelSafety` |
| `HandsBridge` | the bridge's execute() and reconcile(), composed with the kernel | `TaskKernelSafety`, `EffectLedger` |
| `EffectLedger` | the abstract promise: an effect is produced under a claim, at most once; a claim is given back only unproduced | – |
| `AskAdapter` | the adapter's requests, composed with the kernel and its watchdogs | `TaskKernelSafety` |
| `Gateway` | the gateway's calls over shared breakers | – |
| `EventBus` | the events table, publishers and readers of one channel | – |
| `MCTaskKernel`, `MCBootRecovery`, `MCHandsBridge`, `MCAskAdapter`, `MCGateway`, `MCEventBus` | instances for TLC | the above |
| `TaskKernelProofs` | the inductive invariant and the invariants that follow | `TaskKernelSafety` |
| `TaskKernelStepProofs` | action properties and the refinement | `TaskKernelProofs` |
| `TaskKernelAccountProofs` | the queue accounts and the cap of an owner | `TaskKernelStepProofs` |
| `BootRecoveryProofs` | invariants of the kernel with restarts, and the refinement | `BootRecovery`, `TaskKernelAccountProofs` |
| `HandsBridgeProofs` | the bridge is a use of the kernel; its invariants and its refinement of `EffectLedger` | `HandsBridge`, `TaskKernelStepProofs` |
| `AskAdapterProofs` | the adapter's invariants, and what it keeps of the kernel's | `AskAdapter`, `TaskKernelStepProofs` |
| `GatewayProofs` | the invariants of the gateway | `Gateway` |
| `EventBusProofs` | the invariants of the event bus | `EventBus` |

### How the state corresponds

`state`, `active`, `attempts` are columns of `tasks`; `held[t]` is the set of
the task's rows of `leases` with `released=0` (token, kill epoch, time to live);
`latest[t]` is `MAX(fencing_token)` over all its rows, released ones included;
`journal[t]` is what replaying the task's events gives (their last non-NULL
`to_state`); `idem`, `snapshots`, `accounts`, `killed`, `epoch` are
`idempotency.status`, `checkpoints.state`, `queue_accounts.active` and
`control`; `late[t]` says that `created_at + deadline_ms` is past;
`bound[i]` is the `_bound_leases` of instance `i`.

### How the actions correspond

Every kernel operation is one `BEGIN IMMEDIATE ... COMMIT`, so it is one action;
its guard is the conjunction of the checks that raise, and an operation that
raises rolls back: a disabled action. The exception is the binding, popped
*before* the journal append and the COMMIT: `CommitRaises` is an operation that
popped it and then failed. `Tick` lets the same time pass for every lease;
`Crash` replaces an instance by a new object.

`BootRecovery` splits `recover_on_boot()` where the code commits: rebuild,
release the task's leases, one account decrement per released lease, move. The
server may die between any two, and `RecoveryRaises` is the non-fatal handler of
`lifespan.py` that goes on to serve.

`HandsBridge` and `AskAdapter` add, for each call, a program counter (`step`), the
lease id it holds and its reply, and conjoin one kernel action to each statement
that calls the kernel. The calls of a process run on one event loop: between two
awaits (`LoopFree`) no other call of that process runs; calls of other processes,
and watchdog threads, interleave at every transaction. Every statement may also
raise (`Raise`), and `Handler` says where the exception takes the call.
`applied[t]` counts effects produced in the outside world; it is no variable of the
code. In `Gateway` steps are the stretches between two awaits; a request stands
for the three quick tries of `_call_model()`, and an attempt's `charged` is history:
the failures it has recorded with the breaker. In `EventBus` each statement of a
reader commits alone, so fetching, handling and recording are three steps;
`raised`, `handled` and a reader's `past` record history the code does not keep.

The operators marked *Faulty* are forms of a definition that a plausible bug
would give (a dropped guard, an off-by-one, a missing reset). The specification
never uses them: they show that each property can tell the code from the bug.

### What is abstracted

- A lease id is the fencing token: both are fresh for each grant. Of released
  rows only the largest token is kept, which is all the code reads of them.
- Versions (`WHERE version=?`) cannot fail inside an immediate transaction and
  are left out; so are hashes, receipts, approval signatures, worker names,
  payloads. The verifier's verdict and the approval are taken as given.
- The WHY gate may veto a move; a veto is a step not taken.
- `claim_next()`'s priority order is open: any eligible task may be taken, and
  any overdue ones may precede it in the queue. The account a candidate is
  tested against is the one read before the scan, as in the code.
- A task has one idempotency key. A caller that passes an explicit lease id to a
  worker operation passes the one its instance is bound to (`transition()`
  alone is given any). Renewal by a caller whose instance has lost the binding
  to a failed COMMIT is left out.
- A binding to a lease whose grant was rolled back (`claim()` binds before its
  COMMIT) counts as none: it is never valid.
- The bridge: reconciliation reports the truth about the effect (its evidence is
  external); an effect blocked by a policy was not produced (the code tells by
  the text of the error); a driver dies with its process; a request key is a task.
- The adapter: the handler's answer and the judge's verdict are any; no kill switch,
  as nothing in the program calls `set_global_kill()` on this database; a fresh
  id for a repeated question is fresh. A restart there leaves out
  `recover_on_boot()`, which is `BootRecovery`'s: it completes no task, so an answer
  matches the record with it or without.
- The gateway: where the rotation starts is open; prompts, labels, budgets and
  statistics are left out; calls of different threads are taken to interleave at
  awaits only, and providers do not raise out of `chat()` (it catches).
- The event bus: `NOTIFY` only hastens a poll, and a poll may come at any time; all
  readers use the same `max_attempts`; an id that was rolled back may be given
  again, since nobody saw it.
- The journal's hash chain is intact; `verify_integrity`, `backup` and the
  queries change nothing.

## 3. The runs

| Run | Instance | States | Shows |
|---|---|---|---|
| `kernel_safety` | 1 task, 2 instances, 3 tokens, 1 kill | 53 k | types, `OneLiveAttempt`, `ProjectionIsReplay`, `ExclusiveAuthority`, `AccountsMatchLeases`, `AttemptChargedOnce`, `WorkerStepsAreFenced`, `TerminalIsFinal`, `RetryNeedsReconcile`, `ImplementsAuthority` |
| `kernel_queue` | 2 tasks of one owner, room for one, a deadline | 455 k | `AccountsMatchLeases` over sweeps of both tasks, `OwnerCapKept` |
| `kernel_liveness` | 1 task, 2 instances, 2 tokens, 1 kill, fair watchdogs | 19 k | `OrphansAreSwept`, `AbandonedLeaseEnds`, `StaleEpochDrains` |
| `boot_recovery` | 1 task, 2 tokens, 1 kill, 2 recoveries cut short | 123 k | `BootTypeOK`, `CleanRecoveryKeepsAccounts`, `BootImplementsAuthority` |
| `boot_shared_account` | 2 tasks of one owner, 1 recovery cut short | 2.1 M | `AccountsNeverUndercount`, `NothingInFlightAfterBoot` |
| `hands_bridge` | 1 request key, 3 calls in 2 processes, 3 tokens, 1 kill | 77 k | `BridgeTypeOK`, `OneRecordedDispatch`, `AppliedIsNeverRetryable`, `SuccessIsDurable`, `KeyBeforeTask`, `ImplementsEffectLedger` |
| `ask_adapter` | 3 requests in a process, two of one question, room for 2 | 211 k | `AskTypeOK`, `AnswerMatchesRecord`, `RepeatOnlyAfterDecision`, `InFlightBound` |
| `gateway` | 2 calls, 2 providers (2 models and 2 keys; 1 and 1), threshold 2 | 340 k | `GatewayTypeOK`, `NoAnswerIsLost`, `NoAttemptOutlivesCall`, `ChargesPerAttempt`, `EveryCallEnds` |
| `event_bus` | 2 readers, 2 events that commit in order, 2 attempts | 242 k | `BusTypeOK`, `AtLeastOncePerSubscriber`, `DeliveredWasHandled`, `DeadAfterMaxFailures`, `PoisonNeverBlocks` |
| `unknown_swept` | as `kernel_liveness` | – | a disagreement: `UnknownIsSwept` fails |
| `boot_accounts` | 1 task, 2 recoveries cut short | – | a disagreement: `AccountsClearedByBoot` fails |
| `event_gap` | 1 reader, 2 publishers at once | – | a disagreement: `AtLeastOncePerSubscriber` fails |

**Bounds.** `MaxToken` bounds the leases of one task: two are enough for a stale
worker to meet its successor, three for a third attempt to meet two stale
bindings. `MaxEpoch = 1` lets the kill switch go on and off once with leases of
before it. `MaxAttempts = 2` reaches both sides of the retry budget. `TTL` of one
or two ticks separates fresh from expired; where renewal matters (liveness) it
is two. Tasks interact only through an owner's account and through sweeps, so
one task suffices for fencing and two tasks of one owner for accounts.
`MaxFailures` bounds the recoveries cut short, by a death or because they raised;
the server may die in service any number of times. One is enough for a recovery to
run over what another left half done, two for that one to be cut short as well.
Three calls of one key let one be produced, one be reconciled and retried, and one
come late; a third token is a lease after a reconciled retry. In `ask_adapter`
three requests of one process fill a cap of two and try to overflow it; that further
processes add at most one task each rests on the theorem `InFlightStaysBounded`. Two
calls over two providers reach every state of a breaker, also that of a provider
dropped between the two passes over the breakers, since the first call can open both;
two keys let an error that both levels record go from one to the next. Two events and
two readers are the fewest with a stale count in a batch; `MaxOpen = 1` makes commits
follow the ids, `MaxOpen = 2` is the run `event_gap`.
Deadlock is checked except in `hands_bridge`, `ask_adapter` and `gateway`, whose
calls come to an end.

**Symmetry.** Instances (or tasks) are interchangeable and no property names one;
the runs that use symmetry check no liveness. Calls of one process, or requests of
one question, are interchangeable likewise.

**Fairness.** `TaskKernelLiveness` assumes weak fairness of time, of
`ExpireLeases` and of `AutoReconcile`. `background_jobs.py` justifies the
last two: `kernel_lease_expiry` runs every
30 s, `kernel_orphan_reconcile` every 60 s, both `required=True`, and a server
that cannot start one refuses to boot; a failed tick is counted and the next one
runs. The jobs act on the kernel of some open adapter and do nothing until
there is one; fairness is therefore of *some* instance's sweep, while an adapter
is open. `AutoReconcile` selects tasks by the age of `updated_at`; an abandoned
task is no longer written, so the fair sweep takes every task as stale (the
action itself may take any subset). Nothing is assumed of workers, operators or
the kill switch.

`Gateway` assumes weak fairness of what the event loop and the clock do for a call
(`Progress`): starting an attempt, looking at finished ones, reaching
`hedge_cap`. A request that never ends is allowed under a hedged call, which the cap
bounds; one at a time, requests end by the client's 60 s timeout
(`client.py:417`), which the HTTP client counts anew for each operation of a request:
a server that keeps sending a byte now and then is assumed to stop. `EventBus` assumes that a reader that is up goes on (its loop
polls at every `poll_interval`) and that handlers return or raise, as the evaluator's
does, whose test process has a timeout; nothing makes a dead reader come back.
`HandsBridge` and `AskAdapter` state safety only: nothing in the code makes a call
finish, and no watchdog works on the bridge's database.

### Findings

- **`unknown_swept`**: `EMERGENCY_GAP_REPORT.md:62` draws
  `auto_reconcile_orphans()` as the edge from UNKNOWN to RECOVERING. The code
  selects only LEASED, RUNNING and WAITING_TOOL (`taskkernel.py:1568`): a task in
  UNKNOWN with no lease left stays there until a client acts.
- **`boot_accounts`**: `tests/T04_kernel/test_adversarial_kernel_flaws.py:44,51`
  assert that recovery does not leak an owner's account. It does when it is cut
  short between the commit that releases a lease (`taskkernel.py:1700`) and the
  one that decrements the account (`:1702`): the next recovery finds no
  unreleased lease and never corrects it, and an owner at
  `max_active_per_owner=1` is passed over from then on.
  `CleanRecoveryKeepsAccounts` shows that a recovery that is not cut short is
  right, and `AccountsNeverUndercount` that the error is on this side only.

- **`event_gap`**: `event_bus_pg.py:20` promises "At-least-once per subscriber
  cursor" and `:288` that "the tail start has no gap". Ids are given at INSERT and
  rows are seen at COMMIT: of two publishers open at once, the one with the smaller
  id may commit after a subscriber's cursor has passed it, and the poll
  (`:126`, `id > cursor`) never selects it. `replay_undelivered()` repairs this only
  if no other subscriber has acknowledged the event meanwhile, and nothing but tests
  calls it. With one publisher at a time the property holds (`event_bus`).

### Observed, without a run

- `is_open()` of the gateway's breaker (`client.py:204-209`) closes the breaker for
  every caller after the cooldown, although its docstring promises exactly one
  probe (`:187`); exceptions with an empty text are never recorded (`:379`); the
  retries inside `_call_model()` do not look at the breaker again.
- The two levels of a provider do not agree on what a quota error is: `_call_model()`
  looks for "429" and "402" (`client.py:366,371`), `chat()` also for "quota" and
  "rate-limit" (`:463,470`). An error that only has the words (`str(e)`, `:437`) is
  retried, recorded (`:380`), followed by the next key (`:463`), recorded there again,
  and after the last key once more (`:471`), although the comment at `:468-469` says
  that what `_call_model()` has recorded is not counted there. One call with two keys
  reaches the default threshold of three (`:319`) in this way. The model has the path
  (`QuotaInWords`), and `ChargesPerAttempt` states the bound that the code does keep.
- The rotation of `client.py:714-716` may put a degraded provider first, and one whose
  cooldown ends between the two passes of `:708-709` is left out of the call.
- A subscriber started at the beginning handles delivered events again
  (`sandbox_evaluator/loop.py:131` expects only undelivered ones), and a success
  does not reset `attempts`, so that the failures that kill an event need not be
  consecutive (`event_bus_pg.py:28`).
- The bridge's database is swept by no watchdog: a task whose process died waits for
  reconciliation, whatever its state; the adapter's tasks that died between
  CREATED and QUEUED count as in flight for good (`taskkernel.py:1718`).
- `begin()` of the adapter cancels the task with its id when `create_task()` fails for
  another reason than a duplicate (`ask_kernel_adapter.py:320`): it may be an earlier
  request's.

## 4. The proofs

The theorems hold for all values of the constants that the modules' assumptions
allow, which TLC evaluates in every run: `KernelAssumption` (finite `Tasks`, every
task has an owner, positive bounds), `FailureAssumption`, `BridgeAssumption` (a task
and a process for each call), `AskAssumption` (tasks and a process for each request,
finitely many processes, room for one task), `GatewayAssumption` (a provider stands in
the chain once; positive numbers of keys and models), `BusAssumption` (positive bounds).

Every safety property of a passing run is proved: invariants, action properties and
the refinements of `ExecutionAuthority` and `EffectLedger`.

### The kernel

**The inductive invariant** is `IInv`. It says of each task that it is `Fit`:

- `SoleLease`: at most one unreleased lease, the last granted, the active one, in
  a leased state;
- `Journalled`: the tasks row's state is the journal's;
- `Charged`: the failed attempts are fewer than the tokens while a lease lives,
  and never more;
- `Bindings`: no instance remembers a token that was not granted, and no two
  remember the same one;

and that it has no active lease id without an unreleased lease (`NoGhost`). Types and
`Fit` alone are `Sound`, which holds after boot recoveries too; `NoGhost` does not, and
is needed for `ProjectionIsReplay` only. Each action is therefore shown to keep every
task `Steady`: fit, and without a ghost if it had none.

None of the checked invariants is inductive alone. Even `TypeOK` is not:
`rebuild_projection()` writes the lease with the largest token of a set of rows,
and only `SoleLease` says which that is. `OneLiveAttempt` needs that `claim()`, which
looks only at the state QUEUED, finds no lease there: every way into QUEUED has
released it. `ExclusiveAuthority` needs `Bindings`, whose preservation rests on the
freshness of tokens.

`TaskKernelProofs` proves types (`InitType`, `NextType`), then, action by action,
that every task stays steady (what an operation does to the task it is about, and
that it leaves the others alone), then `Invariance` and five invariants.
`TaskKernelStepProofs` classifies each step for each task as `Idle`, `Granting`,
`Working` (under a live lease) or `Intervening` (an operator or watchdog), proves
that there is no other kind (`EveryStep`) and that a step grants one lease at most
(`OneGrantPerStep`); the action properties and the refinement follow from these.

**The accounts** (`TaskKernelAccountProofs`). As a task has one lease at most, an
owner's leases can be counted by their tasks (`CountByTask`), and each action moves
the account by the tasks that gain or lose a lease: a grant adds one, a release
takes the rows of its owner away, a sweep over any number of tasks their number.
`AccountsMatchLeases` follows. `OwnerCapKept` follows from it: the account that
`claim_next()` tests is read before it takes overdue candidates from the queue, but those
hold no lease, so that it is exact when read and one short when the lease is granted.

| Theorem | Property |
|---|---|
| `Invariance` | `[]IInv` |
| `TypeCorrect` | `TypeOK` |
| `OneLiveAttemptAlways` | `OneLiveAttempt` |
| `ProjectionAlwaysReplays` | `ProjectionIsReplay` |
| `AuthorityIsExclusive` | `ExclusiveAuthority` |
| `AttemptsAreCharged` | `AttemptChargedOnce` |
| `TerminalTasksAreFinal` | `TerminalIsFinal` |
| `WorkersAreFenced` | `WorkerStepsAreFenced` |
| `RetriesAreReconciled` | `RetryNeedsReconcile` |
| `KernelImplementsAuthority` | `ImplementsAuthority` |
| `AccountsAlwaysMatch` | `AccountsMatchLeases` |
| `OwnerCapAlwaysKept` | `OwnerCapKept` |

### Boot recovery

`IInv` is false here: recovery releases the leases of a task it leaves UNKNOWN, and the
row it has just rebuilt goes on naming one (a ghost). `BInv` is `Sound` together with
where recovery stands (`Placed`: before the accounts and the move come the leases;
decrements are owed only in between), what it has done (`Progress`: a task it has
visited has no lease and is in no leased state but UNKNOWN) and `Counted`: an account
is at least the owner's leases plus what recovery still owes, and exactly that until a
recovery is cut short. Cutting it short drops what is owed: the slack that the run
`boot_accounts` exhibits and no later step takes away. For the steps of the kernel,
`Counted` follows from the lemmas of the accounts with any such slack.

| Theorem | Property |
|---|---|
| `BootInvariance` | `[]BInv` |
| `BootTypeCorrect` | `BootTypeOK` |
| `NeverUndercounted` | `AccountsNeverUndercount` |
| `CleanRecoveryExact` | `CleanRecoveryKeepsAccounts` |
| `BootClearsFlight` | `NothingInFlightAfterBoot` |
| `BootKeepsAuthority` | `BootImplementsAuthority` |

### The bridge

`BridgeUsesKernel` states `BridgeSpec => Spec`: every step of `HandsBridge` is a step
of `TaskKernel` or leaves its variables alone. It holds because `execute()` reaches the
database through the kernel's operations only; the one step that needs an argument is
the death of a process that was bound to no lease, which is no `Crash` and changes
nothing, given the types. What is proved of the kernel so holds under the bridge.

`HInv` adds what makes the bridge's own properties hold. `OneEngaged`: of the calls of
one request key at most one is *engaged* with the task, that is between its creation
and the end of its work, or behind a failure whose handler will still report it; the
task's primary key and its lease see to that, also across processes. `CallFits` says
what is durable when a call stands before each statement (the task's state, the key,
whether the effect was produced), and `TaskFits` what a task's state says of its effect
when the call that was at it has died: VERIFYING has its key claimed or completed,
UNKNOWN and RECONCILING claimed, FAILED produced nothing. Two calls never disturb each
other's `CallFits`, since a step of one changes a task at which nobody else is
engaged; on the bridge's database, which no watchdog works on, the kill switch and
reconciliation are the only other writers.

`BridgeImplementsLedger` maps the key's status to the ledger's claim and `applied` to
what was produced: `ClaimIdempotency` is its claim, the driver's effect its production,
reconciliation to RETRYABLE gives back a claim under which nothing was produced.

| Theorem | Property |
|---|---|
| `BridgeUsesKernel` | `Spec` |
| `BridgeKeepsAuthority` | `OneLiveAttempt`, `ExclusiveAuthority` |
| `BridgeImplementsAuthority` | `ImplementsAuthority` |
| `BridgeInvariance` | `[]HInv` |
| `BridgeTypeCorrect` | `BridgeTypeOK` |
| `DispatchIsRecorded` | `OneRecordedDispatch` |
| `AppliedStaysSettled` | `AppliedIsNeverRetryable` |
| `SuccessStaysDurable` | `SuccessIsDurable` |
| `KeyPrecedesTask` | `KeyBeforeTask` |
| `BridgeImplementsLedger` | `ImplementsEffectLedger` |

### The adapter

The adapter is no refinement of `TaskKernel`: its heartbeat renews the lease presented
to it whether or not its instance is still bound to it, which `TaskKernel` does not let
a worker do. `KernelOrRenewal` shows that this is the only difference, and a renewal
keeps `IInv`; `AskKeepsAuthority` and `AskImplementsAuthority` carry the kernel's
promises over.

`AInv` adds to `IInv`:

- `SoleOwner`: behind `create_task()`, only the request that created a task goes on
  with it, to its answer;
- `RequestFits`: what the task's state can be at each statement. Watchdogs may move the
  task between any two, but never to COMPLETED, so that only the request's own commit
  makes an answer; and a request with a fresh id follows a decision about the first one;
- `OneCreating` and `Admission`: `begin()` does not yield between the count and the
  creation, so one request of a process at most stands there, and the tasks in flight
  together with those about to be created exceed the cap by one at most for every
  further process. The proof counts them: a step that puts a task in flight takes its
  request out of those about to create one.

| Theorem | Property |
|---|---|
| `AskInvariance` | `[]AInv` |
| `AskTypeCorrect` | `AskTypeOK` |
| `AnswersMatchRecord` | `AnswerMatchesRecord` |
| `RepeatsAreDecided` | `RepeatOnlyAfterDecision` |
| `InFlightStaysBounded` | `InFlightBound` |
| `AskKeepsAuthority` | `OneLiveAttempt`, `ExclusiveAuthority`, `ProjectionIsReplay` |
| `AskImplementsAuthority` | `ImplementsAuthority` |

### The gateway

`GatewayInv` says of each attempt (`Fit`) that it is under way only while its call is
racing, and bounds what it has charged the breaker (`Paid`). The bound of
`ChargesPerAttempt`, a failure for each model and one more for each key of the first,
is not inductive: an attempt at the bound that still had a request out could go beyond.
While it tries the first model it has therefore charged less than the number of the
key at hand, since each earlier key cost one failure at most, which leaves room for the
two of the last (`QuotaInWords`); and with a request of a later model out, less than
one for each key and each model up to that one. Two lemmas, for a step that changes one attempt
and for one that changes all attempts of a call, carry every action.

`RaceInv` adds the breakers' types, that a rotation repeats no provider, and, for
`NoAnswerIsLost`, that a racing call has no cancelled attempt: when nothing is untried
and nothing pending, what is left of the rotation has failed. The pool of a call is
stated as the one arrangement of its providers in the order *healthy before degraded,
then as in the chain* (`PoolOf`), and not by filtering the chain: a filter is a
recursive definition, of which the provers can show nothing in general, while that
order's irreflexivity gives at once that nobody is named twice (`PoolFacts`), which
rotating preserves (`RotationFacts`). TLC finds the same states with either.

| Theorem | Property |
|---|---|
| `NoAttemptOutlivesCallAlways` | `NoAttemptOutlivesCall` |
| `ChargesPerAttemptAlways` | `ChargesPerAttempt` |
| `GatewayTypeCorrect` | `GatewayTypeOK` |
| `NoAnswerEverLost` | `NoAnswerIsLost` |

### The event bus

`BusInv` joins the shape of the variables, the table (`Counted`: a row's count is at
most the failures there were; a dead event has had `max_attempts`; a delivered one was
handled) and each reader (`Sound`: its batch is of committed events beyond its cursor,
with counts that were true when fetched; an outcome noted but not recorded yet is
covered by what happened). An event of a batch cannot be rolled back, which is why its
row may be written back later. `BusTypeCorrect`, `DeliveredWasHandledAlways` and
`DeadAfterMaxFailuresAlways` follow.

`NoEventMissedInOrder` states that with `MaxOpen = 1`, publishes one after the other,
no subscriber misses an event. `OrderInv` adds that the one event on its way comes
after all that are there (`Ordered`), and that from a reader's cursor to any event of
its batch every live event is in the batch (`Covered`, which needs the prefix that
ORDER BY and LIMIT give: `FetchFacts`). The run `event_gap` shows that `MaxOpen = 2`
breaks it: the assumption is exactly what the code lacks.

| Theorem | Property |
|---|---|
| `BusTypeCorrect` | `BusTypeOK` |
| `DeliveredWasHandledAlways` | `DeliveredWasHandled` |
| `DeadAfterMaxFailuresAlways` | `DeadAfterMaxFailures` |
| `NoEventMissedInOrder` | `AtLeastOncePerSubscriber` |

### Only model-checked

The liveness properties `OrphansAreSwept`, `AbandonedLeaseEnds`, `StaleEpochDrains`,
`EveryCallEnds` and `PoisonNeverBlocks`: liveness under fairness rests on ENABLED, which
is out of the prover's reach. The three disagreements of section 3 are counterexamples
of TLC, and theorems about them would say nothing more. That `PoolOf` has exactly one
member is not proved either (that there is one at all would need an induction over
finite sets); no theorem uses it, since a pool that did not exist would only take
steps away, and TLC, which fires every disjunct of `Start`, shows that it is there.

## 5. What is not modelled, and the plan

Not planned: the knowledge, brain, data-source and dashboard parts (data
processing or user interface without a protocol), PC and web control (external
effects), autofix (a separate product with its own ledger), the trace ledger, the
verifier (a pure predicate) and the database manager (I/O).

Not modelled, though they have state: the retry worker's timers and counter
(`policy/retry_policy.py`), the capability epoch file, the breakers in `core/` and
`security/` (of the gateway's kind, with other callers), the registry of background
jobs and the process manager. Each is small and apart from the others; their
hazards are listed in `PROJECT.json`.

Next, in this order:

1. The retry worker over `TaskKernel`, and the order of the fair queue as an
   operator checked against its specification.
2. The capability epoch with a damaged file, and the job registry.
3. Proofs about these.

## 6. Running

    tlc -workers 2 -config kernel_safety.cfg MCTaskKernel.tla
    tlapm TaskKernelProofs.tla
    tlapm TaskKernelStepProofs.tla
    tlapm TaskKernelAccountProofs.tla
    tlapm BootRecoveryProofs.tla
    tlapm HandsBridgeProofs.tla
    tlapm AskAdapterProofs.tla
    tlapm GatewayProofs.tla
    tlapm EventBusProofs.tla

The configuration's module is the MC module whose constants it names; each run's
module is in `PROJECT.json`.
