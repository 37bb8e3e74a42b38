------------------------------ MODULE EventBus -------------------------------
(***************************************************************************)
(* One channel of the PostgreSQL event bus (src/scp/event_bus_pg.py): the  *)
(* table scp_events, its publishers, and processes that subscribe to it or *)
(* replay what is undelivered.                                             *)
(*                                                                         *)
(* Each statement of a reader commits by itself, so readers interleave     *)
(* between fetching a batch, running the handler and recording how it went.*)
(* NOTIFY is left out: it only makes the next poll come sooner, and a poll *)
(* may come at any time. What a handler does is its own affair; it returns *)
(* or raises.                                                              *)
(***************************************************************************)
EXTENDS Integers, FiniteSets, Functions

CONSTANTS
  Readers,     \* processes that call subscribe_poll() or replay_undelivered()
  MaxId,       \* bound: ids given out
  MaxOpen,     \* bound: publish() transactions open at once
  MaxAttempts, \* max_attempts
  BatchLimit   \* batch_limit

ASSUME BusAssumption ==
  /\ MaxId \in Nat \ {0}
  /\ MaxOpen \in Nat \ {0}
  /\ MaxAttempts \in Nat \ {0}
  /\ BatchLimit \in Nat \ {0}

Ids == 1..MaxId

VARIABLES
  row,     \* the table
  reader,  \* the processes
  raised,  \* how often a handler has raised on an event; more than
           \* MaxAttempts times are not told apart
  handled  \* the events a handler has returned from

bvars == <<row, reader, raised, handled>>

-----------------------------------------------------------------------------
Rows == [state : {"none", "open", "there"}, delivered : BOOLEAN,
         attempts : 0..MaxAttempts, dead : BOOLEAN]

NoRow == [state |-> "none", delivered |-> FALSE, attempts |-> 0, dead |-> FALSE]

\* A reader remembers the rows of its batch as they were when it fetched them.
\* "past" is no variable of the code: what this subscription has handled, or, of a
\* tail, what was in the table before it.
Modes == {"down", "poll", "replay"}
NoBatch == [n \in {} |-> 0]
Down == [mode |-> "down", cursor |-> 0, batch |-> NoBatch, outcome |-> "none", past |-> {}]

BusInit ==
  /\ row = [n \in Ids |-> NoRow]
  /\ reader = [r \in Readers |-> Down]
  /\ raised = [n \in Ids |-> 0]
  /\ handled = {}

There == {n \in Ids : row[n].state = "there"}
Open == {n \in Ids : row[n].state = "open"}
LastOf(ids) == CHOOSE n \in ids \cup {0} : \A k \in ids : k <= n

\* ORDER BY id LIMIT: a batch gives for each of its events the attempts it had.
Fetch(ids) ==
  [n \in {n \in ids : Cardinality({k \in ids : k < n}) < BatchLimit} |-> row[n].attempts]

-----------------------------------------------------------------------------
(* publish(): the sequence gives an id greater than any given so far, and at   *)
(* once; the row is seen when its transaction commits. Ids left out went to    *)
(* other channels.                                                             *)

Insert(n) ==
  /\ row[n].state = "none"
  /\ \A k \in Ids : k > n => row[k].state = "none"
  /\ Cardinality(Open) < MaxOpen
  /\ row' = [row EXCEPT ![n] = [@ EXCEPT !.state = "open"]]
  /\ UNCHANGED <<reader, raised, handled>>

Commit(n) ==
  /\ row[n].state = "open"
  /\ row' = [row EXCEPT ![n] = [@ EXCEPT !.state = "there"]]
  /\ UNCHANGED <<reader, raised, handled>>

\* The transaction fails, or its process does. Nobody has seen the id, so it makes no
\* difference that it may be given out again here.
Rollback(n) ==
  /\ row[n].state = "open"
  /\ row' = [row EXCEPT ![n] = NoRow]
  /\ UNCHANGED <<reader, raised, handled>>

-----------------------------------------------------------------------------
(* subscribe_poll() and replay_undelivered() *)

SubscribeAtTail(r) ==
  /\ reader[r].mode = "down"
  /\ reader' = [reader EXCEPT ![r] =
       [Down EXCEPT !.mode = "poll", !.cursor = LastOf(There), !.past = There]]
  /\ UNCHANGED <<row, raised, handled>>

SubscribeAtBeginning(r) ==
  /\ reader[r].mode = "down"
  /\ reader' = [reader EXCEPT ![r] = [Down EXCEPT !.mode = "poll"]]
  /\ UNCHANGED <<row, raised, handled>>

Replay(r) ==
  /\ reader[r].mode = "down"
  /\ reader' = [reader EXCEPT ![r] = [Down EXCEPT !.mode = "replay"]]
  /\ UNCHANGED <<row, raised, handled>>

InBatch(r) == DOMAIN reader[r].batch

Ready(r, mode) == reader[r].mode = mode /\ InBatch(r) = {}

Beyond(r) == {n \in There : n > reader[r].cursor /\ ~row[n].dead}

\* _poll_cycle() fetches; a cycle that finds nothing changes nothing.
Poll(r) ==
  /\ Ready(r, "poll")
  /\ Beyond(r) # {}
  /\ reader' = [reader EXCEPT ![r] = [@ EXCEPT !.batch = Fetch(Beyond(r))]]
  /\ UNCHANGED <<row, raised, handled>>

\* A replay that finds nothing more is done.
FetchUndelivered(r) ==
  /\ Ready(r, "replay")
  /\ LET left == {n \in Beyond(r) : ~row[n].delivered} IN
     reader' = [reader EXCEPT ![r] =
       IF left = {} THEN Down ELSE [@ EXCEPT !.batch = Fetch(left)]]
  /\ UNCHANGED <<row, raised, handled>>

-----------------------------------------------------------------------------
(* _attempt() *)

Current(r) == CHOOSE n \in InBatch(r) : \A k \in InBatch(r) : n <= k
Busy(r) == InBatch(r) # {} /\ reader[r].outcome = "none"

\* Faulty: the row is acknowledged, then the handler runs.
AcknowledgeFirst(r) ==
  /\ Busy(r)
  /\ ~row[Current(r)].delivered
  /\ row' = [row EXCEPT ![Current(r)] = [@ EXCEPT !.delivered = TRUE]]
  /\ UNCHANGED <<reader, raised, handled>>

HandlerReturns(r) ==
  /\ Busy(r)
  /\ LET n == Current(r) IN
     /\ handled' = handled \cup {n}
     /\ reader' = [reader EXCEPT ![r] =
          [@ EXCEPT !.outcome = "ok", !.past = reader[r].past \cup {n}]]
  /\ UNCHANGED <<row, raised>>

HandlerRaises(r) ==
  /\ Busy(r)
  /\ LET n == Current(r) IN
     raised' = [raised EXCEPT ![n] = IF @ = MaxAttempts THEN @ ELSE @ + 1]
  /\ reader' = [reader EXCEPT ![r] = [@ EXCEPT !.outcome = "raised"]]
  /\ UNCHANGED <<row, handled>>

\* On to the next row of the batch, the cursor after this one.
Advance(r) ==
  reader' = [reader EXCEPT ![r] =
    [@ EXCEPT !.cursor = Current(r), !.outcome = "none",
              !.batch = Restrict(reader[r].batch, InBatch(r) \ {Current(r)})]]

MarkDelivered(r) ==
  /\ reader[r].outcome = "ok"
  /\ row' = [row EXCEPT ![Current(r)] = [@ EXCEPT !.delivered = TRUE]]
  /\ Advance(r)
  /\ UNCHANGED <<raised, handled>>

\* The count is the one of the batch: a failure that another reader has recorded
\* since is overwritten.
Attempt(r) == reader[r].batch[Current(r)] + 1

\* Faulty: the attempt that is starting is counted as failed already.
LastAttemptStarts(r) == Attempt(r) >= MaxAttempts - 1

\* Faulty: one attempt too many.
LastAttemptOver(r) == Attempt(r) > MaxAttempts

LastAttempt(r) == Attempt(r) >= MaxAttempts

MarkDead(r) ==
  /\ reader[r].outcome = "raised"
  /\ LastAttempt(r)
  /\ row' = [row EXCEPT ![Current(r)] = [@ EXCEPT !.attempts = Attempt(r), !.dead = TRUE]]
  /\ Advance(r)
  /\ UNCHANGED <<raised, handled>>

\* Faulty: nothing is counted.
ForgetFailure(r) == UNCHANGED row

CountFailure(r) ==
  row' = [row EXCEPT ![Current(r)] = [@ EXCEPT !.attempts = Attempt(r)]]

\* Faulty: the rest of the batch goes on, and the cursor with it.
SkipFailed(r) == Advance(r)

\* A subscriber leaves the rest of its batch and polls again from the same cursor; a
\* replay goes on, and the next one will find the row again.
AfterFailure(r) ==
  IF reader[r].mode = "poll"
    THEN reader' = [reader EXCEPT ![r] = [@ EXCEPT !.batch = NoBatch, !.outcome = "none"]]
    ELSE Advance(r)

BumpAttempts(r) ==
  /\ reader[r].outcome = "raised"
  /\ ~LastAttempt(r)
  /\ CountFailure(r)
  /\ AfterFailure(r)
  /\ UNCHANGED <<raised, handled>>

\* The process ends, or loses its connection, and its cursor with it.
ReaderDies(r) ==
  /\ reader[r].mode # "down"
  /\ reader' = [reader EXCEPT ![r] = Down]
  /\ UNCHANGED <<row, raised, handled>>

-----------------------------------------------------------------------------
ReaderStep(r) ==
  \/ Poll(r) \/ FetchUndelivered(r)
  \/ HandlerReturns(r) \/ HandlerRaises(r)
  \/ MarkDelivered(r) \/ MarkDead(r) \/ BumpAttempts(r)

BusNext ==
  \/ \E n \in Ids : Insert(n) \/ Commit(n) \/ Rollback(n)
  \/ \E r \in Readers :
       \/ SubscribeAtTail(r) \/ SubscribeAtBeginning(r) \/ Replay(r)
       \/ ReaderStep(r) \/ ReaderDies(r)

\* A reader that is up keeps polling, and its handler returns or raises.
BusSpec == BusInit /\ [][BusNext]_bvars /\ \A r \in Readers : WF_bvars(ReaderStep(r))

-----------------------------------------------------------------------------
BusTypeOK ==
  /\ row \in [Ids -> Rows]
  /\ \A r \in Readers :
       /\ reader[r].mode \in Modes
       /\ reader[r].cursor \in 0..MaxId
       /\ reader[r].outcome \in {"none", "ok", "raised"}
       /\ reader[r].past \subseteq Ids
       /\ InBatch(r) \subseteq {n \in There : n > reader[r].cursor}
       /\ reader[r].batch \in [InBatch(r) -> 0..MaxAttempts]
       /\ reader[r].mode = "down" => reader[r] = Down
       /\ InBatch(r) = {} => reader[r].outcome = "none"
  /\ raised \in [Ids -> 0..MaxAttempts]
  /\ handled \subseteq Ids

\* "At-least-once per subscriber cursor": what a subscriber's cursor has passed its
\* handler has returned from, unless it was there before a tail, or is dead: neither
\* retries nor failures in the middle of a batch lose an event.
AtLeastOncePerSubscriber ==
  \A r \in Readers : reader[r].mode = "poll" =>
    \A n \in There : n <= reader[r].cursor /\ ~row[n].dead => n \in reader[r].past

\* delivered_at means that at least one reader processed the event: a death between
\* the two leaves it undelivered, for the replay.
DeliveredWasHandled == \A n \in Ids : row[n].delivered => n \in handled

\* An event is given up only after max_attempts failures: two readers that count
\* at once, from rows they fetched earlier, may count too few, never too many.
DeadAfterMaxFailures == \A n \in Ids : row[n].dead => raised[n] = MaxAttempts

\* "a poison payload can never block the channel forever": a subscriber that stays up
\* gets past every event, however its failures are overwritten by another reader's.
\* As there are MaxId events, it comes to have none before it.
PoisonNeverBlocks ==
  \A r \in Readers : []<>(reader[r].mode # "poll" \/ Beyond(r) = {})
=============================================================================
