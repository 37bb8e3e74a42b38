------------------------------- MODULE Gateway -------------------------------
(***************************************************************************)
(* The LLM gateway (src/scp/llm_gateway/client.py): a call asks providers  *)
(* in turn, each behind a circuit breaker, and while one is slow asks the  *)
(* next beside it (the hedged race). A provider tries its models one after *)
(* the other, the first with each of its keys.                             *)
(*                                                                         *)
(* Steps are the stretches between two awaits. A request stands for the    *)
(* three quick tries of _call_model(), which look at no breaker and record *)
(* nothing in between. Prompts, labels and statistics are left out.        *)
(***************************************************************************)
EXTENDS Naturals, Sequences, FiniteSets

CONSTANTS
  Calls,     \* calls of chat()
  Chain,     \* the enabled providers, in the order of _provider_chain()
  Keys,      \* how many keys each tries its first model with
  Models,    \* how many models each tries
  Threshold, \* failure_threshold
  HedgeOn    \* SCP_LLM_HEDGE

Providers == {Chain[n] : n \in 1..Len(Chain)}

ASSUME GatewayAssumption ==
  /\ Chain \in Seq(Providers)
  /\ \A m, n \in 1..Len(Chain) : Chain[m] = Chain[n] => m = n
  /\ Keys \in [Providers -> Nat \ {0}]
  /\ Models \in [Providers -> Nat \ {0}]
  /\ Threshold \in Nat \ {0}
  /\ HedgeOn \in BOOLEAN

VARIABLES
  breaker,  \* the circuit breaker of each provider
  call,     \* what each call is doing or has returned
  rotation, \* the order in which it asks the providers
  attempt   \* what it has asked each provider

gvars == <<breaker, call, rotation, attempt>>

-----------------------------------------------------------------------------
(* CircuitBreaker. Failures beyond the threshold are not told apart. Half-open *)
(* is no state of its own: after a cooldown is_open() leaves the breaker       *)
(* closed, one failure short of the threshold, for every caller.               *)

Breakers == [failures : 0..Threshold, opened : {"no", "cooling", "cooled"}]

IsOpen(b) == b.opened = "cooling"

\* What is_open() leaves behind.
Looked(b) ==
  IF b.opened = "cooled"
    THEN [failures |-> Threshold - 1, opened |-> "no"]
    ELSE b

\* Faulty: an answer takes one failure back.
SuccessTakesOneBack(b) == [failures |-> b.failures - 1, opened |-> "no"]

RecordSuccess(b) == [failures |-> 0, opened |-> "no"]

RecordFailure(b) ==
  LET enough == b.failures + 1 >= Threshold IN
  [failures |-> IF enough THEN Threshold ELSE b.failures + 1,
   opened |-> IF enough THEN "cooling" ELSE b.opened]

-----------------------------------------------------------------------------
\* charged is history: how often the attempt has recorded a failure with the breaker.
Attempts == [at : {"unused", "launched", "calling", "ok", "bad", "failed", "cancelled"},
             model : Nat, key : Nat, charged : Nat, armed : BOOLEAN]

Unused == [at |-> "unused", model |-> 0, key |-> 0, charged |-> 0, armed |-> FALSE]
Launched == [Unused EXCEPT !.at = "launched", !.armed = TRUE]
Ended(a, how) == [Unused EXCEPT !.at = how, !.charged = a.charged]
Collected(how) == [Unused EXCEPT !.at = how]
Charged(a, n) == [a EXCEPT !.charged = @ + n]

Running == {"launched", "calling"}
Outcomes == {"answered", "failed", "capped", "cancelled"}

GatewayInit ==
  /\ breaker = [p \in Providers |-> [failures |-> 0, opened |-> "no"]]
  /\ call = [c \in Calls |-> "idle"]
  /\ rotation = [c \in Calls |-> <<>>]
  /\ attempt = [c \in Calls |-> [p \in Providers |-> Unused]]

InRotation(c) == {rotation[c][n] : n \in 1..Len(rotation[c])}
Pending(c) == {p \in Providers : attempt[c][p].at \in Running}
Finished(c) == {p \in Providers : attempt[c][p].at \in {"ok", "bad"}}
Untried(c) == {p \in InRotation(c) : attempt[c][p].at = "unused"}

\* rotation[next_idx]
NextUp(c) ==
  rotation[c][CHOOSE n \in 1..Len(rotation[c]) :
                /\ rotation[c][n] \in Untried(c)
                /\ \A k \in 1..(n - 1) : rotation[c][k] \notin Untried(c)]

Hedged(c) == HedgeOn /\ Len(rotation[c]) > 1

-----------------------------------------------------------------------------
(* chat() *)

\* Healthy before degraded, each in the order of the chain.
Before(p, q) ==
  \/ ~IsOpen(breaker[p]) /\ IsOpen(breaker[q])
  \/ /\ IsOpen(breaker[p]) <=> IsOpen(breaker[q])
     /\ \E m, n \in 1..Len(Chain) : m < n /\ Chain[m] = p /\ Chain[n] = q

\* healthy + degraded: the one arrangement of the providers ps in that order.
PoolOf(ps) ==
  {pool \in [1..Cardinality(ps) -> ps] :
     \A m, n \in 1..Cardinality(ps) : m < n => Before(pool[m], pool[n])}

\* pool[start:] + pool[:start], counted from 1.
RotationFrom(pool, start) == SubSeq(pool, start, Len(pool)) \o SubSeq(pool, 1, start - 1)

\* The pool takes two passes over the breakers: a breaker whose cooldown ends between
\* the two is found open by the first and closed by the second, and its provider
\* left out. Where in the pool the rotation counter points is left open.
Start(c) ==
  /\ call[c] = "idle"
  /\ \E between \in SUBSET {p \in Providers : IsOpen(breaker[p])} :
       /\ breaker' = [p \in Providers |->
            IF p \in between THEN Looked([breaker[p] EXCEPT !.opened = "cooled"])
            ELSE Looked(breaker[p])]
       /\ \/ /\ Providers \ between = {}
             /\ call' = [call EXCEPT ![c] = "failed"]
             /\ UNCHANGED <<rotation, attempt>>
          \/ \E pool \in PoolOf(Providers \ between) : \E start \in 1..Len(pool) :
               /\ rotation' = [rotation EXCEPT ![c] = RotationFrom(pool, start)]
               /\ attempt' = [attempt EXCEPT ![c] = [@ EXCEPT ![pool[start]] = Launched]]
               /\ call' = [call EXCEPT ![c] = "racing"]

-----------------------------------------------------------------------------
(* One attempt: the provider's chat(). *)

\* The next request of the attempt a, with this model and key, if the breaker lets it
\* out; the attempt has come to its end if not, for the models that are left stand
\* behind the same one.
Request(c, p, b, a, model, key) ==
  /\ breaker' = [breaker EXCEPT ![p] = Looked(b)]
  /\ attempt' = [attempt EXCEPT ![c][p] =
       IF IsOpen(b)
         THEN Ended(a, "bad")
         ELSE [a EXCEPT !.at = "calling", !.model = model, !.key = key]]

\* The end of the attempt a, with the breaker as it is then.
Finish(c, p, b, a, how) ==
  /\ breaker' = [breaker EXCEPT ![p] = b]
  /\ attempt' = [attempt EXCEPT ![c][p] = Ended(a, how)]

NextModel(c, p, b, a) ==
  IF a.model < Models[p]
    THEN Request(c, p, b, a, a.model + 1, 1)
    ELSE Finish(c, p, b, a, "bad")

Enter(c, p) ==
  /\ attempt[c][p].at = "launched"
  /\ Request(c, p, breaker[p], attempt[c][p], 1, 1)
  /\ UNCHANGED <<call, rotation>>

Answered(c, p) ==
  /\ attempt[c][p].at = "calling"
  /\ Finish(c, p, RecordSuccess(breaker[p]), attempt[c][p], "ok")
  /\ UNCHANGED <<call, rotation>>

\* The egress policy forbids the host: nothing was sent, nothing is recorded.
Denied(c, p) ==
  /\ attempt[c][p].at = "calling"
  /\ Finish(c, p, breaker[p], attempt[c][p], "bad")
  /\ UNCHANGED <<call, rotation>>

KeyLeft(c, p) == attempt[c][p].model = 1 /\ attempt[c][p].key < Keys[p]

\* chat() goes on to the next key; an open breaker ends its loop over them.
NextKey(c, p, b, a) ==
  IF IsOpen(b)
    THEN NextModel(c, p, b, a)
    ELSE Request(c, p, b, a, 1, a.key + 1)

\* HTTP 429 or 402, which is not retried: the next key, and after the last one of
\* the first model a failure is recorded, by chat().
OutOfQuota(c, p) ==
  /\ attempt[c][p].at = "calling"
  /\ LET a == attempt[c][p] IN
     IF KeyLeft(c, p)
       THEN NextKey(c, p, breaker[p], a)
       ELSE IF a.model = 1
              THEN NextModel(c, p, RecordFailure(breaker[p]), Charged(a, 1))
              ELSE NextModel(c, p, breaker[p], a)
  /\ UNCHANGED <<call, rotation>>

\* An error whose text has "quota" or "rate-limit" but neither number, as the reason
\* of another status may: _call_model() retries it and records a failure, yet chat()
\* goes on to the next key, and after the last one records another.
QuotaInWords(c, p) ==
  /\ attempt[c][p].at = "calling"
  /\ LET a == attempt[c][p]
         b == RecordFailure(breaker[p]) IN
     IF KeyLeft(c, p)
       THEN NextKey(c, p, b, Charged(a, 1))
       ELSE IF a.model = 1
              THEN NextModel(c, p, RecordFailure(b), Charged(a, 2))
              ELSE NextModel(c, p, b, Charged(a, 1))
  /\ UNCHANGED <<call, rotation>>

\* Faulty: each of the three quick tries records its failure.
BrokenCountedPerTry(c, p) ==
  /\ attempt[c][p].at = "calling"
  /\ NextModel(c, p, RecordFailure(RecordFailure(RecordFailure(breaker[p]))),
                Charged(attempt[c][p], 3))
  /\ UNCHANGED <<call, rotation>>

\* A network error, an empty completion or another error, after the retries:
\* _call_model() records a failure, and the other keys are not tried.
Broken(c, p) ==
  /\ attempt[c][p].at = "calling"
  /\ NextModel(c, p, RecordFailure(breaker[p]), Charged(attempt[c][p], 1))
  /\ UNCHANGED <<call, rotation>>

\* An exception whose text is empty, as a timeout's may be: it is retried, but
\* counts as no error, neither for the breaker nor for the loop over the keys.
Nameless(c, p) ==
  /\ attempt[c][p].at = "calling"
  /\ IF KeyLeft(c, p)
       THEN NextKey(c, p, breaker[p], attempt[c][p])
       ELSE NextModel(c, p, breaker[p], attempt[c][p])
  /\ UNCHANGED <<call, rotation>>

-----------------------------------------------------------------------------
(* _chat_hedged(), and _chat_sequential(), which is a race of one at a time   *)
(* without deadlines.                                                         *)

\* Faulty: the attempts left over are forgotten.
ReturnLeavingOthers(c, how) ==
  /\ call' = [call EXCEPT ![c] = how]
  /\ UNCHANGED attempt

\* The call returns, or is cancelled: the attempts left over are cancelled first, and
\* an attempt that is cancelled runs no further statement.
Return(c, how) ==
  /\ call' = [call EXCEPT ![c] = how]
  /\ attempt' = [attempt EXCEPT ![c] = [p \in Providers |->
       IF p \in Pending(c) THEN Collected("cancelled")
       ELSE Collected(attempt[c][p].at)]]

\* An attempt was answered; of several, the first in the rotation wins.
Win(c) ==
  /\ call[c] = "racing"
  /\ \E p \in Finished(c) : attempt[c][p].at = "ok"
  /\ Return(c, "answered")
  /\ UNCHANGED <<breaker, rotation>>

\* Faulty: the call gives up when nothing is running.
GiveUpEarly(c) ==
  /\ call[c] = "racing"
  /\ Finished(c) # {}
  /\ \A p \in Finished(c) : attempt[c][p].at = "bad"
  /\ attempt' = [attempt EXCEPT ![c] = [p \in Providers |->
       IF p \in Finished(c) THEN Collected("failed") ELSE attempt[c][p]]]
  /\ call' = [call EXCEPT ![c] = IF Pending(c) = {} THEN "failed" ELSE "racing"]
  /\ UNCHANGED <<breaker, rotation>>

\* Attempts failed and none was answered: the next provider, at once; or, if there is
\* none and nothing is running, no answer.
FailOver(c) ==
  /\ call[c] = "racing"
  /\ Finished(c) # {}
  /\ \A p \in Finished(c) : attempt[c][p].at = "bad"
  /\ attempt' = [attempt EXCEPT ![c] = [p \in Providers |->
       IF p \in Finished(c) THEN Collected("failed")
       ELSE IF Untried(c) # {} /\ p = NextUp(c) THEN Launched
       ELSE attempt[c][p]]]
  /\ call' = [call EXCEPT ![c] =
       IF Untried(c) = {} /\ Pending(c) = {} THEN "failed" ELSE "racing"]
  /\ UNCHANGED <<breaker, rotation>>

\* An attempt is not answered by its deadline: the next provider is asked beside it.
HedgeFires(c, p) ==
  /\ call[c] = "racing"
  /\ Hedged(c)
  /\ Finished(c) = {}
  /\ p \in Pending(c)
  /\ attempt[c][p].armed
  /\ Untried(c) # {}
  /\ attempt' = [attempt EXCEPT ![c] =
       [@ EXCEPT ![p] = [attempt[c][p] EXCEPT !.armed = FALSE], ![NextUp(c)] = Launched]]
  /\ UNCHANGED <<breaker, call, rotation>>

\* Faulty: the cap is looked at only between two attempts.
CapBetweenAttempts(c) ==
  /\ call[c] = "racing"
  /\ Hedged(c)
  /\ Pending(c) = {}
  /\ Finished(c) = {}
  /\ Return(c, "capped")
  /\ UNCHANGED <<breaker, rotation>>

\* hedge_cap is over; what has finished is looked at first.
CapReached(c) ==
  /\ call[c] = "racing"
  /\ Hedged(c)
  /\ Finished(c) = {}
  /\ Return(c, "capped")
  /\ UNCHANGED <<breaker, rotation>>

\* The task that awaits chat() is cancelled.
CallerCancels(c) ==
  /\ call[c] = "racing"
  /\ Return(c, "cancelled")
  /\ UNCHANGED <<breaker, rotation>>

CooldownEnds(p) ==
  /\ breaker[p].opened = "cooling"
  /\ breaker' = [breaker EXCEPT ![p] = [@ EXCEPT !.opened = "cooled"]]
  /\ UNCHANGED <<call, rotation, attempt>>

-----------------------------------------------------------------------------
RequestEnds(c, p) ==
  \/ Answered(c, p) \/ Denied(c, p) \/ OutOfQuota(c, p) \/ QuotaInWords(c, p)
  \/ Broken(c, p) \/ Nameless(c, p)

LoopStep(c) == Win(c) \/ FailOver(c)

GatewayNext ==
  \/ \E c \in Calls :
       \/ Start(c) \/ LoopStep(c) \/ CapReached(c) \/ CallerCancels(c)
       \/ \E p \in Providers : Enter(c, p) \/ RequestEnds(c, p) \/ HedgeFires(c, p)
  \/ \E p \in Providers : CooldownEnds(p)

\* What the event loop, and the clock, get done for a call sooner or later. Requests
\* end only where nothing else bounds the call: one at a time, by the client's 60 s
\* timeout.
Progress(c) ==
  \/ LoopStep(c)
  \/ CapReached(c)
  \/ \E p \in Providers : Enter(c, p) \/ (~Hedged(c) /\ RequestEnds(c, p))

GatewayFairness == \A c \in Calls : WF_gvars(Progress(c))

GatewaySpec == GatewayInit /\ [][GatewayNext]_gvars /\ GatewayFairness

-----------------------------------------------------------------------------
GatewayTypeOK ==
  /\ breaker \in [Providers -> Breakers]
  /\ call \in [Calls -> {"idle", "racing"} \cup Outcomes]
  /\ \A c \in Calls : /\ InRotation(c) \subseteq Providers
                      /\ Cardinality(InRotation(c)) = Len(rotation[c])
  /\ attempt \in [Calls -> [Providers -> Attempts]]

\* A call fails only when every provider of its rotation was asked and failed; one that
\* fails or reaches the cap has received no answer, and one that is answered has:
\* failover, hedges and the cap lose no provider and no answer between them.
NoAnswerIsLost ==
  \A c \in Calls :
    /\ call[c] = "failed" => \A p \in InRotation(c) : attempt[c][p].at = "failed"
    /\ call[c] \in {"failed", "capped"} => \A p \in Providers : attempt[c][p].at # "ok"
    /\ call[c] = "answered" => \E p \in Providers : attempt[c][p].at = "ok"

\* A call that is over has no request under way that would still cost or touch a
\* breaker: losers of the race end before the call returns.
NoAttemptOutlivesCall ==
  \A c \in Calls : Pending(c) # {} => call[c] = "racing"

\* An attempt charges the breaker at most once for each of its models, and once more
\* for each key of the first: though _call_model() and chat() class errors differently
\* and both record, a request is recorded once, and that of the last key at most twice;
\* the three quick tries of a request count as one.
ChargesPerAttempt ==
  \A c \in Calls, p \in Providers : attempt[c][p].charged <= Models[p] + Keys[p]

\* Every call ends, the hedged ones even if no provider ever responds.
EveryCallEnds == \A c \in Calls : call[c] = "racing" ~> call[c] \in Outcomes
=============================================================================
