---------------------------- MODULE GatewayProofs ----------------------------
(***************************************************************************)
(* Proofs about the LLM gateway, for every chain of providers, every       *)
(* number of calls, keys and models and every threshold: no attempt        *)
(* outlives its call, what one may charge a breaker is bounded, no         *)
(* rotation asks a provider twice, and no answer is lost.                  *)
(***************************************************************************)
EXTENDS Gateway, FiniteSetTheorems, SequenceTheorems, TLAPS

-----------------------------------------------------------------------------
(* The inductive invariant, one attempt at a time. *)

AttemptsTyped == attempt \in [Calls -> [Providers -> Attempts]]

\* What the attempt a at p has charged: nothing before its first request, once for
\* each key it is through with while it tries the first model, and with a later model
\* at hand once for each earlier model and each key.
Paid(a, p) ==
  /\ a.charged <= Models[p] + Keys[p]
  /\ a.at = "launched" => a.charged = 0
  /\ a.at = "calling" =>
       /\ a.model \in 1..Models[p]
       /\ a.model = 1 => a.key \in 1..Keys[p] /\ a.charged < a.key
       /\ a.charged < a.model + Keys[p]

\* Only a call that is racing has attempts under way.
Fit(c, p) ==
  /\ attempt[c][p].at \in Running => call[c] = "racing"
  /\ Paid(attempt[c][p], p)

GatewayInv ==
  /\ AttemptsTyped
  /\ call \in [Calls -> {"idle", "racing"} \cup Outcomes]
  /\ \A c \in Calls, p \in Providers : Fit(c, p)

-----------------------------------------------------------------------------
(* What an attempt may become. *)

LEMMA AttemptFields ==
  ASSUME NEW a \in Attempts
  PROVE  /\ a.model \in Nat /\ a.key \in Nat /\ a.charged \in Nat
         /\ a.at \in {"unused", "launched", "calling", "ok", "bad", "failed", "cancelled"}
BY DEF Attempts

LEMMA Bounds ==
  ASSUME NEW p \in Providers
  PROVE  Keys[p] \in Nat /\ Keys[p] >= 1 /\ Models[p] \in Nat /\ Models[p] >= 1
BY GatewayAssumption

LEMMA FreshAttempts ==
  /\ Unused \in Attempts /\ Unused.at = "unused" /\ Unused.charged = 0
  /\ Launched \in Attempts /\ Launched.at = "launched" /\ Launched.charged = 0
BY DEF Unused, Launched, Attempts

\* An attempt that has charged nothing and asks nothing is within its bounds.
LEMMA NothingPaid ==
  ASSUME NEW p \in Providers, NEW a \in Attempts, a.charged = 0, a.at # "calling"
  PROVE  Paid(a, p)
BY Bounds DEF Paid

LEMMA CollectedFacts ==
  ASSUME NEW how \in {"unused", "launched", "calling", "ok", "bad", "failed", "cancelled"}
  PROVE  /\ Collected(how) \in Attempts /\ Collected(how).at = how
         /\ Collected(how).charged = 0
BY DEF Collected, Unused, Attempts

LEMMA EndedFacts ==
  ASSUME NEW a \in Attempts, NEW how \in {"ok", "bad"}
  PROVE  /\ Ended(a, how) \in Attempts /\ Ended(a, how).at = how
         /\ Ended(a, how).charged = a.charged
BY DEF Ended, Unused, Attempts

LEMMA ChargedFacts ==
  ASSUME NEW a \in Attempts, NEW n \in Nat
  PROVE  /\ Charged(a, n) \in Attempts /\ Charged(a, n).charged = a.charged + n
         /\ Charged(a, n).model = a.model /\ Charged(a, n).key = a.key
BY DEF Charged, Attempts

\* One attempt changes, to one that fits.
LEMMA OneAttempt ==
  ASSUME GatewayInv, NEW c \in Calls, NEW p \in Providers, NEW a \in Attempts,
         attempt' = [attempt EXCEPT ![c][p] = a], UNCHANGED call,
         a.at \in Running => call[c] = "racing", Paid(a, p)
  PROVE  GatewayInv'
<1>1. AttemptsTyped'
  BY DEF GatewayInv, AttemptsTyped
<1>2. /\ attempt'[c][p] = a
      /\ \A d \in Calls, q \in Providers : d # c \/ q # p => attempt'[d][q] = attempt[d][q]
  BY DEF GatewayInv, AttemptsTyped
<1>3. ASSUME NEW d \in Calls, NEW q \in Providers
      PROVE  Fit(d, q)'
  <2>1. CASE d = c /\ q = p
    BY <1>2, <2>1 DEF Fit
  <2>2. CASE d # c \/ q # p
    BY <1>2, <2>2 DEF Fit, GatewayInv
  <2> QED BY <2>1, <2>2
<1> QED BY <1>1, <1>3 DEF GatewayInv

\* The attempts of one call change, and what the call is doing.
LEMMA OneCall ==
  ASSUME GatewayInv, NEW c \in Calls, NEW now \in {"racing"} \cup Outcomes,
         NEW f \in [Providers -> Attempts],
         attempt' = [attempt EXCEPT ![c] = f], call' = [call EXCEPT ![c] = now],
         \A p \in Providers : (f[p].at \in Running => now = "racing") /\ Paid(f[p], p)
  PROVE  GatewayInv'
<1>1. AttemptsTyped' /\ call' \in [Calls -> {"idle", "racing"} \cup Outcomes]
  BY DEF GatewayInv, AttemptsTyped
<1>2. /\ attempt'[c] = f /\ call'[c] = now
      /\ \A d \in Calls \ {c} : attempt'[d] = attempt[d] /\ call'[d] = call[d]
  BY DEF GatewayInv, AttemptsTyped
<1>3. ASSUME NEW d \in Calls, NEW q \in Providers
      PROVE  Fit(d, q)'
  <2>1. CASE d = c
    BY <1>2, <2>1 DEF Fit
  <2>2. CASE d # c
    BY <1>2, <2>2 DEF Fit, GatewayInv
  <2> QED BY <2>1, <2>2
<1> QED BY <1>1, <1>3 DEF GatewayInv

LEMMA RequestFits ==
  ASSUME GatewayInv, NEW c \in Calls, NEW p \in Providers, NEW b, NEW a \in Attempts,
         NEW model \in 1..Models[p], NEW key \in Nat,
         call[c] = "racing", a.charged <= Models[p] + Keys[p],
         a.charged < model + Keys[p],
         model = 1 => key \in 1..Keys[p] /\ a.charged < key,
         Request(c, p, b, a, model, key), UNCHANGED call
  PROVE  GatewayInv'
<1> DEFINE asking == [a EXCEPT !.at = "calling", !.model = model, !.key = key]
<1>1. /\ asking \in Attempts /\ asking.at = "calling" /\ asking.charged = a.charged
      /\ asking.model = model /\ asking.key = key
  <2>1. model \in Nat
    BY Bounds
  <2> QED BY <2>1 DEF Attempts
<1>2. attempt' = [attempt EXCEPT ![c][p] = IF IsOpen(b) THEN Ended(a, "bad") ELSE asking]
  BY DEF Request
<1> HIDE DEF asking
<1>3. CASE IsOpen(b)
  <2>1. Ended(a, "bad") \in Attempts /\ Ended(a, "bad").at = "bad"
    BY EndedFacts
  <2>2. Paid(Ended(a, "bad"), p)
    BY <2>1, EndedFacts DEF Paid
  <2>3. attempt' = [attempt EXCEPT ![c][p] = Ended(a, "bad")]
    BY <1>2, <1>3
  <2> QED BY <2>1, <2>2, <2>3, OneAttempt DEF Running
<1>4. CASE ~IsOpen(b)
  <2>1. attempt' = [attempt EXCEPT ![c][p] = asking]
    BY <1>2, <1>4
  <2>2. Paid(asking, p)
    BY <1>1 DEF Paid
  <2> QED BY <1>1, <2>1, <2>2, OneAttempt
<1> QED BY <1>3, <1>4

LEMMA FinishFits ==
  ASSUME GatewayInv, NEW c \in Calls, NEW p \in Providers, NEW b, NEW a \in Attempts,
         NEW how \in {"ok", "bad"}, a.charged <= Models[p] + Keys[p],
         Finish(c, p, b, a, how), UNCHANGED call
  PROVE  GatewayInv'
<1>1. attempt' = [attempt EXCEPT ![c][p] = Ended(a, how)]
  BY DEF Finish
<1>2. Ended(a, how) \in Attempts /\ Ended(a, how).at = how
  BY EndedFacts
<1>3. Paid(Ended(a, how), p)
  BY <1>2, EndedFacts DEF Paid
<1> QED BY <1>1, <1>2, <1>3, OneAttempt DEF Running

\* The attempt a, through with its model, has charged once for each key and model.
LEMMA NextModelFits ==
  ASSUME GatewayInv, NEW c \in Calls, NEW p \in Providers, NEW b, NEW a \in Attempts,
         call[c] = "racing", a.model \in 1..Models[p], a.charged <= a.model + Keys[p],
         NextModel(c, p, b, a), UNCHANGED call
  PROVE  GatewayInv'
<1>1. /\ a.charged \in Nat /\ Keys[p] \in Nat /\ Models[p] \in Nat
      /\ a.charged <= Models[p] + Keys[p]
  BY AttemptFields, Bounds
<1>2. CASE a.model < Models[p]
  <2>1. Request(c, p, b, a, a.model + 1, 1)
    BY <1>2 DEF NextModel
  <2>2. /\ a.model + 1 \in 1..Models[p] /\ a.charged < a.model + 1 + Keys[p]
        /\ a.model + 1 # 1 /\ 1 \in Nat
    BY <1>1, <1>2
  <2> QED BY <1>1, <2>1, <2>2, RequestFits
<1>3. CASE ~(a.model < Models[p])
  <2>1. Finish(c, p, b, a, "bad")
    BY <1>3 DEF NextModel
  <2> QED BY <1>1, <2>1, FinishFits
<1> QED BY <1>2, <1>3

\* The attempt a goes on from a key of the first model that is not the last.
LEMMA NextKeyFits ==
  ASSUME GatewayInv, NEW c \in Calls, NEW p \in Providers, NEW b, NEW a \in Attempts,
         call[c] = "racing", a.model = 1, a.key < Keys[p], a.charged <= a.key,
         NextKey(c, p, b, a), UNCHANGED call
  PROVE  GatewayInv'
<1>1. /\ a.charged \in Nat /\ a.key \in Nat
      /\ Keys[p] \in Nat /\ Models[p] \in Nat /\ Models[p] >= 1
  BY AttemptFields, Bounds
<1>2. CASE IsOpen(b)
  <2>1. NextModel(c, p, b, a)
    BY <1>2 DEF NextKey
  <2>2. a.model \in 1..Models[p] /\ a.charged <= a.model + Keys[p]
    BY <1>1
  <2> QED BY <2>1, <2>2, NextModelFits
<1>3. CASE ~IsOpen(b)
  <2>1. Request(c, p, b, a, 1, a.key + 1)
    BY <1>3 DEF NextKey
  <2>2. /\ 1 \in 1..Models[p] /\ a.key + 1 \in 1..Keys[p] /\ a.key + 1 \in Nat
        /\ a.charged < a.key + 1 /\ a.charged < 1 + Keys[p]
        /\ a.charged <= Models[p] + Keys[p]
    BY <1>1
  <2> QED BY <2>1, <2>2, RequestFits
<1> QED BY <1>2, <1>3

-----------------------------------------------------------------------------
(* The steps. *)

LEMMA EnterFits ==
  ASSUME GatewayInv, NEW c \in Calls, NEW p \in Providers, Enter(c, p)
  PROVE  GatewayInv'
<1> DEFINE a == attempt[c][p]
<1>1. a \in Attempts /\ Fit(c, p)
  BY DEF GatewayInv, AttemptsTyped
<1>2. /\ call[c] = "racing" /\ Request(c, p, breaker[p], a, 1, 1) /\ call' = call
      /\ a.charged = 0
  BY <1>1 DEF Enter, Fit, Paid, Running
<1>3. /\ 1 \in 1..Models[p] /\ 1 \in 1..Keys[p] /\ 1 \in Nat
      /\ a.charged < 1 /\ a.charged < 1 + Keys[p] /\ a.charged <= Models[p] + Keys[p]
  BY <1>2, Bounds
<1> HIDE DEF a
<1> QED BY <1>1, <1>2, <1>3, RequestFits

LEMMA RequestEndsFits ==
  ASSUME GatewayInv, NEW c \in Calls, NEW p \in Providers, RequestEnds(c, p)
  PROVE  GatewayInv'
<1> DEFINE a == attempt[c][p]
<1>1. a \in Attempts /\ Fit(c, p)
  BY DEF GatewayInv, AttemptsTyped
<1>2. a.at = "calling" /\ call' = call
  BY DEF RequestEnds, Answered, Denied, OutOfQuota, QuotaInWords, Broken, Nameless
<1>3. /\ a.charged \in Nat /\ a.key \in Nat /\ Keys[p] \in Nat /\ Models[p] \in Nat
      /\ a.charged <= Models[p] + Keys[p] /\ a.model \in 1..Models[p]
      /\ a.model = 1 => a.key <= Keys[p] /\ a.charged < a.key
      /\ a.charged < a.model + Keys[p] /\ call[c] = "racing"
  BY <1>1, <1>2, AttemptFields, Bounds DEF Fit, Paid, Running
<1>4. CASE Answered(c, p)
  BY <1>1, <1>2, <1>3, <1>4, FinishFits DEF Answered
<1>5. CASE Denied(c, p)
  BY <1>1, <1>2, <1>3, <1>5, FinishFits DEF Denied
<1>6. ASSUME NEW b, NextModel(c, p, b, a)
      PROVE  GatewayInv'
  BY <1>1, <1>2, <1>3, <1>6, NextModelFits
<1>7. ASSUME NEW b, NEW n \in Nat, NextModel(c, p, b, Charged(a, n)),
             n <= 1 \/ (a.model = 1 /\ n <= 2)
      PROVE  GatewayInv'
  <2>1. /\ Charged(a, n) \in Attempts /\ Charged(a, n).charged = a.charged + n
        /\ Charged(a, n).model = a.model
    BY <1>1, ChargedFacts
  <2>2. a.charged + n <= a.model + Keys[p]
    BY <1>3, <1>7
  <2> HIDE DEF a
  <2> QED BY <1>2, <1>3, <1>7, <2>1, <2>2, NextModelFits
<1>8. ASSUME NEW b, NextKey(c, p, b, a), KeyLeft(c, p)
      PROVE  GatewayInv'
  <2>1. a.model = 1 /\ a.key < Keys[p] /\ a.charged <= a.key
    BY <1>3, <1>8 DEF KeyLeft
  <2> QED BY <1>1, <1>2, <1>3, <1>8, <2>1, NextKeyFits
<1>9. ASSUME NEW b, NextKey(c, p, b, Charged(a, 1)), KeyLeft(c, p)
      PROVE  GatewayInv'
  <2>1. a.model = 1 /\ a.key < Keys[p] /\ a.charged + 1 <= a.key
    BY <1>3, <1>9 DEF KeyLeft
  <2>2. /\ Charged(a, 1) \in Attempts /\ Charged(a, 1).charged = a.charged + 1
        /\ Charged(a, 1).model = a.model /\ Charged(a, 1).key = a.key
    BY <1>1, ChargedFacts
  <2> HIDE DEF a
  <2> QED BY <1>2, <1>3, <1>9, <2>1, <2>2, NextKeyFits
<1>10. CASE OutOfQuota(c, p)
  BY <1>6, <1>7, <1>8, <1>10 DEF OutOfQuota
<1>11. CASE QuotaInWords(c, p)
  BY <1>7, <1>9, <1>11 DEF QuotaInWords
<1>12. CASE Broken(c, p)
  BY <1>7, <1>12 DEF Broken
<1>13. CASE Nameless(c, p)
  BY <1>6, <1>8, <1>13 DEF Nameless
<1> QED BY <1>4, <1>5, <1>10, <1>11, <1>12, <1>13 DEF RequestEnds

\* The call starts; it was idle, so it had nothing under way.
LEMMA StartFits ==
  ASSUME GatewayInv, NEW c \in Calls, Start(c)
  PROVE  GatewayInv'
<1>1. call[c] = "idle" /\ attempt[c] \in [Providers -> Attempts]
  BY DEF Start, GatewayInv, AttemptsTyped
<1>2. \A p \in Providers : attempt[c][p].at \notin Running /\ Paid(attempt[c][p], p)
  BY <1>1 DEF GatewayInv, Fit, Running
<1>3. CASE call' = [call EXCEPT ![c] = "failed"] /\ UNCHANGED attempt
  <2> DEFINE f == attempt[c]
             now == "failed"
  <2>1. f \in [Providers -> Attempts] /\ attempt' = [attempt EXCEPT ![c] = f]
    BY <1>1, <1>3 DEF GatewayInv, AttemptsTyped
  <2>2. now \in {"racing"} \cup Outcomes /\ call' = [call EXCEPT ![c] = now]
    BY <1>3 DEF Outcomes
  <2>3. \A p \in Providers : (f[p].at \in Running => now = "racing") /\ Paid(f[p], p)
    BY <1>2
  <2> HIDE DEF f, now
  <2> QED BY <2>1, <2>2, <2>3, OneCall
<1>4. ASSUME NEW first, call' = [call EXCEPT ![c] = "racing"],
             attempt' = [attempt EXCEPT ![c] = [@ EXCEPT ![first] = Launched]]
      PROVE  GatewayInv'
  <2> DEFINE f == [attempt[c] EXCEPT ![first] = Launched]
             now == "racing"
  <2>1. f \in [Providers -> Attempts] /\ \A p \in Providers : f[p] \in {attempt[c][p], Launched}
    BY <1>1, FreshAttempts
  <2>2. attempt' = [attempt EXCEPT ![c] = f]
    BY <1>4
  <2> HIDE DEF f
  <2>3. \A p \in Providers : (f[p].at \in Running => now = "racing") /\ Paid(f[p], p)
    BY <1>2, <2>1, FreshAttempts, NothingPaid
  <2>4. now \in {"racing"} \cup Outcomes /\ call' = [call EXCEPT ![c] = now]
    BY <1>4
  <2> HIDE DEF now
  <2> QED BY <2>1, <2>2, <2>3, <2>4, OneCall
<1>5. \/ call' = [call EXCEPT ![c] = "failed"] /\ UNCHANGED attempt
      \/ \E first : /\ call' = [call EXCEPT ![c] = "racing"]
                    /\ attempt' = [attempt EXCEPT ![c] = [@ EXCEPT ![first] = Launched]]
  BY DEF Start
<1> QED BY <1>3, <1>4, <1>5

\* The call ends, with whatever it leaves cancelled.
LEMMA ReturnFits ==
  ASSUME GatewayInv, NEW c \in Calls, NEW how \in Outcomes, Return(c, how)
  PROVE  GatewayInv'
<1> DEFINE f == [p \in Providers |-> IF p \in Pending(c) THEN Collected("cancelled")
                                     ELSE Collected(attempt[c][p].at)]
<1>1. \A p \in Providers : attempt[c][p] \in Attempts
  BY DEF GatewayInv, AttemptsTyped
<1>2. ASSUME NEW p \in Providers
      PROVE  f[p] \in Attempts /\ f[p].at \notin Running /\ f[p].charged = 0
  <2>1. CASE p \in Pending(c)
    BY <2>1, CollectedFacts DEF Running
  <2>2. CASE p \notin Pending(c)
    <3>1. attempt[c][p].at \notin Running
      BY <2>2 DEF Pending
    <3>2. attempt[c][p].at \in
            {"unused", "launched", "calling", "ok", "bad", "failed", "cancelled"}
      BY <1>1, AttemptFields
    <3>3. f[p] = Collected(attempt[c][p].at)
      BY <2>2
    <3> QED BY <3>1, <3>2, <3>3, CollectedFacts
  <2> QED BY <2>1, <2>2
<1>3. f \in [Providers -> Attempts]
  BY <1>2
<1>4. attempt' = [attempt EXCEPT ![c] = f] /\ call' = [call EXCEPT ![c] = how]
  BY DEF Return
<1> HIDE DEF f
<1>5. \A p \in Providers : Paid(f[p], p)
  BY <1>2, NothingPaid DEF Running
<1> QED BY <1>2, <1>3, <1>4, <1>5, OneCall

LEMMA FailOverFits ==
  ASSUME GatewayInv, NEW c \in Calls, FailOver(c)
  PROVE  GatewayInv'
<1> DEFINE f == [p \in Providers |->
                  IF p \in Finished(c) THEN Collected("failed")
                  ELSE IF Untried(c) # {} /\ p = NextUp(c) THEN Launched
                  ELSE attempt[c][p]]
           now == IF Untried(c) = {} /\ Pending(c) = {} THEN "failed" ELSE "racing"
<1>1. /\ call[c] = "racing" /\ attempt' = [attempt EXCEPT ![c] = f]
      /\ call' = [call EXCEPT ![c] = now]
  BY DEF FailOver
<1>2. \A p \in Providers : attempt[c][p] \in Attempts /\ Fit(c, p)
  BY DEF GatewayInv, AttemptsTyped
<1>3. ASSUME NEW p \in Providers
      PROVE  /\ f[p] \in Attempts /\ Paid(f[p], p)
             /\ f[p].at \in Running => now = "racing"
  <2>1. CASE p \in Finished(c)
    <3>1. f[p] = Collected("failed") /\ f[p].at = "failed"
      BY <2>1, CollectedFacts
    <3> QED BY <3>1, CollectedFacts, NothingPaid DEF Running
  <2>2. CASE p \notin Finished(c) /\ Untried(c) # {} /\ p = NextUp(c)
    BY <2>2, FreshAttempts, NothingPaid
  <2>3. CASE p \notin Finished(c) /\ ~(Untried(c) # {} /\ p = NextUp(c))
    <3>1. f[p] = attempt[c][p]
      BY <2>3
    <3>2. attempt[c][p].at \in Running => now = "racing"
      BY DEF Pending
    <3> QED BY <1>2, <3>1, <3>2 DEF Fit
  <2> QED BY <2>1, <2>2, <2>3
<1>4. f \in [Providers -> Attempts]
  BY <1>3
<1>5. now \in {"racing"} \cup Outcomes
  BY DEF Outcomes
<1> HIDE DEF f, now
<1> QED BY <1>1, <1>3, <1>4, <1>5, OneCall

LEMMA HedgeFits ==
  ASSUME GatewayInv, NEW c \in Calls, NEW p \in Providers, HedgeFires(c, p)
  PROVE  GatewayInv'
<1> DEFINE slow == [attempt[c][p] EXCEPT !.armed = FALSE]
           f == [attempt[c] EXCEPT ![p] = slow, ![NextUp(c)] = Launched]
           now == "racing"
<1>1. /\ call[c] = "racing" /\ attempt' = [attempt EXCEPT ![c] = f] /\ call' = call
  BY DEF HedgeFires
<1>2. /\ attempt[c] \in [Providers -> Attempts]
      /\ \A q \in Providers : attempt[c][q] \in Attempts /\ Fit(c, q)
  BY DEF GatewayInv, AttemptsTyped
<1>3. /\ slow \in Attempts /\ slow.at = attempt[c][p].at
      /\ slow.charged = attempt[c][p].charged
      /\ slow.model = attempt[c][p].model /\ slow.key = attempt[c][p].key
  BY <1>2 DEF Attempts
<1> HIDE DEF slow
<1>4. /\ f \in [Providers -> Attempts]
      /\ \A q \in Providers : f[q] \in {Launched, attempt[c][q]} \/ (q = p /\ f[q] = slow)
  BY <1>2, <1>3, FreshAttempts
<1>5. now \in {"racing"} \cup Outcomes /\ call' = [call EXCEPT ![c] = now]
  BY <1>1 DEF GatewayInv
<1> HIDE DEF f
<1>6. Paid(slow, p)
  BY <1>2, <1>3 DEF Fit, Paid
<1>7. \A q \in Providers : (f[q].at \in Running => now = "racing") /\ Paid(f[q], q)
  BY <1>2, <1>4, <1>6, FreshAttempts, NothingPaid DEF Fit
<1> HIDE DEF now
<1> QED BY <1>1, <1>4, <1>5, <1>7, OneCall

LEMMA GatewayStep == GatewayInv /\ [GatewayNext]_gvars => GatewayInv'
<1> SUFFICES ASSUME GatewayInv, [GatewayNext]_gvars PROVE GatewayInv'
  OBVIOUS
<1>1. CASE UNCHANGED gvars
  BY <1>1 DEF gvars, GatewayInv, AttemptsTyped, Fit
<1>2. ASSUME NEW c \in Calls, Start(c) \/ LoopStep(c) \/ CapReached(c) \/ CallerCancels(c)
      PROVE  GatewayInv'
  <2>1. CASE Start(c)
    BY <2>1, StartFits
  <2>2. CASE Win(c)
    BY <2>2, ReturnFits DEF Win, Outcomes
  <2>3. CASE FailOver(c)
    BY <2>3, FailOverFits
  <2>4. CASE CapReached(c)
    BY <2>4, ReturnFits DEF CapReached, Outcomes
  <2>5. CASE CallerCancels(c)
    BY <2>5, ReturnFits DEF CallerCancels, Outcomes
  <2> QED BY <1>2, <2>1, <2>2, <2>3, <2>4, <2>5 DEF LoopStep
<1>3. ASSUME NEW c \in Calls, NEW p \in Providers,
             Enter(c, p) \/ RequestEnds(c, p) \/ HedgeFires(c, p)
      PROVE  GatewayInv'
  BY <1>3, EnterFits, RequestEndsFits, HedgeFits
<1>4. ASSUME NEW p \in Providers, CooldownEnds(p)
      PROVE  GatewayInv'
  BY <1>4 DEF CooldownEnds, GatewayInv, AttemptsTyped, Fit
<1> QED BY <1>1, <1>2, <1>3, <1>4 DEF GatewayNext

LEMMA GatewayStarts == GatewayInit => GatewayInv
<1> SUFFICES ASSUME GatewayInit PROVE GatewayInv
  OBVIOUS
<1>1. AttemptsTyped /\ call \in [Calls -> {"idle", "racing"} \cup Outcomes]
  BY FreshAttempts DEF GatewayInit, AttemptsTyped
<1>2. \A c \in Calls, p \in Providers : Fit(c, p)
  BY FreshAttempts, NothingPaid DEF GatewayInit, Fit, Running
<1> QED BY <1>1, <1>2 DEF GatewayInv

LEMMA GatewayAlways == GatewaySpec => []GatewayInv
BY GatewayStarts, GatewayStep, PTL DEF GatewaySpec

-----------------------------------------------------------------------------
\* A call that is over has no request under way: the race ends its losers before it
\* returns, for any number of providers, hedges and cancelled callers.
THEOREM NoAttemptOutlivesCallAlways == GatewaySpec => []NoAttemptOutlivesCall
<1>1. GatewayInv => NoAttemptOutlivesCall
  BY DEF GatewayInv, Fit, NoAttemptOutlivesCall, Pending
<1> QED BY <1>1, GatewayAlways, PTL

\* An attempt charges its provider's breaker at most once for each of its models and
\* once more for each key of the first, whatever the errors it meets, the other calls
\* that share the breaker and the cooldowns in between.
THEOREM ChargesPerAttemptAlways == GatewaySpec => []ChargesPerAttempt
<1>1. GatewayInv => ChargesPerAttempt
  BY DEF GatewayInv, Fit, Paid, ChargesPerAttempt
<1> QED BY <1>1, GatewayAlways, PTL

-----------------------------------------------------------------------------
(* The rest of the state: breakers, rotations, and what a call that is over    *)
(* leaves behind.                                                              *)

\* A call asks no provider twice, and one that is over has answered or given up on
\* what its attempts say.
CallFits(c) ==
  /\ rotation[c] \in Seq(Providers)
  /\ \A m, n \in 1..Len(rotation[c]) : rotation[c][m] = rotation[c][n] => m = n
  /\ call[c] = "idle" =>
       rotation[c] = <<>> /\ \A p \in Providers : attempt[c][p].at = "unused"
  /\ call[c] = "racing" => \A p \in Providers : attempt[c][p].at # "cancelled"
  /\ call[c] = "failed" => \A p \in InRotation(c) : attempt[c][p].at = "failed"
  /\ call[c] \in {"failed", "capped"} => \A p \in Providers : attempt[c][p].at # "ok"
  /\ call[c] = "answered" => \E p \in Providers : attempt[c][p].at = "ok"

BreakersTyped == breaker \in [Providers -> Breakers]

RaceInv ==
  /\ GatewayInv
  /\ BreakersTyped
  /\ rotation \in [Calls -> Seq(Providers)]
  /\ \A c \in Calls : CallFits(c)

-----------------------------------------------------------------------------
(* The breakers. *)

LEMMA BreakerOperations ==
  ASSUME NEW b \in Breakers
  PROVE  Looked(b) \in Breakers /\ RecordSuccess(b) \in Breakers /\ RecordFailure(b) \in Breakers
<1>1. Threshold \in Nat /\ Threshold >= 1
  BY GatewayAssumption
<1>2. b.failures \in 0..Threshold /\ b.opened \in {"no", "cooling", "cooled"}
  BY DEF Breakers
<1>3. Looked(b) \in Breakers
  BY <1>1 DEF Looked, Breakers
<1>4. RecordSuccess(b) \in Breakers
  BY <1>1 DEF RecordSuccess, Breakers
<1>5. RecordFailure(b) \in Breakers
  <2>1. CASE b.failures + 1 >= Threshold
    BY <1>1, <1>2, <2>1 DEF RecordFailure, Breakers
  <2>2. CASE ~(b.failures + 1 >= Threshold)
    <3>1. b.failures + 1 \in 0..Threshold
      BY <1>1, <1>2, <2>2
    <3> QED BY <1>2, <2>2, <3>1 DEF RecordFailure, Breakers
  <2> QED BY <2>1, <2>2
<1> QED BY <1>3, <1>4, <1>5

-----------------------------------------------------------------------------
(* The pool and its rotations. *)

LEMMA ProvidersFinite == IsFiniteSet(Providers)
<1>1. Chain \in [1..Len(Chain) -> Providers] /\ Len(Chain) \in Nat
  BY GatewayAssumption, LenProperties
<1>2. \A p \in Providers : \E n \in 1..Len(Chain) : Chain[n] = p
  BY DEF Providers
<1>3. Chain \in Surjection(1..Len(Chain), Providers)
  BY <1>1, <1>2 DEF Surjection
<1>4. IsFiniteSet(1..Len(Chain))
  BY <1>1, FS_Interval
<1> QED BY <1>3, <1>4, FS_Surjection

\* A pool names each of its providers once: none comes before itself.
LEMMA PoolFacts ==
  ASSUME NEW ps \in SUBSET Providers, NEW pool \in PoolOf(ps)
  PROVE  /\ pool \in Seq(ps)
         /\ Len(pool) \in Nat
         /\ \A m, n \in 1..Len(pool) : pool[m] = pool[n] => m = n
<1>1. Cardinality(ps) \in Nat
  BY ProvidersFinite, FS_Subset, FS_CardinalityType
<1>2. pool \in [1..Cardinality(ps) -> ps]
  BY DEF PoolOf
<1>3. pool \in Seq(ps)
  BY <1>1, <1>2, SeqDef
<1>4. Len(pool) = Cardinality(ps)
  BY <1>1, <1>2, <1>3, LenProperties
<1>5. ASSUME NEW p, Before(p, p)
      PROVE  FALSE
  <2>1. PICK m, n \in 1..Len(Chain) : m < n /\ Chain[m] = p /\ Chain[n] = p
    BY <1>5 DEF Before
  <2>2. m = n
    BY <2>1, GatewayAssumption
  <2> QED BY <2>1, <2>2
<1>6. \A m, n \in 1..Cardinality(ps) : m < n => Before(pool[m], pool[n])
  BY DEF PoolOf
<1>7. ASSUME NEW m \in 1..Cardinality(ps), NEW n \in 1..Cardinality(ps), pool[m] = pool[n]
      PROVE  m = n
  <2>1. ~(m < n) /\ ~(n < m)
    BY <1>5, <1>6, <1>7
  <2> QED BY <1>1, <2>1
<1> QED BY <1>1, <1>3, <1>4, <1>7

\* A rotation names the same providers, each once.
LEMMA RotationFacts ==
  ASSUME NEW pool \in Seq(Providers), NEW start \in 1..Len(pool),
         \A m, n \in 1..Len(pool) : pool[m] = pool[n] => m = n
  PROVE  /\ RotationFrom(pool, start) \in Seq(Providers)
         /\ \A m, n \in 1..Len(RotationFrom(pool, start)) :
              RotationFrom(pool, start)[m] = RotationFrom(pool, start)[n] => m = n
<1> DEFINE k == Len(pool)
           s1 == SubSeq(pool, start, k)
           s2 == SubSeq(pool, 1, start - 1)
           r == s1 \o s2
<1>1. k \in Nat /\ \A i \in 1..k : pool[i] \in Providers
  BY LenProperties
<1>2. start \in Int /\ start - 1 \in Int /\ k \in Int /\ 1 <= start /\ start <= k
  BY <1>1
<1> HIDE DEF k
<1>3. \A i \in start..k : pool[i] \in Providers
  BY <1>1, <1>2
<1>4. /\ s1 \in Seq(Providers) /\ Len(s1) = k - start + 1
      /\ \A i \in 1..k - start + 1 : s1[i] = pool[start + i - 1]
  BY <1>2, <1>3, SubSeqProperties
<1>5. \A i \in 1..start - 1 : pool[i] \in Providers
  BY <1>1, <1>2
<1>6. /\ s2 \in Seq(Providers)
      /\ Len(s2) = (IF 1 <= start - 1 THEN start - 1 - 1 + 1 ELSE 0)
      /\ \A i \in 1..start - 1 - 1 + 1 : s2[i] = pool[1 + i - 1]
  BY <1>2, <1>5, SubSeqProperties
<1>7. Len(s2) = start - 1 /\ \A i \in 1..start - 1 : s2[i] = pool[i]
  BY <1>2, <1>6
<1>8. r = RotationFrom(pool, start)
  BY DEF RotationFrom, k
<1> HIDE DEF s1, s2
<1>9. /\ r \in Seq(Providers) /\ Len(r) = k
      /\ \A i \in 1..k : r[i] = IF i <= k - start + 1 THEN s1[i] ELSE s2[i - (k - start + 1)]
  <2>1. Len(s1) + Len(s2) = k
    BY <1>2, <1>4, <1>7
  <2>2. /\ r \in Seq(Providers) /\ Len(r) = Len(s1) + Len(s2)
        /\ \A i \in 1..Len(s1) + Len(s2) :
             r[i] = IF i <= Len(s1) THEN s1[i] ELSE s2[i - Len(s1)]
    BY <1>4, <1>6, ConcatProperties
  <2> QED BY <1>4, <2>1, <2>2
<1> HIDE DEF r
<1> DEFINE at(i) == IF i <= k - start + 1 THEN start + i - 1 ELSE i - (k - start + 1)
<1>10. ASSUME NEW i \in 1..k
       PROVE  at(i) \in 1..k /\ r[i] = pool[at(i)]
  <2>1. CASE i <= k - start + 1
    <3>1. i \in 1..k - start + 1 /\ r[i] = s1[i]
      BY <1>2, <1>9, <2>1
    <3>2. s1[i] = pool[start + i - 1] /\ start + i - 1 \in 1..k
      BY <1>2, <1>4, <3>1
    <3> QED BY <2>1, <3>1, <3>2
  <2>2. CASE ~(i <= k - start + 1)
    <3>1. i - (k - start + 1) \in 1..start - 1 /\ i - (k - start + 1) \in 1..k
      BY <1>2, <2>2
    <3>2. r[i] = s2[i - (k - start + 1)]
      BY <1>9, <2>2
    <3> QED BY <1>7, <2>2, <3>1, <3>2
  <2> QED BY <2>1, <2>2
<1>11. ASSUME NEW m \in 1..k, NEW n \in 1..k, r[m] = r[n]
       PROVE  m = n
  <2>1. at(m) = at(n)
    <3>1. pool[at(m)] = pool[at(n)] /\ at(m) \in 1..k /\ at(n) \in 1..k
      BY <1>10, <1>11
    <3> HIDE DEF at
    <3> QED BY <3>1 DEF k
  <2> QED BY <1>2, <2>1
<1> QED BY <1>8, <1>9, <1>11

\* A sequence that repeats nothing has as many elements as it is long.
LEMMA NoRepeatCounts ==
  ASSUME NEW r \in Seq(Providers), \A m, n \in 1..Len(r) : r[m] = r[n] => m = n
  PROVE  Cardinality({r[n] : n \in 1..Len(r)}) = Len(r)
<1> DEFINE T == {r[n] : n \in 1..Len(r)}
<1>1. Len(r) \in Nat /\ r \in [1..Len(r) -> Providers]
  BY LenProperties
<1>2. r \in [1..Len(r) -> T] /\ \A t \in T : \E n \in 1..Len(r) : r[n] = t
  BY <1>1
<1> HIDE DEF T
<1>3. r \in Bijection(1..Len(r), T)
  BY <1>2 DEF Bijection, Injection, IsInjective, Surjection
<1>4. ExistsBijection(1..Len(r), T)
  BY <1>3 DEF ExistsBijection
<1>5. Cardinality(T) = Len(r)
  BY <1>1, <1>4, FS_CountingElements
<1> QED BY <1>5 DEF T

-----------------------------------------------------------------------------
(* The steps, for the rest of the state. *)

\* One call changes, and the breakers.
LEMMA OneRace ==
  ASSUME RaceInv, GatewayInv', NEW c \in Calls, BreakersTyped',
         rotation' \in [Calls -> Seq(Providers)], CallFits(c)',
         \A d \in Calls \ {c} : /\ call'[d] = call[d] /\ rotation'[d] = rotation[d]
                                /\ attempt'[d] = attempt[d]
  PROVE  RaceInv'
<1>1. ASSUME NEW d \in Calls
      PROVE  CallFits(d)'
  <2>1. CASE d = c
    BY <2>1
  <2>2. CASE d # c
    <3>1. /\ call'[d] = call[d] /\ rotation'[d] = rotation[d] /\ attempt'[d] = attempt[d]
          /\ CallFits(d)
      BY <2>2 DEF RaceInv
    <3> QED BY <3>1 DEF CallFits, InRotation
  <2> QED BY <2>1, <2>2
<1> QED BY <1>1 DEF RaceInv

\* What a request does to a racing call: one attempt, which is not cancelled, and the
\* breaker of its provider.
Touches(c, p) ==
  /\ BreakersTyped'
  /\ \E a \in Attempts : /\ attempt' = [attempt EXCEPT ![c][p] = a]
                         /\ a.at # "cancelled"

LEMMA RequestTouches ==
  ASSUME RaceInv, NEW c \in Calls, NEW p \in Providers, NEW b \in Breakers,
         NEW a \in Attempts, NEW model \in Nat, NEW key \in Nat,
         Request(c, p, b, a, model, key)
  PROVE  Touches(c, p)
<1> DEFINE asking == [a EXCEPT !.at = "calling", !.model = model, !.key = key]
<1>1. asking \in Attempts /\ asking.at = "calling"
  BY DEF Attempts
<1>2. attempt' = [attempt EXCEPT ![c][p] = IF IsOpen(b) THEN Ended(a, "bad") ELSE asking]
  BY DEF Request
<1> HIDE DEF asking
<1>3. Ended(a, "bad") \in Attempts /\ Ended(a, "bad").at = "bad"
  BY EndedFacts
<1>4. \E x \in Attempts : attempt' = [attempt EXCEPT ![c][p] = x] /\ x.at # "cancelled"
  BY <1>1, <1>2, <1>3
<1>5. BreakersTyped'
  BY BreakerOperations DEF Request, RaceInv, BreakersTyped
<1> QED BY <1>4, <1>5 DEF Touches

LEMMA FinishTouches ==
  ASSUME RaceInv, NEW c \in Calls, NEW p \in Providers, NEW b \in Breakers,
         NEW a \in Attempts, NEW how \in {"ok", "bad"}, Finish(c, p, b, a, how)
  PROVE  Touches(c, p)
<1>1. attempt' = [attempt EXCEPT ![c][p] = Ended(a, how)]
  BY DEF Finish
<1>2. Ended(a, how) \in Attempts /\ Ended(a, how).at # "cancelled"
  BY EndedFacts
<1>3. BreakersTyped'
  BY DEF Finish, RaceInv, BreakersTyped
<1> QED BY <1>1, <1>2, <1>3 DEF Touches

LEMMA NextModelTouches ==
  ASSUME RaceInv, NEW c \in Calls, NEW p \in Providers, NEW b \in Breakers,
         NEW a \in Attempts, NextModel(c, p, b, a)
  PROVE  Touches(c, p)
<1>1. a.model + 1 \in Nat /\ 1 \in Nat
  BY AttemptFields
<1>2. CASE a.model < Models[p]
  <2>1. Request(c, p, b, a, a.model + 1, 1)
    BY <1>2 DEF NextModel
  <2> QED BY <1>1, <2>1, RequestTouches
<1>3. CASE ~(a.model < Models[p])
  <2>1. Finish(c, p, b, a, "bad")
    BY <1>3 DEF NextModel
  <2> QED BY <2>1, FinishTouches
<1> QED BY <1>2, <1>3

LEMMA NextKeyTouches ==
  ASSUME RaceInv, NEW c \in Calls, NEW p \in Providers, NEW b \in Breakers,
         NEW a \in Attempts, NextKey(c, p, b, a)
  PROVE  Touches(c, p)
<1>1. a.key + 1 \in Nat /\ 1 \in Nat
  BY AttemptFields
<1>2. CASE IsOpen(b)
  BY <1>2, NextModelTouches DEF NextKey
<1>3. CASE ~IsOpen(b)
  BY <1>1, <1>3, RequestTouches DEF NextKey
<1> QED BY <1>2, <1>3

LEMMA RequestsTouch ==
  ASSUME RaceInv, NEW c \in Calls, NEW p \in Providers, Enter(c, p) \/ RequestEnds(c, p)
  PROVE  Touches(c, p)
<1> DEFINE a == attempt[c][p]
           b == breaker[p]
<1>1. b \in Breakers /\ a \in Attempts
  BY DEF RaceInv, GatewayInv, AttemptsTyped, BreakersTyped
<1>2. /\ RecordSuccess(b) \in Breakers /\ RecordFailure(b) \in Breakers
      /\ RecordFailure(RecordFailure(b)) \in Breakers
  BY <1>1, BreakerOperations
<1>3. 1 \in Nat /\ 2 \in Nat /\ Charged(a, 1) \in Attempts /\ Charged(a, 2) \in Attempts
  BY <1>1, ChargedFacts
<1>4. CASE Enter(c, p)
  BY <1>1, <1>3, <1>4, RequestTouches DEF Enter
<1>5. CASE Answered(c, p)
  BY <1>1, <1>2, <1>5, FinishTouches DEF Answered
<1>6. CASE Denied(c, p)
  BY <1>1, <1>6, FinishTouches DEF Denied
<1>7. CASE OutOfQuota(c, p)
  BY <1>1, <1>2, <1>3, <1>7, NextKeyTouches, NextModelTouches DEF OutOfQuota
<1>8. CASE QuotaInWords(c, p)
  BY <1>1, <1>2, <1>3, <1>8, NextKeyTouches, NextModelTouches DEF QuotaInWords
<1>9. CASE Broken(c, p)
  BY <1>2, <1>3, <1>9, NextModelTouches DEF Broken
<1>10. CASE Nameless(c, p)
  BY <1>1, <1>10, NextKeyTouches, NextModelTouches DEF Nameless
<1> QED BY <1>4, <1>5, <1>6, <1>7, <1>8, <1>9, <1>10 DEF RequestEnds

LEMMA RequestsKeepRace ==
  ASSUME RaceInv, GatewayInv', NEW c \in Calls, NEW p \in Providers,
         Enter(c, p) \/ RequestEnds(c, p)
  PROVE  RaceInv'
<1>1. UNCHANGED <<call, rotation>> /\ attempt[c][p].at \in Running
  BY DEF Enter, RequestEnds, Answered, Denied, OutOfQuota, QuotaInWords, Broken,
         Nameless, Running
<1>2. call[c] = "racing"
  BY <1>1 DEF RaceInv, GatewayInv, Fit
<1>3. Touches(c, p)
  BY RequestsTouch
<1>4. PICK a \in Attempts : attempt' = [attempt EXCEPT ![c][p] = a] /\ a.at # "cancelled"
  BY <1>3 DEF Touches
<1>5. attempt \in [Calls -> [Providers -> Attempts]]
  BY DEF RaceInv, GatewayInv, AttemptsTyped
<1>6. \A d \in Calls \ {c} : attempt'[d] = attempt[d]
  BY <1>4, <1>5
<1>7. \A q \in Providers : attempt'[c][q] \in {attempt[c][q], a}
  BY <1>4, <1>5
<1>8. CallFits(c)'
  BY <1>1, <1>2, <1>4, <1>7 DEF RaceInv, CallFits
<1>9. BreakersTyped' /\ rotation' \in [Calls -> Seq(Providers)]
  BY <1>1, <1>3 DEF Touches, RaceInv
<1> QED BY <1>1, <1>6, <1>8, <1>9, OneRace

LEMMA StartKeepsRace ==
  ASSUME RaceInv, GatewayInv', NEW c \in Calls, Start(c)
  PROVE  RaceInv'
<1>1. /\ call[c] = "idle" /\ rotation[c] = <<>>
      /\ \A p \in Providers : attempt[c][p].at = "unused"
  BY DEF Start, RaceInv, CallFits
<1>2. /\ attempt \in [Calls -> [Providers -> Attempts]] /\ breaker \in [Providers -> Breakers]
      /\ rotation \in [Calls -> Seq(Providers)]
      /\ call \in [Calls -> {"idle", "racing"} \cup Outcomes]
  BY DEF RaceInv, GatewayInv, AttemptsTyped, BreakersTyped
<1>3. PICK between \in SUBSET {p \in Providers : IsOpen(breaker[p])} :
        /\ breaker' = [p \in Providers |->
             IF p \in between THEN Looked([breaker[p] EXCEPT !.opened = "cooled"])
             ELSE Looked(breaker[p])]
        /\ \/ /\ Providers \ between = {}
              /\ call' = [call EXCEPT ![c] = "failed"]
              /\ UNCHANGED <<rotation, attempt>>
           \/ \E pool \in PoolOf(Providers \ between) : \E start \in 1..Len(pool) :
                /\ rotation' = [rotation EXCEPT ![c] = RotationFrom(pool, start)]
                /\ attempt' = [attempt EXCEPT ![c] = [@ EXCEPT ![pool[start]] = Launched]]
                /\ call' = [call EXCEPT ![c] = "racing"]
  BY DEF Start
<1>4. BreakersTyped'
  <2>1. ASSUME NEW p \in Providers
        PROVE  /\ Looked([breaker[p] EXCEPT !.opened = "cooled"]) \in Breakers
               /\ Looked(breaker[p]) \in Breakers
    <3>1. breaker[p] \in Breakers /\ [breaker[p] EXCEPT !.opened = "cooled"] \in Breakers
      BY <1>2 DEF Breakers
    <3> QED BY <3>1, BreakerOperations
  <2> QED BY <1>3, <2>1 DEF BreakersTyped
<1>5. CASE call' = [call EXCEPT ![c] = "failed"] /\ UNCHANGED <<rotation, attempt>>
  <2>1. call'[c] = "failed" /\ rotation'[c] = <<>> /\ attempt'[c] = attempt[c]
    BY <1>1, <1>2, <1>5
  <2>2. Len(<<>>) = 0 /\ <<>> \in Seq(Providers)
    BY EmptySeq
  <2>3. CallFits(c)'
    BY <1>1, <2>1, <2>2 DEF CallFits, InRotation
  <2> QED BY <1>2, <1>4, <1>5, <2>3, OneRace
<1>6. ASSUME NEW pool \in PoolOf(Providers \ between), NEW start \in 1..Len(pool),
             rotation' = [rotation EXCEPT ![c] = RotationFrom(pool, start)],
             attempt' = [attempt EXCEPT ![c] = [@ EXCEPT ![pool[start]] = Launched]],
             call' = [call EXCEPT ![c] = "racing"]
      PROVE  RaceInv'
  <2>1. /\ pool \in Seq(Providers \ between)
        /\ \A m, n \in 1..Len(pool) : pool[m] = pool[n] => m = n
    BY PoolFacts
  <2>2. pool \in Seq(Providers)
    BY <2>1, SeqMonotonic
  <2>3. /\ RotationFrom(pool, start) \in Seq(Providers)
        /\ \A m, n \in 1..Len(RotationFrom(pool, start)) :
             RotationFrom(pool, start)[m] = RotationFrom(pool, start)[n] => m = n
    BY <2>1, <2>2, RotationFacts
  <2>4. call'[c] = "racing" /\ rotation'[c] = RotationFrom(pool, start)
    BY <1>2, <1>6
  <2>5. \A q \in Providers : attempt'[c][q] \in {attempt[c][q], Launched}
    BY <1>2, <1>6
  <2>6. CallFits(c)'
    BY <1>1, <2>3, <2>4, <2>5, FreshAttempts DEF CallFits
  <2>7. rotation' \in [Calls -> Seq(Providers)]
    BY <1>2, <1>6, <2>3
  <2>8. \A d \in Calls \ {c} : /\ call'[d] = call[d] /\ rotation'[d] = rotation[d]
                               /\ attempt'[d] = attempt[d]
    BY <1>2, <1>6
  <2> QED BY <1>4, <2>6, <2>7, <2>8, OneRace
<1> QED BY <1>3, <1>5, <1>6

\* A call returns with what its attempts say; what was under way is cancelled.
LEMMA ReturnFacts ==
  ASSUME RaceInv, NEW c \in Calls, NEW how \in Outcomes, Return(c, how)
  PROVE  /\ call'[c] = how
         /\ \A p \in Providers : attempt'[c][p].at =
              IF p \in Pending(c) THEN "cancelled" ELSE attempt[c][p].at
         /\ \A d \in Calls \ {c} : call'[d] = call[d] /\ attempt'[d] = attempt[d]
<1> DEFINE f == [p \in Providers |-> IF p \in Pending(c) THEN Collected("cancelled")
                                     ELSE Collected(attempt[c][p].at)]
<1>1. \A p \in Providers : attempt[c][p] \in Attempts
  BY DEF RaceInv, GatewayInv, AttemptsTyped
<1>2. \A p \in Providers : f[p].at = IF p \in Pending(c) THEN "cancelled" ELSE attempt[c][p].at
  BY <1>1, AttemptFields, CollectedFacts
<1>3. attempt' = [attempt EXCEPT ![c] = f] /\ call' = [call EXCEPT ![c] = how]
  BY DEF Return
<1> HIDE DEF f
<1>4. /\ attempt \in [Calls -> [Providers -> Attempts]]
      /\ call \in [Calls -> {"idle", "racing"} \cup Outcomes]
  BY DEF RaceInv, GatewayInv, AttemptsTyped
<1>5. attempt'[c] = f /\ call'[c] = how
  BY <1>3, <1>4
<1>6. \A d \in Calls \ {c} : call'[d] = call[d] /\ attempt'[d] = attempt[d]
  BY <1>3, <1>4
<1> QED BY <1>2, <1>5, <1>6

LEMMA ReturnKeepsRace ==
  ASSUME RaceInv, GatewayInv', NEW c \in Calls, NEW how \in Outcomes, how # "failed",
         Return(c, how), UNCHANGED <<breaker, rotation>>,
         how = "capped" => \A p \in Providers : attempt[c][p].at # "ok",
         how = "answered" => \E p \in Providers : attempt[c][p].at = "ok"
  PROVE  RaceInv'
<1>1. /\ call'[c] = how
      /\ \A p \in Providers : attempt'[c][p].at =
           IF p \in Pending(c) THEN "cancelled" ELSE attempt[c][p].at
      /\ \A d \in Calls \ {c} : call'[d] = call[d] /\ attempt'[d] = attempt[d]
  BY ReturnFacts
<1>2. how = "capped" => \A p \in Providers : attempt'[c][p].at # "ok"
  BY <1>1
<1>3. how = "answered" => \E p \in Providers : attempt'[c][p].at = "ok"
  BY <1>1 DEF Pending, Running
<1>4. CallFits(c)'
  BY <1>1, <1>2, <1>3 DEF RaceInv, CallFits, Outcomes
<1>5. BreakersTyped' /\ rotation' \in [Calls -> Seq(Providers)]
  BY DEF RaceInv, BreakersTyped
<1> QED BY <1>1, <1>4, <1>5, OneRace

LEMMA FailOverKeepsRace ==
  ASSUME RaceInv, GatewayInv', NEW c \in Calls, FailOver(c)
  PROVE  RaceInv'
<1> DEFINE f == [p \in Providers |->
                  IF p \in Finished(c) THEN Collected("failed")
                  ELSE IF Untried(c) # {} /\ p = NextUp(c) THEN Launched
                  ELSE attempt[c][p]]
           now == IF Untried(c) = {} /\ Pending(c) = {} THEN "failed" ELSE "racing"
<1>1. /\ attempt \in [Calls -> [Providers -> Attempts]]
      /\ call \in [Calls -> {"idle", "racing"} \cup Outcomes]
      /\ \A p \in Providers : attempt[c][p] \in Attempts
  BY DEF RaceInv, GatewayInv, AttemptsTyped
<1>2. /\ call[c] = "racing" /\ attempt' = [attempt EXCEPT ![c] = f]
      /\ call' = [call EXCEPT ![c] = now] /\ UNCHANGED <<breaker, rotation>>
      /\ \A p \in Finished(c) : attempt[c][p].at = "bad"
  BY DEF FailOver
<1>3. \A p \in Providers : attempt[c][p].at # "cancelled"
  BY <1>2 DEF RaceInv, CallFits
<1>4. ASSUME NEW p \in Providers
      PROVE  /\ f[p].at \notin {"cancelled", "ok"}
             /\ now = "failed" /\ p \in InRotation(c) => f[p].at = "failed"
  <2>1. CASE p \in Finished(c)
    BY <2>1, CollectedFacts
  <2>2. CASE p \notin Finished(c) /\ Untried(c) # {} /\ p = NextUp(c)
    BY <2>2, FreshAttempts
  <2>3. CASE p \notin Finished(c) /\ ~(Untried(c) # {} /\ p = NextUp(c))
    <3>1. f[p] = attempt[c][p]
      BY <2>3
    <3>2. attempt[c][p].at \notin {"ok", "bad", "cancelled"}
      BY <1>3, <2>3 DEF Finished
    <3>3. now = "failed" /\ p \in InRotation(c) =>
            attempt[c][p].at \notin {"unused", "launched", "calling"}
      BY DEF Untried, Pending, Running
    <3>4. attempt[c][p].at \in
            {"unused", "launched", "calling", "ok", "bad", "failed", "cancelled"}
      BY <1>1, AttemptFields
    <3> HIDE DEF f, now
    <3> QED BY <3>1, <3>2, <3>3, <3>4
  <2> QED BY <2>1, <2>2, <2>3
<1>5. now \in {"racing", "failed"}
  OBVIOUS
<1>6. InRotation(c) \subseteq Providers
  <2>1. rotation[c] \in Seq(Providers)
    BY DEF RaceInv
  <2> QED BY <2>1, ElementOfSeq DEF InRotation
<1> HIDE DEF f, now
<1>7. /\ attempt'[c] = f /\ call'[c] = now /\ rotation'[c] = rotation[c]
      /\ \A d \in Calls \ {c} : /\ call'[d] = call[d] /\ rotation'[d] = rotation[d]
                                /\ attempt'[d] = attempt[d]
  BY <1>1, <1>2
<1>8. InRotation(c)' = InRotation(c)
  BY <1>2 DEF InRotation
<1>9. /\ call'[c] = "racing" => \A p \in Providers : attempt'[c][p].at # "cancelled"
      /\ call'[c] = "failed" => /\ \A p \in InRotation(c)' : attempt'[c][p].at = "failed"
                                /\ \A p \in Providers : attempt'[c][p].at # "ok"
  BY <1>4, <1>6, <1>7, <1>8
<1>10. CallFits(c)'
  BY <1>5, <1>7, <1>9 DEF RaceInv, CallFits
<1>11. BreakersTyped' /\ rotation' \in [Calls -> Seq(Providers)]
  BY <1>2 DEF RaceInv, BreakersTyped
<1> QED BY <1>7, <1>10, <1>11, OneRace

LEMMA HedgeKeepsRace ==
  ASSUME RaceInv, GatewayInv', NEW c \in Calls, NEW p \in Providers, HedgeFires(c, p)
  PROVE  RaceInv'
<1> DEFINE slow == [attempt[c][p] EXCEPT !.armed = FALSE]
           f == [attempt[c] EXCEPT ![p] = slow, ![NextUp(c)] = Launched]
<1>1. /\ attempt \in [Calls -> [Providers -> Attempts]]
      /\ \A q \in Providers : attempt[c][q] \in Attempts
  BY DEF RaceInv, GatewayInv, AttemptsTyped
<1>2. /\ call[c] = "racing" /\ attempt' = [attempt EXCEPT ![c] = f]
      /\ UNCHANGED <<breaker, call, rotation>>
  BY DEF HedgeFires
<1>3. slow \in Attempts /\ slow.at = attempt[c][p].at
  BY <1>1 DEF Attempts
<1> HIDE DEF slow
<1>4. \A q \in Providers : f[q] \in {Launched, attempt[c][q]} \/ (q = p /\ f[q] = slow)
  BY <1>1
<1> HIDE DEF f
<1>5. attempt'[c] = f /\ \A d \in Calls \ {c} : attempt'[d] = attempt[d]
  BY <1>1, <1>2
<1>6. \A q \in Providers : attempt[c][q].at # "cancelled"
  BY <1>2 DEF RaceInv, CallFits
<1>7. \A q \in Providers : attempt'[c][q].at # "cancelled"
  BY <1>3, <1>4, <1>5, <1>6, FreshAttempts
<1>8. CallFits(c)'
  BY <1>2, <1>7 DEF RaceInv, CallFits
<1>9. BreakersTyped' /\ rotation' \in [Calls -> Seq(Providers)]
  BY <1>2 DEF RaceInv, BreakersTyped
<1> QED BY <1>2, <1>5, <1>8, <1>9, OneRace

LEMMA RaceStep == RaceInv /\ [GatewayNext]_gvars => RaceInv'
<1> SUFFICES ASSUME RaceInv, [GatewayNext]_gvars PROVE RaceInv'
  OBVIOUS
<1>1. GatewayInv'
  BY GatewayStep DEF RaceInv
<1>2. CASE UNCHANGED gvars
  BY <1>1, <1>2 DEF gvars, RaceInv, BreakersTyped, CallFits, InRotation
<1>3. ASSUME NEW c \in Calls, Start(c) \/ LoopStep(c) \/ CapReached(c) \/ CallerCancels(c)
      PROVE  RaceInv'
  <2>1. CASE Start(c)
    BY <1>1, <2>1, StartKeepsRace
  <2>2. CASE Win(c)
    <3>1. \E p \in Providers : attempt[c][p].at = "ok"
      BY <2>2 DEF Win, Finished
    <3> QED BY <1>1, <2>2, <3>1, ReturnKeepsRace DEF Win, Outcomes
  <2>3. CASE FailOver(c)
    BY <1>1, <2>3, FailOverKeepsRace
  <2>4. CASE CapReached(c)
    <3>1. \A p \in Providers : attempt[c][p].at # "ok"
      BY <2>4 DEF CapReached, Finished
    <3> QED BY <1>1, <2>4, <3>1, ReturnKeepsRace DEF CapReached, Outcomes
  <2>5. CASE CallerCancels(c)
    BY <1>1, <2>5, ReturnKeepsRace DEF CallerCancels, Outcomes
  <2> QED BY <1>3, <2>1, <2>2, <2>3, <2>4, <2>5 DEF LoopStep
<1>4. ASSUME NEW c \in Calls, NEW p \in Providers,
             Enter(c, p) \/ RequestEnds(c, p) \/ HedgeFires(c, p)
      PROVE  RaceInv'
  BY <1>1, <1>4, RequestsKeepRace, HedgeKeepsRace
<1>5. ASSUME NEW p \in Providers, CooldownEnds(p)
      PROVE  RaceInv'
  <2>1. BreakersTyped'
    BY <1>5 DEF CooldownEnds, RaceInv, BreakersTyped, Breakers
  <2>2. UNCHANGED <<call, rotation, attempt>>
    BY <1>5 DEF CooldownEnds
  <2> QED BY <1>1, <2>1, <2>2 DEF RaceInv, CallFits, InRotation
<1> QED BY <1>2, <1>3, <1>4, <1>5 DEF GatewayNext

LEMMA RaceAlways == GatewaySpec => []RaceInv
<1>1. GatewayInit => RaceInv
  <2> SUFFICES ASSUME GatewayInit PROVE RaceInv
    OBVIOUS
  <2>1. GatewayInv
    BY GatewayStarts
  <2>2. BreakersTyped
    BY GatewayAssumption DEF GatewayInit, BreakersTyped, Breakers
  <2>3. rotation \in [Calls -> Seq(Providers)] /\ \A c \in Calls : rotation[c] = <<>>
    BY EmptySeq DEF GatewayInit
  <2>4. Len(<<>>) = 0 /\ <<>> \in Seq(Providers)
    BY EmptySeq
  <2>5. \A c \in Calls : CallFits(c)
    BY <2>3, <2>4, FreshAttempts DEF GatewayInit, CallFits
  <2> QED BY <2>1, <2>2, <2>3, <2>5 DEF RaceInv
<1> QED BY <1>1, RaceStep, PTL DEF GatewaySpec

-----------------------------------------------------------------------------
\* Breakers, calls and attempts keep their types, and no rotation names a provider
\* that is not configured, or one twice.
THEOREM GatewayTypeCorrect == GatewaySpec => []GatewayTypeOK
<1>1. ASSUME RaceInv PROVE GatewayTypeOK
  <2>1. /\ breaker \in [Providers -> Breakers]
        /\ call \in [Calls -> {"idle", "racing"} \cup Outcomes]
        /\ attempt \in [Calls -> [Providers -> Attempts]]
    BY <1>1 DEF RaceInv, GatewayInv, AttemptsTyped, BreakersTyped
  <2>2. ASSUME NEW c \in Calls
        PROVE  /\ InRotation(c) \subseteq Providers
               /\ Cardinality(InRotation(c)) = Len(rotation[c])
    <3>1. /\ rotation[c] \in Seq(Providers)
          /\ \A m, n \in 1..Len(rotation[c]) : rotation[c][m] = rotation[c][n] => m = n
      BY <1>1 DEF RaceInv, CallFits
    <3> QED BY <3>1, ElementOfSeq, NoRepeatCounts DEF InRotation
  <2> QED BY <2>1, <2>2 DEF GatewayTypeOK
<1> QED BY <1>1, RaceAlways, PTL

\* A call fails only when every provider of its rotation was asked and failed, one that
\* fails or reaches the cap has received no answer, and one that is answered has:
\* whatever the order in which answers, failures, hedges and the cap come.
THEOREM NoAnswerEverLost == GatewaySpec => []NoAnswerIsLost
<1>1. RaceInv => NoAnswerIsLost
  BY DEF RaceInv, CallFits, NoAnswerIsLost
<1> QED BY <1>1, RaceAlways, PTL
=============================================================================
