---------------------------- MODULE EffectLedger ----------------------------
(***************************************************************************)
(* What a request for a side effect is promised, with no leases, processes *)
(* or databases: the effect is produced only under a claim, at most once,  *)
(* a claim is given back only if it was not produced, and a closed request *)
(* stays closed.                                                           *)
(***************************************************************************)
EXTENDS Naturals

CONSTANT Tasks

VARIABLES
  claim,   \* "free", "claimed" or "closed"
  produced \* how often the effect was produced

lvars == <<claim, produced>>

LInit ==
  /\ claim = [t \in Tasks |-> "free"]
  /\ produced = [t \in Tasks |-> 0]

Take(t) ==
  /\ claim[t] = "free"
  /\ claim' = [claim EXCEPT ![t] = "claimed"]
  /\ UNCHANGED produced

Produce(t) ==
  /\ claim[t] = "claimed"
  /\ produced[t] = 0
  /\ produced' = [produced EXCEPT ![t] = 1]
  /\ UNCHANGED claim

GiveBack(t) ==
  /\ claim[t] = "claimed"
  /\ produced[t] = 0
  /\ claim' = [claim EXCEPT ![t] = "free"]
  /\ UNCHANGED produced

Close(t) ==
  /\ claim[t] = "claimed"
  /\ claim' = [claim EXCEPT ![t] = "closed"]
  /\ UNCHANGED produced

LNext == \E t \in Tasks : Take(t) \/ Produce(t) \/ GiveBack(t) \/ Close(t)

LSpec == LInit /\ [][LNext]_lvars
=============================================================================
