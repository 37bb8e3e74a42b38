------------------------ MODULE ExecutionAuthority --------------------------
(***************************************************************************)
(* What the task kernel promises about the right to execute a task, with   *)
(* no leases, clocks, epochs or journals: at most one attempt of a task    *)
(* has the right at a time, every attempt is a new one, a right that ended *)
(* does not come back, and a closed task never gets another attempt.       *)
(***************************************************************************)
EXTENDS Naturals

CONSTANT Tasks

VARIABLES
  phase,  \* "open": nobody may execute it; "held": one attempt may; "closed"
  attempt \* the number of attempts granted so far

avars == <<phase, attempt>>

Phases == {"open", "held", "closed"}

AInit ==
  /\ phase = [t \in Tasks |-> "open"]
  /\ attempt = [t \in Tasks |-> 0]

\* What one step may do to one task.
Keeps(t) == phase'[t] = phase[t] /\ attempt'[t] = attempt[t]
Grants(t) == phase[t] = "open" /\ phase'[t] = "held" /\ attempt'[t] = attempt[t] + 1
Revokes(t) == phase[t] = "held" /\ phase'[t] = "open" /\ attempt'[t] = attempt[t]
Closes(t) == phase[t] # "closed" /\ phase'[t] = "closed" /\ attempt'[t] = attempt[t]

\* A sweep of the watchdogs or a queue scan touches several tasks in one
\* transaction; at most one of them is granted.
ANext ==
  /\ phase' \in [Tasks -> Phases]
  /\ attempt' \in [Tasks -> Nat]
  /\ \A t \in Tasks : Keeps(t) \/ Grants(t) \/ Revokes(t) \/ Closes(t)
  /\ \A t, u \in Tasks : Grants(t) /\ Grants(u) => t = u

ASpec == AInit /\ [][ANext]_avars
=============================================================================
