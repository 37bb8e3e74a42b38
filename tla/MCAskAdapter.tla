----------------------------- MODULE MCAskAdapter -----------------------------
(***************************************************************************)
(* Instances of the ask adapter for TLC: the requests Same carry one       *)
(* question, the others another, all in one process.                       *)
(***************************************************************************)
EXTENDS AskAdapter, TLC

CONSTANTS Same, Asked, Repeated, Elsewhere

SharedOwner == [t \in Tasks |-> CHOOSE o \in Owners : TRUE]
Questions == [x \in Requests |-> IF x \in Same THEN Asked ELSE Elsewhere]
Repeats == [x \in Requests |-> IF x \in Same THEN Repeated ELSE Elsewhere]
OneProcess == [x \in Requests |-> CHOOSE i \in Instances : TRUE]

\* The requests of one question are interchangeable.
SameSymmetry == Permutations(Same)
=============================================================================
