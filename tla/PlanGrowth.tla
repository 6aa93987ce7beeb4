---------------------------- MODULE PlanGrowth ----------------------------
(***************************************************************************)
(* The abstract specification of the cleanup plan: the list of what the    *)
(* user asked to have removed.  It gains one subject at a time, at its     *)
(* end, and nothing is ever taken out of it or moved.                      *)
(***************************************************************************)
EXTENDS Sequences, SequencesExt

CONSTANT Subject
VARIABLE wanted

Init == wanted = <<>> \/ \E s \in Subject : wanted = <<s>>

Add(s) == s \notin Range(wanted) /\ wanted' = Append(wanted, s)

Next == \E s \in Subject : Add(s)

Spec == Init /\ [][Next]_wanted
=============================================================================
