-------------------------- MODULE ExecutionManifest --------------------------
(***************************************************************************)
(* The execution manifest of MacWise (src/macwise/models/execution.py) and *)
(* the rules every part of the program applies to one: which revision may *)
(* follow which, which manifests are valid, which actions an undo can      *)
(* reach.  Everything here is a constant-level operator.                   *)
(*                                                                         *)
(* An action's record keeps what the rules tell apart: its state, the      *)
(* observation captured before it and the one captured after it.  The      *)
(* "verification" and "error" fields follow from these and are left out.   *)
(* An observation is the value of the action's decisive fields:            *)
(*   "present"  the target as the audit found it (package installed,       *)
(*              service running, original bundle at its path)              *)
(*   "absent"   the target is not there (uninstalled, stopped, no bundle)  *)
(*   "changed"  another bundle has taken the path (applications only)      *)
(*   "unknown"  the evidence is incomplete (the field is None)             *)
(***************************************************************************)
EXTENDS Naturals, Sequences

RunState == {"prepared", "in_progress", "succeeded", "partial", "failed",
             "verification_failed", "undo_in_progress", "undone",
             "undo_partial", "interrupted"}

ActionState == {"pending", "in_progress", "verified", "failed",
                "undo_in_progress", "undone", "undo_failed", "not_applied"}

Value == {"present", "absent", "changed"}
Unknown == "unknown"
Observation == Value \cup {Unknown}
NoObservation == "none"      \* the field "after" is None

Action == [state: ActionState, before: Value,
           after: Observation \cup {NoObservation}]

-----------------------------------------------------------------------------
(* What the journal accepts.                                               *)

\* States of the active run after which a new run may be journaled.
NewRunAllowedAfter == {"succeeded", "failed", "undone"}

AllowedTransitions ==
    [s \in RunState |->
        CASE s = "prepared" -> {"in_progress", "failed", "interrupted"}
          [] s = "in_progress" -> {"in_progress", "succeeded", "partial",
                                   "failed", "verification_failed",
                                   "interrupted"}
          [] s \in {"succeeded", "partial", "verification_failed",
                    "undo_partial"} -> {"undo_in_progress"}
          [] s = "interrupted" -> {"interrupted", "in_progress",
                                   "undo_in_progress", "failed", "partial",
                                   "succeeded", "undo_partial", "undone"}
          [] s = "undo_in_progress" -> {"undo_in_progress", "undone",
                                        "undo_partial", "interrupted"}
          [] s \in {"failed", "undone"} -> {}]

-----------------------------------------------------------------------------
(* Manifests.                                                              *)

ValidAction(act) ==
    /\ act.state = "verified" => act.after # NoObservation
    /\ act.state = "not_applied" => act.after = NoObservation

ValidManifest(m) ==
    /\ m.acts # <<>>
    /\ \A i \in DOMAIN m.acts : ValidAction(m.acts[i])
    /\ m.state = "succeeded" =>
          \A i \in DOMAIN m.acts : m.acts[i].state = "verified"
    /\ m.state = "undone" =>
          \A i \in DOMAIN m.acts : m.acts[i].state \in {"undone", "not_applied"}

InFlight(act) == act.state \in {"in_progress", "undo_in_progress"}

\* Actions an undo will try to reverse.
Recoverable(act) ==
    act.state \in {"verified", "undo_failed", "failed"} /\ act.after # NoObservation

\* Run states an undo accepts: those of a run that came to its own end, and
\* those it first classifies.
EndedState == {"succeeded", "partial", "verification_failed", "undo_partial"}
InterruptedState == {"in_progress", "undo_in_progress", "interrupted"}
UndoableState == EndedState \cup InterruptedState

\* The manifest has something the undo command can show.
Undoable(m) ==
    /\ m.state \in UndoableState
    /\ \E i \in DOMAIN m.acts : Recoverable(m.acts[i]) \/ InFlight(m.acts[i])

\* A manifest whose action i has been replaced.
WithAction(m, i, act) == [m EXCEPT !.acts[i] = act]

-----------------------------------------------------------------------------
(* Observations.                                                           *)

Authoritative(obs) == obs # Unknown

\* Mutant of Matches: a field that could not be observed matches anything.
MatchesIfSeen(current, expected) == current = Unknown \/ current = expected

\* A field that the expectation leaves open matches anything.
Matches(current, expected) == expected = Unknown \/ current = expected
=============================================================================
