------------------------------ MODULE RunLedger ------------------------------
(***************************************************************************)
(* What the execution journal promises the rest of MacWise, whatever the   *)
(* revisions it stores: cleanup runs are taken one at a time.  A run       *)
(* begins only when every earlier one is settled, and only a run that      *)
(* succeeded may be opened again, to be undone.                            *)
(***************************************************************************)
CONSTANTS Run,
          FirstOutcome   \* the outcomes the first revision of a run may tell

VARIABLE outcome   \* the outcome of each run, as the last revision tells it

Outcome == {"unborn", "open", "succeeded", "failed", "undone"}

TypeOK == outcome \in [Run -> Outcome]

AllSettled == \A r \in Run : outcome[r] # "open"

Init == outcome = [r \in Run |-> "unborn"]

Begin(r) ==
    /\ outcome[r] = "unborn"
    /\ AllSettled
    /\ \E o \in FirstOutcome : outcome' = [outcome EXCEPT ![r] = o]

Settle(r) ==
    /\ outcome[r] = "open"
    /\ \E o \in {"succeeded", "failed", "undone"} :
          outcome' = [outcome EXCEPT ![r] = o]

Reopen(r) ==
    /\ outcome[r] = "succeeded"
    /\ AllSettled
    /\ outcome' = [outcome EXCEPT ![r] = "open"]

Next == \E r \in Run : Begin(r) \/ Settle(r) \/ Reopen(r)

Spec == Init /\ [][Next]_outcome
=============================================================================
