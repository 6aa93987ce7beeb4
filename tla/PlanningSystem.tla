-------------------------- MODULE PlanningSystem --------------------------
(***************************************************************************)
(* The two ways into the audit and planning code on one Mac: commands in   *)
(* terminals, and clients of the Codex server.  They share the host and    *)
(* the pure functions of CleanupPlanning; the server only reads.           *)
(***************************************************************************)
EXTENDS PlanCommands, CodexReads

ASSUME ScenarioConstants == \A sc \in Scenarios : sc.codex \in [calls: Nat, faults: Nat]

Init == \E sc \in Scenarios : CommandsInit(sc) /\ CodexInit(sc)

Next ==
    \/ CommandsNext /\ UNCHANGED codexVars
    \/ CodexNext /\ UNCHANGED <<host, cliVars>>

Spec == Init /\ [][Next]_<<host, cliVars, codexVars>>

(* Every variable keeps its type. *)
TypeOK == CommandsTypeOK /\ CodexTypeOK
=============================================================================
