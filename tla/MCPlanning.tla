---------------------------- MODULE MCPlanning ----------------------------
(* Small instances of PlanningSystem. *)
EXTENDS PlanningSystem, TLC

CONSTANTS a, twin, b, tied, k, f, g

Symmetry == Permutations(Commands) \cup Permutations(Clients)

BundleOf == a :> "A" @@ twin :> "A" @@ b :> "B" @@ tied :> "T" @@ k :> "A"
RoleOf == a :> "A" @@ twin :> "A" @@ b :> "front end" @@ tied :> "tied" @@ k :> "A"
          @@ f :> "runtime" @@ g :> None
RankOf == a :> 1 @@ twin :> 2 @@ k :> 3 @@ b :> 4 @@ f :> 5 @@ g :> 6 @@ tied :> 7
Pairs == {[left |-> "front end", right |-> "runtime", category |-> "together"]}

UserAgent == [label |-> "agent", place |-> "user", bundle |-> "B", file |-> 1]
Copy == [UserAgent EXCEPT !.file = 2]
Shared == [UserAgent EXCEPT !.place = "library"]
Rival == [UserAgent EXCEPT !.bundle = "T"]
AgentFiles == {UserAgent, Copy, Shared, Rival}

Mac(present) ==
    [present |-> present, version |-> [x \in Items |-> "first"], running |-> {},
     faceless |-> {}, partial |-> {},
     lastUsed |-> [x \in Apps |-> "unknown"], touched |-> {},
     service |-> [x \in Formulae |-> "absent"], needs |-> {}, plists |-> {}, risky |-> {},
     immovable |-> {}]

Cli(h, legacy) ==
    [host |-> h, legacy |-> legacy,
     left |-> [adds |-> 2, applies |-> 1, faults |-> 1, drifts |-> 1],
     codex |-> [calls |-> 0, faults |-> 0]]

Codex(h, calls, faults, drifts) ==
    [host |-> h, legacy |-> {},
     left |-> [adds |-> 0, applies |-> 0, faults |-> 0, drifts |-> drifts],
     codex |-> [calls |-> calls, faults |-> faults]]

Cases ==
    {Cli(Mac({a, k}), {a}),
     [Cli(Mac({twin, k}), {}) EXCEPT !.left.adds = 1],
     [Cli([Mac({a, k}) EXCEPT !.version[a] = "none", !.faceless = {a}], {})
          EXCEPT !.left.adds = 1],
     Cli(Mac({b, f}), {}),
     Cli([Mac({f, g}) EXCEPT !.service[f] = "none"], {}),
     Cli([Mac({b, tied}) EXCEPT !.plists = {UserAgent, Rival}], {}),
     Codex([Mac({b, f, g}) EXCEPT !.service[f] = "none"], 3, 0, 1),
     Codex([Mac({a, f, k}) EXCEPT !.service[f] = "started", !.lastUsed[a] = "long_ago",
                               !.touched = {a}], 3, 1, 0)}

(* One application a cask manages, one terminal. *)
Managed == {[Cli(Mac({a, k}), {}) EXCEPT !.left.adds = 1]}
=============================================================================
