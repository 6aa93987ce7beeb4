------------------------- MODULE CleanupPlanning -------------------------
(***************************************************************************)
(* Plans as values: how add_candidate grows a plan from an audit, what the *)
(* preflight checks block, and how prepare_execution rebuilds the same     *)
(* plan from a fresh audit and compares.  No state: the commands that use  *)
(* these functions are in PlanCommands.                                    *)
(***************************************************************************)
EXTENDS HostAudit, Sequences, SequencesExt

CONSTANT NoPlan   \* no active plan yet

(* The fields of PlanCandidate that identify it; the rest of an audit's    *)
(* word on a subject is only reviewed.                                     *)
Candidate(audit, s) ==
    [subject |-> s, version |-> audit.host.version[s], token |-> Token(audit, s)]

StartupIds(audit, s) == {StartupId(i) : i \in OwnedStartup(audit, s)}

(* _startup_actions: of the items whose id is one of the subject's, those  *)
(* it alone owns and that are a user agent or its own running service.     *)
Supported(item, s) ==
    /\ item.owner = s
    /\ \/ item.kind = "agent" /\ item.place = "user"
       \/ item.kind = "service" /\ item.running = "yes" /\ item.label = s

StartupActions(audit, s) ==
    LET items == {i \in Startup(audit) : StartupId(i) \in StartupIds(audit, s) /\ Supported(i, s)}
        act(i) == [kind |-> IF i.kind = "agent" THEN "disable_agent" ELSE "stop_service",
                   subject |-> s, target |-> StartupId(i), path |-> i.path]
        order == SetToSeq(items)
    IN [n \in DOMAIN order |-> act(order[n])]

(* Mutant of Removal: any application is taken for a cask's. *)
RemovalByCask(audit, s) ==
    <<[kind |-> IF s \in Formulae THEN "uninstall_formula" ELSE "uninstall_cask",
       subject |-> s, target |-> Token(audit, s), path |-> None]>>

(* _action: at most one removal, none for a protected subject. *)
Removal(audit, s) ==
    LET token == Token(audit, s)
        kind == IF s \in Formulae THEN "uninstall_formula"
                ELSE IF token = None THEN "trash" ELSE "uninstall_cask"
    IN IF s \in SystemApps THEN <<>>
       ELSE <<[kind |-> kind, subject |-> s, target |-> IF token = None THEN s ELSE token,
               path |-> None]>>

(* _preflight: the checks with outcome BLOCK. *)
Blocks(audit, s, withStartup) ==
    LET planned == {act.target : act \in Range(StartupActions(audit, s))}
    IN {check \in {"identity", "protection", "dependency", "usage", "overlap", "startup",
                   "rollback"} :
          CASE check \in {"identity", "rollback"} -> Removal(audit, s) = <<>>
            [] check = "protection" -> s \in SystemApps
            [] check = "dependency" -> s \in Formulae /\ IsDependency(audit, s)
            [] check = "usage" -> UsageLabel(audit, s) \in Active \cup {"indirectly_required"}
            [] check = "overlap" -> s \in Kept(audit)
            [] check = "startup" -> withStartup /\ ~(StartupIds(audit, s) \subseteq planned)}

(* What one candidate adds to a plan; its startup changes come first. *)
Entry(audit, s, withStartup) ==
    [candidate |-> Candidate(audit, s),
     actions |-> (IF withStartup THEN StartupActions(audit, s) ELSE <<>>) \o Removal(audit, s),
     blocks |-> Blocks(audit, s, withStartup)]

----------------------------------------------------------------------------
(* PlanDocument *)
Subjects(plan) == {plan.entries[n].candidate.subject : n \in DOMAIN plan.entries}
Actions(plan) == FlattenSeq([n \in DOMAIN plan.entries |-> plan.entries[n].actions])

(* Mutant of Ready: eligibility looks at the newest candidate's checks only. *)
ReadyAsLast(plan) == plan.entries[Len(plan.entries)].blocks = {}
Ready(plan) == \A n \in DOMAIN plan.entries : plan.entries[n].blocks = {}

StartupKinds == {"disable_agent", "stop_service"}

(* The validator's rules that add_candidate does not keep by itself: the   *)
(* id of an action is a digest of plan, subject, startup id and kind, and  *)
(* a startup item is changed once.                                         *)
ActionIds(plan) ==
    [n \in DOMAIN Actions(plan) |-> [Actions(plan)[n] EXCEPT !.path = None]]

Valid(plan) ==
    /\ IsInjective(ActionIds(plan))
    /\ \A m, n \in DOMAIN Actions(plan) :
          (/\ Actions(plan)[m].kind \in StartupKinds
           /\ Actions(plan)[m].target = Actions(plan)[n].target) => m = n

(* A plan of all of these subjects from one audit. *)
Rebuilt(audit, subjects, withStartup) ==
    [n \in DOMAIN subjects |-> Entry(audit, subjects[n], subjects[n] \in withStartup)]

SubjectSeq(plan) == [n \in DOMAIN plan.entries |-> plan.entries[n].candidate.subject]

(* add_candidate to no plan, to one of schema 2, and to one of schema 1,   *)
(* which is made again from the new audit.                                 *)
Extended(current, audit, s, withStartup) ==
    LET flagged == IF withStartup THEN {s} ELSE {}
    IN IF current = NoPlan
       THEN [schema |-> 2, revision |-> 1, entries |-> <<Entry(audit, s, withStartup)>>]
       ELSE IF current.schema = 2
       THEN [current EXCEPT !.revision = @ + 1,
                            !.entries = Append(@, Entry(audit, s, withStartup))]
       ELSE [schema |-> 2, revision |-> current.revision + 1,
             entries |-> Rebuilt(audit,
                                 IF s \in Subjects(current) THEN SubjectSeq(current)
                                 ELSE Append(SubjectSeq(current), s),
                                 flagged)]

AlreadyPlanned(current, s) ==
    current # NoPlan /\ current.schema = 2 /\ s \in Subjects(current)

(* ValueError, which nothing catches in `plan add`: a subject of the old   *)
(* plan is not in the audit, or the document is not valid.                 *)
AddRaises(current, audit, s, withStartup) ==
    \/ s \notin Software(audit)
    \/ current # NoPlan /\ current.schema = 1 /\ ~(Subjects(current) \subseteq Software(audit))
    \/ ~Valid(Extended(current, audit, s, withStartup))

----------------------------------------------------------------------------
(* prepare_execution *)
Kinds(plan) == {act.kind : act \in Range(Actions(plan))}

(* _require_relevant_collectors *)
Required(plan) ==
    {"usage", "backups", "overlap"}
    \cup (IF "trash" \in Kinds(plan) THEN {"applications"} ELSE {})
    \cup (IF Kinds(plan) \cap {"uninstall_formula", "uninstall_cask", "stop_service"} # {}
          THEN {"homebrew"} ELSE {})
    \cup (IF Kinds(plan) \cap {"disable_agent", "stop_service"} # {} THEN {"startup"} ELSE {})

WithStartup(plan) ==
    {act.subject : act \in {x \in Range(Actions(plan)) : x.kind \in StartupKinds}}

(* _fresh_plan *)
Fresh(plan, audit) ==
    [plan EXCEPT !.entries = Rebuilt(audit, SubjectSeq(plan), WithStartup(plan))]

(* _require_same_candidate_identity; the path is part of the subject. *)
SameIdentities(plan, fresh) ==
    \A n \in DOMAIN plan.entries : plan.entries[n].candidate = fresh.entries[n].candidate

(* Mutant of HasRecord: the action's subject has to be the package. *)
HasOwnRecord(act, audit) == act.target \in Software(audit) /\ act.target = act.subject

(* _homebrew_action: an installed record of the token's kind. *)
HasRecord(act, audit) == act.target \in Software(audit)

(* _trash_action, _homebrew_action and _startup_action; the Trash paths    *)
(* are looked at when the audit is over.                                   *)
Prepares(act, audit, now) ==
    CASE act.kind = "trash" -> act.subject \in now.present /\ act.subject \notin now.immovable
      [] act.kind = "uninstall_formula" -> HasRecord(act, audit)
      [] act.kind = "uninstall_cask" ->
            HasRecord(act, audit) /\ act.target \notin audit.host.risky
      [] act.kind \in StartupKinds ->
            LET items == {i \in Startup(audit) :
                            StartupId(i) = act.target /\ i.owner = act.subject}
            IN Cardinality(items) = 1 /\ \A i \in items : i.running # "unknown"

(* Mutant of StillReady: the fresh checks are not looked at. *)
NotAskedAgain(fresh) == TRUE
StillReady(fresh) == Ready(fresh)

Reconstructs(plan, audit, now) ==
    LET fresh == Fresh(plan, audit)
    IN /\ plan.schema = 2 /\ Ready(plan) /\ Actions(plan) # <<>>
       /\ Complete(audit, Required(plan))
       /\ Subjects(plan) \subseteq Software(audit)
       /\ Valid(fresh)
       /\ SameIdentities(plan, fresh)
       /\ StillReady(fresh)
       /\ Actions(fresh) = Actions(plan)
       /\ \A n \in DOMAIN Actions(plan) : Prepares(Actions(plan)[n], audit, now)

(* prepare_execution_for_cli: an application is moved only from directly   *)
(* inside one of the folders, though the audit lists those further down.   *)
CanPrepare(plan, audit, now) ==
    /\ Reconstructs(plan, audit, now)
    /\ \A act \in Range(Actions(plan)) : act.kind = "trash" => act.subject \notin NestedApps
=============================================================================
