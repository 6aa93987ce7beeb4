--------------------------- MODULE PlanCommands ---------------------------
(***************************************************************************)
(* `macwise plan add` and `macwise apply` up to the approval, in several   *)
(* terminals at once, on a Mac whose user goes on using it.  An add audits *)
(* the host, reads the active plan without the lock, computes the next     *)
(* revision and appends it with a compare; an apply reads the plan, audits *)
(* again and prepares.  CleanupExecution says what happens to a prepared   *)
(* plan; here carrying it out removes the first few of its targets.        *)
(***************************************************************************)
EXTENDS CleanupPlanning

CONSTANTS
    Commands,     \* terminals
    Scenarios,    \* where a behaviour begins: a host, an old plan, what is in use, budgets
    NoAudit

VARIABLES
    plan,         \* the active PlanDocument
    cmd,          \* what each command has in its local variables
    left          \* budgets: adds, applies, faults, drifts

cliVars == <<plan, cmd, left>>

(* PlanDocument and its parts. *)
StartupIdOf == {"agent", "service"} \X ({p.label : p \in Plists} \cup Formulae)
Action == [kind: StartupKinds \cup {"trash", "uninstall_formula", "uninstall_cask"},
           subject: Items, target: Items \cup StartupIdOf, path: Plists \cup {None}]
Entries == [candidate: [subject: Items, version: {"first", "later", "none"},
                        token: Items \cup {None}],
            actions: Seq(Action),
            blocks: SUBSET {"identity", "protection", "dependency", "usage", "overlap", "startup",
                            "rollback"}]
Document == [schema: {1, 2}, revision: Nat \ {0}, entries: Seq(Entries)]
Plan == Document \cup {NoPlan}
CommandState == [pc: {"idle", "audited", "grown", "read", "fresh", "prepared"},
                 audit: Audit \cup {NoAudit}, doc: Plan, subject: Items \cup {None},
                 startup: BOOLEAN]
Budget == [adds: Nat, applies: Nat, faults: Nat, drifts: Nat]

(* A behaviour begins on a Mac, with an old plan of something installed. *)
ASSUME CommandConstants ==
    /\ NoPlan \notin Document /\ NoAudit \notin Audit
    /\ \A sc \in Scenarios :
          /\ sc.host \in Host /\ sc.left \in Budget
          /\ sc.legacy \subseteq sc.host.present

(* A command that is not running; what the last one printed is not kept. *)
Idle == [pc |-> "idle", audit |-> NoAudit, doc |-> NoPlan, subject |-> None, startup |-> FALSE]

CommandsInit(sc) ==
    /\ host = sc.host /\ left = sc.left
    /\ plan \in {NoPlan} \cup
         {[schema |-> 1, revision |-> 1,
           entries |-> <<Entry([host |-> sc.host, fault |-> NoFault], s, FALSE)>>]
             : s \in sc.legacy}
    /\ cmd = [c \in Commands |-> Idle]

----------------------------------------------------------------------------
(* plan_add: audit and resolve the name.  Asking for startup changes where *)
(* there are none is the same as not asking.                               *)
AuditForAdd(c, s, withStartup, f) ==
    /\ cmd[c].pc = "idle" /\ left.adds > 0
    /\ LET audit == [host |-> host, fault |-> f]
       IN /\ IF f = NoFault THEN left' = [left EXCEPT !.adds = @ - 1]
             ELSE left.faults > 0 /\ left' = [left EXCEPT !.adds = @ - 1, !.faults = @ - 1]
          /\ Resolves(audit, s)
          /\ withStartup => StartupIds(audit, s) # {}
          /\ cmd' = [cmd EXCEPT ![c] = [Idle EXCEPT !.pc = "audited", !.audit = audit,
                                          !.subject = s, !.startup = withStartup]]
    /\ UNCHANGED <<host, plan>>

(* _add_record_to_plan: read the active plan, without the lock, and grow it. *)
GrowPlan(c) ==
    /\ cmd[c].pc = "audited"
    /\ LET m == cmd[c]
       IN cmd' = [cmd EXCEPT ![c] =
            IF \/ AlreadyPlanned(plan, m.subject)
               \/ AddRaises(plan, m.audit, m.subject, m.startup)
            THEN Idle
            ELSE [Idle EXCEPT !.pc = "grown",
                              !.doc = Extended(plan, m.audit, m.subject, m.startup)]]
    /\ UNCHANGED <<host, plan, left>>

(* Mutant of Accepts: a revision has only to be no older. *)
AcceptsNew(active, doc) == active = NoPlan \/ doc.revision >= active.revision

(* PlanStore.append under the lock: the pointer has to be where it was. *)
Accepts(active, doc) ==
    IF active = NoPlan THEN doc.revision = 1 ELSE doc.revision = active.revision + 1

AppendPlan(c) ==
    /\ cmd[c].pc = "grown"
    /\ plan' = IF Accepts(plan, cmd[c].doc) THEN cmd[c].doc ELSE plan
    /\ cmd' = [cmd EXCEPT ![c] = Idle]
    /\ UNCHANGED <<host, left>>

----------------------------------------------------------------------------
(* apply_plan up to the approval. *)
ReadForApply(c) ==
    /\ cmd[c].pc = "idle" /\ left.applies > 0 /\ plan # NoPlan
    /\ left' = [left EXCEPT !.applies = @ - 1]
    /\ cmd' = [cmd EXCEPT ![c] =
                 IF plan.schema = 2 /\ Ready(plan)
                 THEN [Idle EXCEPT !.pc = "read", !.doc = plan]
                 ELSE Idle]
    /\ UNCHANGED <<host, plan>>

AuditForApply(c, f) ==
    /\ cmd[c].pc = "read"
    /\ IF f = NoFault THEN UNCHANGED left
       ELSE left.faults > 0 /\ left' = [left EXCEPT !.faults = @ - 1]
    /\ cmd' = [cmd EXCEPT ![c].pc = "fresh", ![c].audit = [host |-> host, fault |-> f]]
    /\ UNCHANGED <<host, plan>>

Prepare(c) ==
    /\ cmd[c].pc = "fresh" /\ CanPrepare(cmd[c].doc, cmd[c].audit, host)
    /\ cmd' = [cmd EXCEPT ![c].pc = "prepared"]
    /\ UNCHANGED <<host, plan, left>>

Reject(c) ==
    /\ cmd[c].pc = "fresh" /\ ~CanPrepare(cmd[c].doc, cmd[c].audit, host)
    /\ cmd' = [cmd EXCEPT ![c] = Idle]
    /\ UNCHANGED <<host, plan, left>>

(* service.apply: the digest has to be the active plan's; then the actions *)
(* in order, up to the first that fails.                                   *)
CarryOut(c, n) ==
    /\ cmd[c].pc = "prepared"
    /\ LET doc == cmd[c].doc
           acts == Actions(doc)
           removed == {acts[i].target : i \in {j \in 1..n : acts[j].kind \notin StartupKinds}}
           gone == removed \cup {a \in Apps : \E k \in removed \cap Casks :
                                             Correlated(cmd[c].audit, a, k)}
       IN /\ n \in 0..Len(acts)
          /\ plan # doc => n = 0
          /\ cmd' = [cmd EXCEPT ![c] = Idle]
          /\ host' = [host EXCEPT !.present = @ \ gone, !.running = @ \ gone]
    /\ UNCHANGED <<plan, left>>

----------------------------------------------------------------------------
(* What the user and other programs do to the host meanwhile. *)
Toggled(set, x) == IF x \in set THEN set \ {x} ELSE set \cup {x}

(* An installed item runs, is used, is needed or has a service only while  *)
(* it is installed.  Spotlight dates a start, or is switched off.          *)
Uninstalled(h, s) ==
    [h EXCEPT !.present = @ \ {s}, !.running = @ \ {s}, !.faceless = @ \ {s},
              !.version[s] = "first",
              !.needs = {p \in @ : s \notin {p[1], p[2]}},
              !.service = IF s \in Formulae THEN [@ EXCEPT ![s] = "absent"] ELSE @]

Drifts ==
    {Uninstalled(host, s) : s \in host.present}
    \cup {[host EXCEPT !.present = @ \cup {s}] : s \in Items \ host.present}
    \cup {[host EXCEPT !.version[s] = v] : s \in host.present, v \in {"first", "later"}}
    \cup {[host EXCEPT !.faceless = Toggled(@, a)] : a \in Apps \cap host.present}
    \cup {[host EXCEPT !.partial = Toggled(@, k)] : k \in Imperfect}
    \cup {[host EXCEPT !.running = Toggled(@, a), !.lastUsed[a] = used]
            : a \in Apps \cap host.present, used \in {"recently", "unknown"}}
    \cup {[host EXCEPT !.service[f] = status] : f \in Formulae \cap host.present,
                                                  status \in {"none", "started", "error"}}
    \cup {[host EXCEPT !.needs = @ \cup {<<f, g>>}]
            : f \in Formulae \cap host.present, g \in Formulae \cap host.present}
    \cup {[host EXCEPT !.plists = Toggled(@, p)]
            : p \in {q \in Plists : \E a \in Apps \cap host.present : Bundle[a] = q.bundle}}
    \cup {[host EXCEPT !.risky = Toggled(@, c)] : c \in Casks \cap host.present}
    \cup {[host EXCEPT !.immovable = Toggled(@, a)] : a \in Apps \cap host.present}
    \cup {[host EXCEPT !.immovable = Apps]}

Drift ==
    /\ left.drifts > 0 /\ left' = [left EXCEPT !.drifts = @ - 1]
    /\ host' \in {h \in Drifts : h # host /\ \A f \in Formulae : <<f, f>> \notin h.needs}
    /\ UNCHANGED <<plan, cmd>>

CommandStep(c) ==
    \/ \E s \in Items, withStartup \in BOOLEAN, f \in FaultsHere :
            AuditForAdd(c, s, withStartup, f)
    \/ GrowPlan(c) \/ AppendPlan(c)
    \/ ReadForApply(c)
    \/ \E f \in FaultsHere : AuditForApply(c, f)
    \/ Prepare(c) \/ Reject(c)
    \/ \E n \in 0..8 : CarryOut(c, n)

CommandsNext == Drift \/ \E c \in Commands : CommandStep(c)

----------------------------------------------------------------------------
(* Every variable keeps its type. *)
CommandsTypeOK ==
    /\ host \in Host
    /\ plan \in Plan
    /\ left \in Budget
    /\ cmd \in [Commands -> CommandState]

Prepared(c) == cmd[c].pc = "prepared"
Seen(c) == cmd[c].audit.host
Planned(c) == Subjects(cmd[c].doc)

(* What is prepared was there when it was looked at, in the reviewed       *)
(* version, and a cask is uninstalled for an application only where that   *)
(* application is the only one the cask can have put there.  So a plan of  *)
(* which something has been removed is never prepared again.               *)
TargetsAreReal ==
    \A c \in Commands : Prepared(c) =>
        /\ Planned(c) \subseteq Seen(c).present
        /\ \A n \in DOMAIN cmd[c].doc.entries :
              LET m == cmd[c].doc.entries[n].candidate
              IN m.version = Seen(c).version[m.subject]
        /\ \A act \in Range(Actions(cmd[c].doc)) :
              (act.kind = "uninstall_cask") =>
                  /\ act.target \in Seen(c).present \ Seen(c).risky
                  /\ (/\ act.subject \in Apps
                      /\ StateOf(cmd[c].audit, "applications") = "complete") =>
                        {a \in Apps \cap Seen(c).present : Bundle[a] = Bundle[act.target]}
                            = {act.subject}

(* The applications an action can take away: the one it moves, or those of *)
(* the name a cask installs, whichever of them the cask put there.         *)
Takes(act) ==
    IF act.kind = "uninstall_cask" THEN {a \in Apps : Bundle[a] = Bundle[act.target]}
    ELSE {act.subject} \cap Apps

(* What an action takes away was not running when apply looked, and a      *)
(* formula it removes was needed by no installed one and ran no service,   *)
(* whatever the plan's own audit said.  The exceptions are evidence apply  *)
(* does not insist on: for an application that goes with a cask, one ps    *)
(* did not show, whose executable or folder could not be read, or any when *)
(* the cask was planned by its own name, as a cask is never seen to run;   *)
(* for the service of a formula, the collector of startup items.           *)
NothingInUseIsPrepared ==
    \A c \in Commands : Prepared(c) =>
        \A act \in Range(Actions(cmd[c].doc)) :
            /\ \A a \in Takes(act) \cap Seen(c).present \cap Seen(c).running :
                  /\ act.kind = "uninstall_cask"
                  /\ \/ act.subject = act.target
                     \/ cmd[c].audit.fault.at = "ps" \/ a \in Seen(c).faceless
                     \/ Hides(cmd[c].audit, "app", a)
            /\ act.subject \in Formulae =>
                  /\ \A g \in Formulae \cap Seen(c).present :
                        <<g, act.subject>> \notin Seen(c).needs
                  /\ Seen(c).service[act.subject] = "started" =>
                        cmd[c].audit.fault.at = "startup"

(* One of two tools that go together is not removed while the other stays  *)
(* installed, unless something else needs that other one anyway.           *)
PairsStayTogether ==
    \A c \in Commands : Prepared(c) =>
        \A s \in Planned(c), other \in Seen(c).present, r \in Relations :
            (/\ r.category = "together" /\ {Role[s], Role[other]} = {r.left, r.right}
             /\ Complete(cmd[c].audit, {"applications", "homebrew"}))
            => UsageLabel(cmd[c].audit, other) = "indirectly_required"

(* No startup change is ever prepared.  An agent's running state is never  *)
(* known (_startup_action wants it); a service is stopped only if it runs, *)
(* and what runs is in use, which blocks the plan.                         *)
OnlyRemovalsArePrepared ==
    \A c \in Commands : Prepared(c) =>
        Kinds(cmd[c].doc) \subseteq {"trash", "uninstall_formula", "uninstall_cask"}

(* What stands between a plan made of this host and its preparation.       *)
Against(p, audit) ==
    LET kinds == Kinds(p)
        needed == {"usage", "backups"} \cup (IF "trash" \in kinds THEN {"applications"} ELSE {})
                  \cup (IF kinds \subseteq {"trash"} THEN {} ELSE {"homebrew"})
    IN \/ kinds \cap StartupKinds # {}
       \/ \E act \in Range(Actions(p)) :
             \/ act.kind = "uninstall_cask" /\ act.target \in audit.host.risky
             \/ act.kind = "trash" /\ act.subject \in audit.host.immovable \cup NestedApps
       \/ needed \cap audit.host.partial # {}
       \/ "trash" \in kinds /\ SeenApps(audit) \cap audit.host.faceless # {}
       \/ \E s \in Software(audit) : Role[s] = "tied"

(* A ready plan of one or two items of a Mac that has not changed since,   *)
(* no collector failing, is refused for the reasons that Against lists and *)
(* for no other: startup changes; risky casks; applications that cannot be *)
(* moved or lie in a subfolder; a collector that apply asks for and this   *)
(* Mac leaves partial; anywhere an application without an executable, when *)
(* one goes to the Trash; anywhere an item that two catalog entries match. *)
RefusalsAreExplained ==
    (plan = NoPlan /\ left.adds > 0 /\ \A c \in Commands : cmd[c].pc = "idle") =>
        LET audit == [host |-> host, fault |-> NoFault]
            explained(p) ==
                (Ready(p) /\ Valid(p)) => (CanPrepare(p, audit, host) <=> ~Against(p, audit))
        IN \A s, t \in Software(audit), v, w \in BOOLEAN :
              LET one == Extended(NoPlan, audit, s, v)
              IN explained(IF s = t THEN one ELSE Extended(one, audit, t, w))

(* Once a plan is blocked it stays blocked: nothing is ever taken out of   *)
(* it, and a later audit does not look at the old candidates again.        *)
BlockedStaysBlocked ==
    [][(plan # NoPlan /\ plan.schema = 2 /\ ~Ready(plan)) => ~Ready(plan')]_plan

(* However adds overlap, none is lost, doubled or reordered: the subjects  *)
(* of the active plan grow as PlanGrowth says.                             *)
Growth == INSTANCE PlanGrowth WITH
    Subject <- Items, wanted <- IF plan = NoPlan THEN <<>> ELSE SubjectSeq(plan)
KeepsPlanGrowth == Growth!Spec

(* "A collector that cannot establish complete relevant evidence blocks    *)
(* execution." (docs/phase-5-acceptance.md)                                *)
UnseenUseBlocks ==
    \A c \in Commands : Prepared(c) => Planned(c) \cap Seen(c).running = {}
=============================================================================
