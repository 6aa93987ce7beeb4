---------------------------- MODULE HostAudit ----------------------------
(***************************************************************************)
(* What AuditService.run learns of a Mac.  The host is what the collectors *)
(* look at; an audit is a function of the host at one moment and of the    *)
(* collector that failed, and everything MacWise later says or does about  *)
(* an item goes through it: which records there are, whether an            *)
(* application is taken for a cask's, who owns a startup item, how much an *)
(* item is used, what guidance the catalog gives and which collectors      *)
(* were complete.                                                          *)
(***************************************************************************)
EXTENDS Naturals, FiniteSets

CONSTANTS
    Apps, Casks, Formulae,   \* software records by entity type
    None,                    \* Python's None
    Bundle,      \* [Apps \cup Casks -> names]: the .app name of a bundle, or a cask's artifact
    SystemApps,  \* applications under /System, which no planning command scans
    StoreApps,   \* applications with a Mac App Store receipt
    NestedApps,  \* applications in a folder inside an application folder
    Plists,      \* launch agents a host may have: [label, place, bundle], and a file
    Role,        \* [Items -> catalog keys]; None without a match, "tied" with several
    Relations    \* RELATIONS of the catalog, one per pair: [left, right, category]

Items == Apps \cup Casks \cup Formulae

(* A Mac has finitely many of them, an entity id tells its type, and the   *)
(* catalog relates different keys of its own (test_catalog.py).            *)
ASSUME AuditConstants ==
    /\ SystemApps \subseteq Apps /\ StoreApps \subseteq Apps /\ NestedApps \subseteq Apps
    /\ DOMAIN Role = Items /\ DOMAIN Bundle = Apps \cup Casks
    /\ None \notin Items
    /\ IsFiniteSet(Items) /\ IsFiniteSet(Plists)
    /\ Apps \cap Casks = {} /\ Apps \cap Formulae = {} /\ Casks \cap Formulae = {}
    /\ \A r \in Relations : r.left # r.right /\ {r.left, r.right} \cap {None, "tied"} = {}

VARIABLE host

ServiceStates == {"absent", "none", "started", "error"}

(* Collectors that a Mac may leave partial while nothing fails: one        *)
(* application is unsigned or of no known architecture, ~/Applications is  *)
(* not there, a launch plist is a link, a bundle id cannot be looked up.   *)
Imperfect == {"applications", "homebrew", "startup", "usage", "backups"}

Host == [present: SUBSET Items,            \* installed
         version: [Items -> {"first", "later", "none"}],   \* "none": the record names none
         running: SUBSET Apps,
         faceless: SUBSET Apps,            \* whose executable cannot be found
         partial: SUBSET Imperfect,
         lastUsed: [Apps -> {"unknown", "recently", "between", "long_ago"}],   \* Spotlight's
         touched: SUBSET Apps,             \* related data changed within 30 days
         service: [Formulae -> ServiceStates],
         needs: SUBSET (Formulae \X Formulae),   \* <<dependent, dependency>>
         plists: SUBSET Plists,
         risky: SUBSET Casks,              \* casks whose uninstall does more than app and binary
         immovable: SUBSET Apps]           \* not to be moved to the Trash: it is missing or
                                           \* on another disk, the path there taken

(* What can go wrong in one audit: a collector raises; a command it runs   *)
(* fails ("ps" stands for every one that leaves an application's state     *)
(* unknown); a folder of applications or a launch plist cannot be read.    *)
Fault == [at: {"none", "applications", "ps", "homebrew", "leaves", "services", "startup",
               "usage", "mdls", "backups", "overlap"}, of: {None}]
         \cup [at: {"app"}, of: Apps] \cup [at: {"plist"}, of: Plists]
NoFault == [at |-> "none", of |-> None]
Audit == [host: Host, fault: Fault]

Hides(audit, what, item) == audit.fault = [at |-> what, of |-> item]

(* A collector that has nothing to see on this host does not fail either:  *)
(* it would change no answer.                                              *)
FaultsHere ==
    {f \in Fault :
        /\ f.at = "app" => f.of \in host.present
        /\ f.at = "plist" => f.of \in host.plists
        /\ f.at \in {"applications", "ps", "mdls"} => Apps \cap host.present # {}
        /\ f.at \in {"homebrew", "leaves"} => host.present \ Apps # {}
        /\ f.at = "services" => \E x \in Formulae : host.service[x] # "absent"}

----------------------------------------------------------------------------
(* collect_host_applications and collect_homebrew *)
SeenApps(audit) ==
    IF audit.fault.at = "applications" THEN {}
    ELSE {a \in Apps \cap audit.host.present : ~Hides(audit, "app", a)}

SeenBrew(audit) ==
    IF audit.fault.at = "homebrew" THEN {} ELSE audit.host.present \ Apps

Software(audit) == SeenApps(audit) \cup SeenBrew(audit)

Dependents(audit, f) == {g \in SeenBrew(audit) : <<g, f>> \in audit.host.needs}

(* InstallRole.DEPENDENCY: not among the lines of `brew leaves`, which is  *)
(* taken as empty when it fails.                                           *)
IsDependency(audit, f) == audit.fault.at = "leaves" \/ Dependents(audit, f) # {}

ProcessSeen(audit, a) ==
    IF audit.fault.at = "ps" \/ a \in audit.host.faceless THEN "unknown"
    ELSE IF a \in audit.host.running THEN "yes" ELSE "no"

----------------------------------------------------------------------------
(* _correlate_cask_applications: one application with that name, one cask  *)
(* that claims it, no other source and no contradicting version.           *)
Namesakes(audit, a) == {b \in SeenApps(audit) : Bundle[b] = Bundle[a]}
Claims(audit, a) == {c \in SeenBrew(audit) \cap Casks : Bundle[c] = Bundle[a]}

(* Mutant of Correlated: any cask that names the bundle will do. *)
CorrelatedByName(audit, a, c) ==
    c \in Claims(audit, a) /\ a \notin SystemApps \cup StoreApps

Correlated(audit, a, c) ==
    /\ Namesakes(audit, a) = {a} /\ Claims(audit, a) = {c}
    /\ a \notin SystemApps \cup StoreApps
    /\ "none" \in {audit.host.version[a], audit.host.version[c]}
          \/ audit.host.version[a] = audit.host.version[c]

(* A name resolves when one record answers to it. *)
Resolves(audit, s) ==
    /\ s \in Software(audit)
    /\ s \in Apps => Namesakes(audit, s) = {s}

(* _homebrew_token of a record after correlation. *)
Token(audit, s) ==
    IF s \notin Apps THEN s
    ELSE IF \E c \in Casks : Correlated(audit, s, c)
         THEN CHOOSE c \in Casks : Correlated(audit, s, c) ELSE None

----------------------------------------------------------------------------
(* collect_startup.  A plist never says whether its job runs, and its id   *)
(* comes from kind and label alone.                                        *)
OwnerOf(audit, plist) ==
    LET owners == {a \in SeenApps(audit) : Bundle[a] = plist.bundle}
    IN IF Cardinality(owners) = 1 THEN CHOOSE a \in owners : TRUE ELSE None

(* Mutant of AgentRunning: a plist's job is said not to run. *)
AgentNotRunning(plist) == "no"
AgentRunning(plist) == "unknown"

Agents(audit) ==
    {[kind |-> "agent", label |-> p.label, place |-> p.place, path |-> p,
      owner |-> OwnerOf(audit, p), running |-> AgentRunning(p)]
        : p \in {q \in audit.host.plists : ~Hides(audit, "plist", q)}}

ServiceRunning(status) ==
    IF status = "started" THEN "yes" ELSE IF status = "none" THEN "no" ELSE "unknown"

Services(audit) ==
    IF audit.fault.at = "services" THEN {}
    ELSE {[kind |-> "service", label |-> f, place |-> "homebrew", path |-> None, owner |-> f,
           running |-> ServiceRunning(audit.host.service[f])]
             : f \in {g \in SeenBrew(audit) \cap Formulae : audit.host.service[g] # "absent"}}

Startup(audit) ==
    IF audit.fault.at = "startup" THEN {} ELSE Agents(audit) \cup Services(audit)

StartupId(item) == <<item.kind, item.label>>
OwnedStartup(audit, s) == {i \in Startup(audit) : i.owner = s}

----------------------------------------------------------------------------
(* Mutant of Running: only processes count, not the services an item owns. *)
RunningByProcess(audit, s) == s \in Apps /\ ProcessSeen(audit, s) = "yes"

(* analyze_usage: the first signal that applies names the label. *)
Running(audit, s) ==
    \/ s \in Apps /\ ProcessSeen(audit, s) = "yes"
    \/ \E i \in OwnedStartup(audit, s) : i.running = "yes"

LastUsed(audit, s) ==
    IF s \in Apps /\ audit.fault.at \notin {"usage", "mdls"}
    THEN audit.host.lastUsed[s] ELSE "unknown"

UsageLabel(audit, s) ==
    IF Running(audit, s) THEN "actively_used"
    ELSE IF LastUsed(audit, s) = "recently" THEN "recently_used"
    ELSE IF s \in Formulae /\ IsDependency(audit, s) THEN "indirectly_required"
    ELSE IF s \in audit.host.touched /\ audit.fault.at # "usage" THEN "probably_used"
    ELSE IF OwnedStartup(audit, s) # {} THEN "configured_but_idle"
    ELSE IF LastUsed(audit, s) = "long_ago" THEN "possibly_unused"
    ELSE "no_reliable_evidence"

Active == {"actively_used", "recently_used", "probably_used"}

----------------------------------------------------------------------------
(* catalog_match and analyze_overlaps *)
Matched(audit) == {s \in Software(audit) : Role[s] \notin {None, "tied"}}

Identity(audit) ==
    {[pair |-> {x[1], x[2]}, category |-> "same_product"] :
        x \in {y \in (Matched(audit) \cap Apps) \X (Matched(audit) \cap Apps) :
                /\ y[1] # y[2] /\ Role[y[1]] = Role[y[2]]
                /\ Bundle[y[1]] = Bundle[y[2]]}}

Catalogued(audit) ==
    {[pair |-> {x[1], x[2]}, category |-> x[3].category] :
        x \in {y \in Matched(audit) \X Matched(audit) \X Relations :
                /\ y[1] # y[2]
                /\ Role[y[1]] = y[3].left /\ Role[y[2]] = y[3].right
                /\ \A i \in Identity(audit) : i.pair # {y[1], y[2]}}}

(* _relation_recommendation: a member something depends on is kept; else   *)
(* tools that go together are; a used and an unused one invite a review.   *)
Advice(audit, relation) ==
    LET required == {s \in relation.pair : UsageLabel(audit, s) = "indirectly_required"}
        uneven == /\ relation.category # "unrelated"
                  /\ \E s \in relation.pair : UsageLabel(audit, s) \in Active
                  /\ \E s \in relation.pair : UsageLabel(audit, s) = "possibly_unused"
    IN IF required # {} THEN [action |-> "keep", subjects |-> required]
       ELSE IF relation.category = "together"
       THEN [action |-> "keep_together", subjects |-> relation.pair]
       ELSE [action |-> IF uneven THEN "review" ELSE "no_recommendation",
             subjects |-> relation.pair]

Guidance(audit) ==
    IF audit.fault.at = "overlap" THEN {}
    ELSE LET advised == {Advice(audit, r) : r \in Identity(audit) \cup Catalogued(audit)}
             covered == UNION {g.subjects : g \in {h \in advised : h.action # "no_recommendation"}}
         IN advised \cup
            {[action |-> "keep", subjects |-> {s}] :
                s \in {m \in Matched(audit) \ covered :
                         UsageLabel(audit, m) \in Active \cup {"indirectly_required"}}}

(* Mutant of Kept: guidance to keep tools together does not count. *)
KeptAlone(audit) == UNION {g.subjects : g \in {h \in Guidance(audit) : h.action = "keep"}}

Kept(audit) == UNION {g.subjects : g \in {h \in Guidance(audit) :
                                            h.action \in {"keep", "keep_together"}}}

----------------------------------------------------------------------------
(* CollectorStatus of each collector. *)
StateOf(audit, collector) ==
    LET at == audit.fault.at
        partial == [applications |-> {"ps", "app"}, homebrew |-> {"leaves", "services"},
                    startup |-> {"plist"}, usage |-> {"mdls"}, backups |-> {"backups"},
                    overlap |-> {}]
    IN IF at = collector /\ collector # "backups" THEN "unavailable"
       ELSE IF \/ at \in partial[collector]
               \/ collector \in audit.host.partial
               \/ collector = "applications" /\ SeenApps(audit) \cap audit.host.faceless # {}
               \/ collector = "overlap" /\ \E s \in Software(audit) : Role[s] = "tied"
       THEN "partial" ELSE "complete"

Complete(audit, collectors) == \A k \in collectors : StateOf(audit, k) = "complete"
=============================================================================
