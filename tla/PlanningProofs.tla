-------------------------- MODULE PlanningProofs --------------------------
(***************************************************************************)
(* Proofs about planning and revalidation, for any software, hosts, faults *)
(* of collectors and number of commands: what an audit reports, what a     *)
(* plan asks for, and what is prepared from a plan and a fresh audit.      *)
(*                                                                         *)
(* Most of what a command may prepare follows from CanPrepare, which       *)
(* compares the saved plan with the audit of the moment.  The inductive    *)
(* invariant CommandsInv adds what a command's locals are good for at each *)
(* of its steps: above all, that a document grown from the plan as it was  *)
(* read without the lock extends the plan as it is now, if the revisions   *)
(* still follow each other, so whatever append accepts extends the plan.   *)
(***************************************************************************)
EXTENDS PlanningSystem, SequenceLemmas

----------------------------------------------------------------------------
(* What an audit says, for any host.                                       *)

(* Records are of what is installed. *)
LEMMA SoftwareIsPresent ==
    ASSUME NEW audit \in Audit
    PROVE  /\ Software(audit) \subseteq audit.host.present
           /\ Software(audit) \subseteq Items
           /\ SeenApps(audit) \subseteq Apps /\ SeenBrew(audit) \subseteq Casks \cup Formulae
           /\ audit.host \in Host
<1>1. audit.host \in Host
  BY DEF Audit
<1>2. audit.host.present \subseteq Items
  BY <1>1 DEF Host
<1> QED
  BY <1>1, <1>2 DEF Software, SeenApps, SeenBrew, Items

(* A startup item is an agent with a file, whose state is unknown, or the  *)
(* service of an installed formula, which owns it.                         *)
LEMMA StartupItem ==
    ASSUME NEW audit \in Audit, NEW i \in Startup(audit)
    PROVE  /\ \/ /\ i.kind = "agent" /\ i.running = "unknown" /\ i.path \in Plists
                 /\ i.label = i.path.label
              \/ /\ i.kind = "service" /\ i.owner = i.label /\ i.path = None
                 /\ i.label \in SeenBrew(audit) \cap Formulae
           /\ StartupId(i) \in StartupIdOf
<1>1. audit.host \in Host /\ audit.host.plists \subseteq Plists
  BY SoftwareIsPresent DEF Host
<1>2. CASE i \in Agents(audit)
  BY <1>1, <1>2 DEF Agents, AgentRunning, StartupId, StartupIdOf
<1>3. CASE i \in Services(audit)
  BY <1>3 DEF Services, StartupId, StartupIdOf
<1> QED
  BY <1>2, <1>3 DEF Startup

(* There are finitely many of them. *)
LEMMA StartupIsFinite ==
    ASSUME NEW audit \in Audit
    PROVE  IsFiniteSet(Startup(audit))
<1>1. audit.host \in Host /\ audit.host.plists \subseteq Plists
  BY SoftwareIsPresent DEF Host
<1>2. IsFiniteSet(Agents(audit))
  <2> DEFINE Ps == {q \in audit.host.plists : ~Hides(audit, "plist", q)}
             item(p) == [kind |-> "agent", label |-> p.label, place |-> p.place, path |-> p,
                         owner |-> OwnerOf(audit, p), running |-> AgentRunning(p)]
  <2>1. IsFiniteSet(Ps)
    BY <1>1, AuditConstants, FS_Subset
  <2>2. Agents(audit) = {item(p) : p \in Ps}
    BY DEF Agents
  <2> HIDE DEF Ps, item
  <2>3. [p \in Ps |-> item(p)] \in Surjection(Ps, {item(p) : p \in Ps})
    BY DEF Surjection
  <2>4. IsFiniteSet({item(p) : p \in Ps})
    BY <2>1, <2>3, FS_Surjection
  <2> QED
    BY <2>2, <2>4
<1>3. IsFiniteSet(Services(audit))
  <2> DEFINE Fs == {g \in SeenBrew(audit) \cap Formulae : audit.host.service[g] # "absent"}
             item(f) == [kind |-> "service", label |-> f, place |-> "homebrew", path |-> None,
                         owner |-> f, running |-> ServiceRunning(audit.host.service[f])]
  <2>1. IsFiniteSet(Fs)
    BY AuditConstants, FS_Subset DEF Items
  <2>2. Services(audit) = IF audit.fault.at = "services" THEN {} ELSE {item(f) : f \in Fs}
    BY DEF Services
  <2> HIDE DEF Fs, item
  <2>3. [f \in Fs |-> item(f)] \in Surjection(Fs, {item(f) : f \in Fs})
    BY DEF Surjection
  <2>4. IsFiniteSet({item(f) : f \in Fs})
    BY <2>1, <2>3, FS_Surjection
  <2> QED
    BY <2>2, <2>4, FS_EmptySet
<1>4. IsFiniteSet(Agents(audit) \cup Services(audit))
  BY <1>2, <1>3, FS_Union
<1> QED
  BY <1>4, FS_EmptySet DEF Startup

----------------------------------------------------------------------------
(* What a plan is made of.                                                 *)

(* The startup changes of a subject are changes of startup items it owns.  *)
LEMMA StartupActionsAre ==
    ASSUME NEW audit \in Audit, NEW s \in Items
    PROVE  /\ StartupActions(audit, s) \in Seq(Action)
           /\ \A act \in Range(StartupActions(audit, s)) :
                 \E i \in Startup(audit) :
                    /\ Supported(i, s)
                    /\ act = [kind |-> IF i.kind = "agent" THEN "disable_agent" ELSE "stop_service",
                              subject |-> s, target |-> StartupId(i), path |-> i.path]
<1> DEFINE items == {i \in Startup(audit) : StartupId(i) \in StartupIds(audit, s)
                                               /\ Supported(i, s)}
           act(i) == [kind |-> IF i.kind = "agent" THEN "disable_agent" ELSE "stop_service",
                      subject |-> s, target |-> StartupId(i), path |-> i.path]
           order == SetToSeq(items)
<1>1. IsFiniteSet(items)
  BY StartupIsFinite, FS_Subset
<1>2. \A i \in items : act(i) \in Action
  BY StartupItem DEF Action, StartupKinds
<1>3. order \in [1..Cardinality(items) -> items] /\ Cardinality(items) \in Nat
  BY <1>1, SetToSeqLists
<1>4. StartupActions(audit, s) = [n \in DOMAIN order |-> act(order[n])]
  BY DEF StartupActions
<1> HIDE DEF items, act, order
<1>5. StartupActions(audit, s) = [n \in 1..Cardinality(items) |-> act(order[n])]
  BY <1>3, <1>4
<1>6. StartupActions(audit, s) \in [1..Cardinality(items) -> Action]
  BY <1>2, <1>3, <1>5
<1>7. StartupActions(audit, s) \in Seq(Action)
  BY <1>3, <1>6
<1>8. ASSUME NEW a \in Range(StartupActions(audit, s))
      PROVE  \E i \in items : a = act(i)
  BY <1>3, <1>5, <1>8 DEF Range
<1> QED
  BY <1>7, <1>8 DEF items, act

(* A removal names its subject, and as token what Token says. *)
LEMMA TokenIs ==
    ASSUME NEW audit \in Audit, NEW s \in Items
    PROVE  /\ s \notin Apps => Token(audit, s) = s
           /\ s \in Apps => Token(audit, s) = None \/
                 (Token(audit, s) \in Casks /\ Correlated(audit, s, Token(audit, s)))
           /\ Token(audit, s) \in Items \cup {None}
<1>1. CASE s \in Apps /\ \E c \in Casks : Correlated(audit, s, c)
  BY <1>1 DEF Token, Items
<1>2. CASE ~(s \in Apps /\ \E c \in Casks : Correlated(audit, s, c))
  BY <1>2 DEF Token
<1> QED
  BY <1>1, <1>2

(* The removal of a thing is at most one action, of the kind its source has. *)
LEMMA RemovalIs ==
    ASSUME NEW audit \in Audit, NEW s \in Items
    PROVE  /\ Removal(audit, s) \in Seq(Action)
           /\ \A act \in Range(Removal(audit, s)) :
                 /\ act.subject = s /\ act.path = None
                 /\ act.kind \in {"trash", "uninstall_formula", "uninstall_cask"}
                 /\ act.kind = "uninstall_formula" <=> s \in Formulae
                 /\ act.kind = "trash" <=> Token(audit, s) = None
                 /\ act.target = IF Token(audit, s) = None THEN s ELSE Token(audit, s)
<1> DEFINE token == Token(audit, s)
           kind == IF s \in Formulae THEN "uninstall_formula"
                   ELSE IF token = None THEN "trash" ELSE "uninstall_cask"
           act == [kind |-> kind, subject |-> s, target |-> IF token = None THEN s ELSE token,
                   path |-> None]
<1>1. act \in Action
  BY TokenIs DEF Action
<1>2. s \in Formulae => token # None
  BY TokenIs, AuditConstants
<1>3. Removal(audit, s) = IF s \in SystemApps THEN <<>> ELSE <<act>>
  BY DEF Removal
<1>4. CASE s \in SystemApps
  <2>1. Removal(audit, s) = <<>>
    BY <1>3, <1>4
  <2> QED
    BY <2>1 DEF Range
<1>5. CASE s \notin SystemApps
  <2>1. Removal(audit, s) = <<act>>
    BY <1>3, <1>5
  <2>2. Range(Removal(audit, s)) = {act}
    BY <2>1 DEF Range
  <2>3. Removal(audit, s) \in Seq(Action)
    BY <1>1, <2>1
  <2> QED
    BY <1>2, <2>2, <2>3
<1> QED
  BY <1>4, <1>5

(* What a subject adds to a plan: changes of its startup items where they  *)
(* were asked for, and its removal.                                        *)
LEMMA EntryIs ==
    ASSUME NEW audit \in Audit, NEW s \in Items, NEW w \in BOOLEAN
    PROVE  /\ Entry(audit, s, w) \in Entries
           /\ Entry(audit, s, w).candidate = Candidate(audit, s)
           /\ Entry(audit, s, w).candidate.subject = s
           /\ Entry(audit, s, w).blocks = Blocks(audit, s, w)
           /\ Entry(audit, s, w).actions =
                 (IF w THEN StartupActions(audit, s) ELSE <<>>) \o Removal(audit, s)
           /\ Range(Entry(audit, s, w).actions) =
                 (IF w THEN Range(StartupActions(audit, s)) ELSE {}) \cup Range(Removal(audit, s))
<1> DEFINE changes == IF w THEN StartupActions(audit, s) ELSE <<>>
           acts == changes \o Removal(audit, s)
<1>1. changes \in Seq(Action) /\ Removal(audit, s) \in Seq(Action)
  BY StartupActionsAre, RemovalIs, EmptySeq
<1>2. acts \in Seq(Action)
  BY <1>1, ConcatProperties
<1>3. Range(acts) = Range(changes) \cup Range(Removal(audit, s))
  BY <1>1, RangeConcatenation
<1>4. Range(<<>>) = {}
  BY DEF Range
<1>5. Candidate(audit, s) \in [subject: Items, version: {"first", "later", "none"},
                                  token: Items \cup {None}]
  BY TokenIs, SoftwareIsPresent DEF Host, Candidate
<1>6. Blocks(audit, s, w) \subseteq {"identity", "protection", "dependency", "usage", "overlap",
                                     "startup", "rollback"}
  BY DEF Blocks
<1>7. Entry(audit, s, w) = [candidate |-> Candidate(audit, s), actions |-> acts,
                            blocks |-> Blocks(audit, s, w)]
  BY DEF Entry
<1>8. Candidate(audit, s).subject = s
  BY DEF Candidate
<1> HIDE DEF acts
<1>9. Entry(audit, s, w) \in Entries
  BY <1>2, <1>5, <1>6, <1>7 DEF Entries
<1> QED
  BY <1>3, <1>4, <1>7, <1>8, <1>9 DEF acts

(* The subjects of a plan, in order. *)
LEMMA SubjectSeqIs ==
    ASSUME NEW p \in Document
    PROVE  /\ p.entries \in Seq(Entries) /\ p.revision \in Nat \ {0} /\ p.schema \in {1, 2}
           /\ DOMAIN p.entries = 1..Len(p.entries) /\ Len(p.entries) \in Nat
           /\ SubjectSeq(p) \in Seq(Items)
           /\ DOMAIN SubjectSeq(p) = DOMAIN p.entries /\ Len(SubjectSeq(p)) = Len(p.entries)
           /\ \A n \in DOMAIN p.entries :
                 SubjectSeq(p)[n] = p.entries[n].candidate.subject /\ SubjectSeq(p)[n] \in Items
           /\ Range(SubjectSeq(p)) = Subjects(p) /\ Subjects(p) \subseteq Items
<1>1. p.entries \in Seq(Entries) /\ p.revision \in Nat \ {0} /\ p.schema \in {1, 2}
  BY DEF Document
<1>2. DOMAIN p.entries = 1..Len(p.entries) /\ Len(p.entries) \in Nat
  BY <1>1
<1>3. \A n \in DOMAIN p.entries : p.entries[n].candidate.subject \in Items
  <2>1. \A n \in DOMAIN p.entries : p.entries[n] \in Entries
    BY <1>1, <1>2, ElementOfSeq
  <2> QED
    BY <2>1 DEF Entries
<1>4. SubjectSeq(p) = [n \in 1..Len(p.entries) |-> p.entries[n].candidate.subject]
  BY <1>2 DEF SubjectSeq
<1>5. SubjectSeq(p) \in [1..Len(p.entries) -> Items]
  BY <1>2, <1>3, <1>4
<1>6. SubjectSeq(p) \in Seq(Items) /\ Len(SubjectSeq(p)) = Len(p.entries)
  BY <1>2, <1>5
<1>7. Range(SubjectSeq(p)) = Subjects(p)
  BY <1>2, <1>4 DEF Range, Subjects
<1> QED
  BY <1>1, <1>2, <1>3, <1>4, <1>6, <1>7 DEF Subjects

(* A plan of several subjects from one audit. *)
LEMMA RebuiltIs ==
    ASSUME NEW audit \in Audit, NEW subjects \in Seq(Items), NEW flagged
    PROVE  /\ Rebuilt(audit, subjects, flagged) \in Seq(Entries)
           /\ DOMAIN Rebuilt(audit, subjects, flagged) = DOMAIN subjects
           /\ Len(Rebuilt(audit, subjects, flagged)) = Len(subjects)
           /\ \A n \in DOMAIN subjects :
                 Rebuilt(audit, subjects, flagged)[n]
                    = Entry(audit, subjects[n], subjects[n] \in flagged)
<1>1. DOMAIN subjects = 1..Len(subjects) /\ Len(subjects) \in Nat
  OBVIOUS
<1>2. \A n \in 1..Len(subjects) : Entry(audit, subjects[n], subjects[n] \in flagged) \in Entries
  <2> TAKE n \in 1..Len(subjects)
  <2> DEFINE w == subjects[n] \in flagged
  <2>1. w \in BOOLEAN /\ subjects[n] \in Items
    BY <1>1
  <2> HIDE DEF w
  <2>2. Entry(audit, subjects[n], w) \in Entries
    BY <2>1, EntryIs
  <2> QED
    BY <2>2 DEF w
<1>3. Rebuilt(audit, subjects, flagged)
         = [n \in 1..Len(subjects) |-> Entry(audit, subjects[n], subjects[n] \in flagged)]
  BY <1>1 DEF Rebuilt
<1>4. Rebuilt(audit, subjects, flagged) \in [1..Len(subjects) -> Entries]
  BY <1>2, <1>3
<1> QED
  BY <1>1, <1>3, <1>4

(* add_candidate makes a document out of a plan. *)
LEMMA ExtendedIs ==
    ASSUME NEW audit \in Audit, NEW s \in Items, NEW w \in BOOLEAN, NEW current \in Plan
    PROVE  /\ Extended(current, audit, s, w) \in Document
           /\ Extended(current, audit, s, w).schema = 2
           /\ Extended(current, audit, s, w).revision =
                 IF current = NoPlan THEN 1 ELSE current.revision + 1
           /\ Extended(current, audit, s, w).entries =
                 IF current = NoPlan THEN <<Entry(audit, s, w)>>
                 ELSE IF current.schema = 2 THEN Append(current.entries, Entry(audit, s, w))
                 ELSE Rebuilt(audit, IF s \in Subjects(current) THEN SubjectSeq(current)
                                     ELSE Append(SubjectSeq(current), s), IF w THEN {s} ELSE {})
<1>1. Entry(audit, s, w) \in Entries
  BY EntryIs
<1>2. CASE current = NoPlan
  <2>1. <<Entry(audit, s, w)>> \in Seq(Entries)
    BY <1>1
  <2> QED
    BY <1>2, <2>1 DEF Extended, Document
<1>3. CASE current # NoPlan /\ current.schema = 2
  <2>1. current \in Document
    BY <1>3 DEF Plan
  <2>2. Append(current.entries, Entry(audit, s, w)) \in Seq(Entries)
    BY <1>1, <2>1, SubjectSeqIs
  <2>3. Extended(current, audit, s, w) =
           [current EXCEPT !.revision = current.revision + 1,
                           !.entries = Append(current.entries, Entry(audit, s, w))]
    BY <1>3 DEF Extended
  <2>4. current.revision + 1 \in Nat \ {0}
    BY <2>1, SubjectSeqIs
  <2> HIDE DEF Entries
  <2> QED
    BY <1>3, <2>1, <2>2, <2>3, <2>4 DEF Document
<1>4. CASE current # NoPlan /\ current.schema # 2
  <2>1. current \in Document
    BY <1>4 DEF Plan
  <2> DEFINE subjects == IF s \in Subjects(current) THEN SubjectSeq(current)
                         ELSE Append(SubjectSeq(current), s)
             flagged == IF w THEN {s} ELSE {}
  <2>2. subjects \in Seq(Items)
    BY <2>1, SubjectSeqIs
  <2>3. Rebuilt(audit, subjects, flagged) \in Seq(Entries)
    BY <2>2, RebuiltIs
  <2>4. Extended(current, audit, s, w) =
           [schema |-> 2, revision |-> current.revision + 1,
            entries |-> Rebuilt(audit, subjects, flagged)]
    BY <1>4 DEF Extended
  <2>5. current.revision + 1 \in Nat \ {0}
    BY <2>1, SubjectSeqIs
  <2> HIDE DEF subjects, flagged
  <2>6. Extended(current, audit, s, w) \in Document
    BY <2>3, <2>4, <2>5 DEF Document
  <2> QED
    BY <1>4, <2>4, <2>6 DEF subjects, flagged
<1> QED
  BY <1>2, <1>3, <1>4

(* The actions of a plan are those of its entries. *)
LEMMA ActionsAre ==
    ASSUME NEW p \in Document
    PROVE  /\ Actions(p) \in Seq(Action)
           /\ Range(Actions(p)) = UNION {Range(p.entries[n].actions) : n \in DOMAIN p.entries}
<1> DEFINE parts == [n \in DOMAIN p.entries |-> p.entries[n].actions]
<1>1. p.entries \in Seq(Entries) /\ DOMAIN p.entries = 1..Len(p.entries) /\ Len(p.entries) \in Nat
  BY SubjectSeqIs
<1>2. \A n \in DOMAIN p.entries : p.entries[n].actions \in Seq(Action)
  <2>1. \A n \in DOMAIN p.entries : p.entries[n] \in Entries
    BY <1>1, ElementOfSeq
  <2> QED
    BY <2>1 DEF Entries
<1>3. parts \in [1..Len(p.entries) -> Seq(Action)]
  BY <1>1, <1>2
<1>4. parts \in Seq(Seq(Action)) /\ DOMAIN parts = DOMAIN p.entries
  BY <1>1, <1>3
<1>5. \A n \in DOMAIN p.entries : parts[n] = p.entries[n].actions
  OBVIOUS
<1>6. Actions(p) = FlattenSeq(parts)
  BY DEF Actions
<1> HIDE DEF parts
<1>7. Actions(p) \in Seq(Action) /\ Range(Actions(p)) = UNION {Range(parts[n]) : n \in DOMAIN parts}
  BY <1>4, <1>6, FlattenSeqElements
<1> QED
  BY <1>4, <1>5, <1>7

----------------------------------------------------------------------------
(* What preflight and preparation rule out.                                *)

(* A subject nothing blocks. *)
LEMMA UnblockedIs ==
    ASSUME NEW audit, NEW s, NEW w, Blocks(audit, s, w) = {}
    PROVE  /\ Removal(audit, s) # <<>> /\ s \notin SystemApps
           /\ s \in Formulae => ~IsDependency(audit, s)
           /\ UsageLabel(audit, s) \notin Active \cup {"indirectly_required"}
           /\ s \notin Kept(audit)
           /\ w => StartupIds(audit, s) \subseteq
                      {act.target : act \in Range(StartupActions(audit, s))}
<1> DEFINE checks == {"identity", "protection", "dependency", "usage", "overlap", "startup",
                      "rollback"}
           fails(check) ==
              CASE check \in {"identity", "rollback"} -> Removal(audit, s) = <<>>
                [] check = "protection" -> s \in SystemApps
                [] check = "dependency" -> s \in Formulae /\ IsDependency(audit, s)
                [] check = "usage" -> UsageLabel(audit, s) \in Active \cup {"indirectly_required"}
                [] check = "overlap" -> s \in Kept(audit)
                [] check = "startup" -> w /\ ~(StartupIds(audit, s) \subseteq
                                          {act.target : act \in Range(StartupActions(audit, s))})
<1>1. Blocks(audit, s, w) = {check \in checks : fails(check)}
  BY DEF Blocks
<1> HIDE DEF fails
<1>2. \A check \in checks : ~fails(check)
  BY <1>1
<1> USE DEF fails
<1>3. ~fails("identity") /\ ~fails("protection") /\ ~fails("dependency") /\ ~fails("usage")
      /\ ~fails("overlap") /\ ~fails("startup")
  BY <1>2
<1> QED
  BY <1>3

(* The plan made again from the fresh audit. *)
LEMMA FreshIs ==
    ASSUME NEW p \in Document, NEW audit \in Audit
    PROVE  /\ Fresh(p, audit) \in Document
           /\ DOMAIN Fresh(p, audit).entries = DOMAIN p.entries
           /\ \A n \in DOMAIN p.entries :
                 Fresh(p, audit).entries[n] =
                    Entry(audit, p.entries[n].candidate.subject,
                          p.entries[n].candidate.subject \in WithStartup(p))
<1>1. SubjectSeq(p) \in Seq(Items) /\ DOMAIN SubjectSeq(p) = DOMAIN p.entries
  BY SubjectSeqIs
<1>2. Rebuilt(audit, SubjectSeq(p), WithStartup(p)) \in Seq(Entries)
  BY <1>1, RebuiltIs
<1>3. /\ Fresh(p, audit) \in Document
      /\ Fresh(p, audit).entries = Rebuilt(audit, SubjectSeq(p), WithStartup(p))
  <2> HIDE DEF Entries
  <2> QED
    BY <1>2 DEF Fresh, Document
<1>4. \A n \in DOMAIN p.entries : SubjectSeq(p)[n] = p.entries[n].candidate.subject
  BY SubjectSeqIs
<1> QED
  BY <1>1, <1>3, <1>4, RebuiltIs

(* What is true of the subjects and the actions of a plan that is prepared. *)
LEMMA PreparedIs ==
    ASSUME NEW p \in Document, NEW audit \in Audit, NEW now, CanPrepare(p, audit, now)
    PROVE  /\ Complete(audit, Required(p)) /\ Subjects(p) \subseteq Software(audit)
           /\ \A n \in DOMAIN p.entries :
                 p.entries[n].candidate = Candidate(audit, p.entries[n].candidate.subject)
           /\ \A s \in Subjects(p) : \E w \in BOOLEAN : Blocks(audit, s, w) = {}
           /\ \A act \in Range(Actions(p)) :
                 /\ Prepares(act, audit, now)
                 /\ act.kind = "trash" => act.subject \notin NestedApps
                 /\ \E s \in Subjects(p) :
                       act \in Range(StartupActions(audit, s)) \cup Range(Removal(audit, s))
<1> DEFINE fresh == Fresh(p, audit)
           subject(n) == p.entries[n].candidate.subject
           w(n) == subject(n) \in WithStartup(p)
<1>1. /\ Complete(audit, Required(p)) /\ Subjects(p) \subseteq Software(audit)
      /\ SameIdentities(p, fresh) /\ StillReady(fresh) /\ Actions(fresh) = Actions(p)
      /\ \A n \in DOMAIN Actions(p) : Prepares(Actions(p)[n], audit, now)
  BY DEF CanPrepare, Reconstructs
<1>2. /\ fresh \in Document /\ DOMAIN fresh.entries = DOMAIN p.entries
      /\ \A n \in DOMAIN p.entries : fresh.entries[n] = Entry(audit, subject(n), w(n))
  BY FreshIs
<1>3. \A n \in DOMAIN p.entries : subject(n) \in Items /\ subject(n) \in Subjects(p)
  BY SubjectSeqIs DEF Subjects
<1> HIDE DEF fresh
<1>4. ASSUME NEW n \in DOMAIN p.entries
      PROVE  /\ fresh.entries[n].candidate = Candidate(audit, subject(n))
             /\ fresh.entries[n].blocks = Blocks(audit, subject(n), w(n))
             /\ Range(fresh.entries[n].actions) \subseteq
                   Range(StartupActions(audit, subject(n))) \cup Range(Removal(audit, subject(n)))
  <2>1. w(n) \in BOOLEAN /\ subject(n) \in Items
    BY <1>3
  <2>2. fresh.entries[n] = Entry(audit, subject(n), w(n))
    BY <1>2
  <2> HIDE DEF w, subject
  <2> QED
    BY <2>1, <2>2, EntryIs
<1>5. \A n \in DOMAIN p.entries : p.entries[n].candidate = Candidate(audit, subject(n))
  BY <1>1, <1>4 DEF SameIdentities
<1>6. ASSUME NEW s \in Subjects(p)
      PROVE  \E v \in BOOLEAN : Blocks(audit, s, v) = {}
  <2>1. PICK n \in DOMAIN p.entries : s = subject(n)
    BY DEF Subjects
  <2>2. fresh.entries[n].blocks = {}
    BY <1>1, <1>2 DEF StillReady, Ready
  <2>3. w(n) \in BOOLEAN
    OBVIOUS
  <2> HIDE DEF w, subject
  <2> QED
    BY <2>1, <2>2, <2>3, <1>4
<1>7. ASSUME NEW act \in Range(Actions(p))
      PROVE  /\ Prepares(act, audit, now)
             /\ \E s \in Subjects(p) :
                   act \in Range(StartupActions(audit, s)) \cup Range(Removal(audit, s))
  <2>1. Prepares(act, audit, now)
    BY <1>1, <1>7 DEF Range
  <2>2. act \in UNION {Range(fresh.entries[n].actions) : n \in DOMAIN fresh.entries}
    BY <1>1, <1>2, <1>7, ActionsAre
  <2>3. PICK n \in DOMAIN p.entries : act \in Range(fresh.entries[n].actions)
    BY <1>2, <2>2
  <2>4. subject(n) \in Subjects(p)
    BY <1>3
  <2> HIDE DEF w, subject
  <2> QED
    BY <2>1, <2>3, <2>4, <1>4
<1>8. \A act \in Range(Actions(p)) : act.kind = "trash" => act.subject \notin NestedApps
  BY DEF CanPrepare
<1> QED
  BY <1>1, <1>5, <1>6, <1>7, <1>8

(* A service that runs is a use of its formula. *)
LEMMA RunningServiceIsUse ==
    ASSUME NEW audit, NEW s, NEW i \in Startup(audit), i.owner = s, i.running = "yes"
    PROVE  UsageLabel(audit, s) \in Active
<1>1. Running(audit, s)
  BY DEF Running, OwnedStartup
<1> QED
  BY <1>1 DEF UsageLabel, Active

(* A prepared plan changes no startup item: see OnlyRemovalsArePrepared. *)
LEMMA PreparedRemoves ==
    ASSUME NEW p \in Document, NEW audit \in Audit, NEW now, CanPrepare(p, audit, now),
           NEW act \in Range(Actions(p))
    PROVE  \E s \in Subjects(p) : act \in Range(Removal(audit, s))
<1>1. PICK s \in Subjects(p) :
          act \in Range(StartupActions(audit, s)) \cup Range(Removal(audit, s))
  BY PreparedIs
<1>2. PICK w \in BOOLEAN : Blocks(audit, s, w) = {}
  BY PreparedIs
<1>3. s \in Items
  BY SubjectSeqIs
<1>4. ASSUME act \in Range(StartupActions(audit, s)) PROVE FALSE
  <2>1. PICK i \in Startup(audit) :
           /\ Supported(i, s)
           /\ act = [kind |-> IF i.kind = "agent" THEN "disable_agent" ELSE "stop_service",
                     subject |-> s, target |-> StartupId(i), path |-> i.path]
    BY <1>3, <1>4, StartupActionsAre
  <2>2. Prepares(act, audit, now)
    BY PreparedIs
  <2>3. CASE i.kind = "agent"
    <3>1. i \in {j \in Startup(audit) : StartupId(j) = act.target /\ j.owner = act.subject}
      BY <2>1 DEF Supported
    <3>2. i.running = "unknown"
      BY <2>3, StartupItem
    <3>3. act.kind = "disable_agent"
      BY <2>1, <2>3
    <3> QED
      BY <2>2, <3>1, <3>2, <3>3 DEF Prepares, StartupKinds
  <2>4. CASE i.kind = "service"
    <3>1. i.running = "yes" /\ i.owner = s
      BY <2>1, <2>4 DEF Supported
    <3> QED
      BY <3>1, <1>2, UnblockedIs, RunningServiceIsUse
  <2> QED
    BY <2>3, <2>4, StartupItem
<1> QED
  BY <1>1, <1>4

(* Kinds of actions ask for collectors. *)
LEMMA RequiredCollectors ==
    ASSUME NEW p, NEW act \in Range(Actions(p))
    PROVE  /\ {"usage", "backups", "overlap"} \subseteq Required(p)
           /\ act.kind = "trash" => "applications" \in Required(p)
           /\ act.kind \in {"uninstall_formula", "uninstall_cask"} => "homebrew" \in Required(p)
<1>1. act.kind \in Kinds(p)
  BY DEF Kinds
<1> QED
  BY <1>1 DEF Required

(* What a complete collector has not missed. *)
LEMMA CompleteMeans ==
    ASSUME NEW audit \in Audit, NEW collectors, Complete(audit, collectors)
    PROVE  /\ collectors \cap audit.host.partial = {}
           /\ "applications" \in collectors =>
                 /\ audit.fault.at \notin {"applications", "ps", "app"}
                 /\ SeenApps(audit) = Apps \cap audit.host.present
                 /\ SeenApps(audit) \cap audit.host.faceless = {}
           /\ "homebrew" \in collectors =>
                 /\ audit.fault.at \notin {"homebrew", "leaves", "services"}
                 /\ SeenBrew(audit) = audit.host.present \ Apps
           /\ "overlap" \in collectors =>
                 /\ audit.fault.at # "overlap"
                 /\ \A s \in Software(audit) : Role[s] # "tied"
<1>1. \A k \in collectors : StateOf(audit, k) = "complete"
  BY DEF Complete
<1>2. ASSUME "applications" \in collectors
      PROVE  /\ audit.fault.at \notin {"applications", "ps", "app"}
             /\ SeenApps(audit) \cap audit.host.faceless = {}
  BY <1>1, <1>2 DEF StateOf
<1>3. ASSUME "homebrew" \in collectors
      PROVE  audit.fault.at \notin {"homebrew", "leaves", "services"}
  BY <1>1, <1>3 DEF StateOf
<1>4. ASSUME "overlap" \in collectors
      PROVE  audit.fault.at # "overlap" /\ \A s \in Software(audit) : Role[s] # "tied"
  BY <1>1, <1>4 DEF StateOf
<1>5. \A a : Hides(audit, "app", a) => audit.fault.at = "app"
  BY DEF Hides
<1>6. \A k \in collectors : k \notin audit.host.partial
  BY <1>1 DEF StateOf
<1> QED
  BY <1>2, <1>3, <1>4, <1>5, <1>6 DEF SeenApps, SeenBrew

(* TargetsAreReal of one prepared plan. *)
LEMMA PreparedTargets ==
    ASSUME NEW p \in Document, NEW audit \in Audit, NEW now, CanPrepare(p, audit, now)
    PROVE  /\ Subjects(p) \subseteq audit.host.present
           /\ \A n \in DOMAIN p.entries :
                 p.entries[n].candidate.version
                    = audit.host.version[p.entries[n].candidate.subject]
           /\ \A act \in Range(Actions(p)) :
                 (act.kind = "uninstall_cask") =>
                     /\ act.target \in audit.host.present \ audit.host.risky
                     /\ (/\ act.subject \in Apps
                         /\ StateOf(audit, "applications") = "complete") =>
                           {a \in Apps \cap audit.host.present : Bundle[a] = Bundle[act.target]}
                               = {act.subject}
<1>1. Subjects(p) \subseteq audit.host.present
  BY PreparedIs, SoftwareIsPresent
<1>2. \A n \in DOMAIN p.entries :
         p.entries[n].candidate.version
            = audit.host.version[p.entries[n].candidate.subject]
  <2>1. \A x : Candidate(audit, x).version = audit.host.version[x]
    BY DEF Candidate
  <2>2. \A n \in DOMAIN p.entries :
           p.entries[n].candidate = Candidate(audit, p.entries[n].candidate.subject)
    BY PreparedIs
  <2> QED
    BY <2>1, <2>2
<1>3. ASSUME NEW act \in Range(Actions(p)), act.kind = "uninstall_cask"
      PROVE  act.target \in audit.host.present \ audit.host.risky
  <2>1. Prepares(act, audit, now)
    BY PreparedIs
  <2>2. HasRecord(act, audit) /\ act.target \notin audit.host.risky
    BY <1>3, <2>1 DEF Prepares, StartupKinds
  <2> QED
    BY <2>2, SoftwareIsPresent DEF HasRecord
<1>4. ASSUME NEW act \in Range(Actions(p)), act.kind = "uninstall_cask", act.subject \in Apps,
             StateOf(audit, "applications") = "complete"
      PROVE  {a \in Apps \cap audit.host.present : Bundle[a] = Bundle[act.target]} = {act.subject}
  <2>1. PICK s \in Subjects(p) : act \in Range(Removal(audit, s))
    BY PreparedRemoves
  <2>2. s \in Items
    BY SubjectSeqIs
  <2>3. act.subject = s /\ Token(audit, s) # None /\ act.target = Token(audit, s)
    BY <1>4, <2>1, <2>2, RemovalIs
  <2>4. Correlated(audit, s, act.target)
    BY <1>4, <2>2, <2>3, TokenIs
  <2>5. Namesakes(audit, s) = {s} /\ act.target \in Claims(audit, s)
    BY <2>4 DEF Correlated
  <2>6. Bundle[act.target] = Bundle[s]
    BY <2>5 DEF Claims
  <2>7. SeenApps(audit) = Apps \cap audit.host.present
    <3>1. Complete(audit, {"applications"})
      BY <1>4 DEF Complete
    <3> QED
      BY <3>1, CompleteMeans
  <2> QED
    BY <2>3, <2>5, <2>6, <2>7 DEF Namesakes
<1> QED
  BY <1>1, <1>2, <1>3, <1>4

(* NothingInUseIsPrepared of one prepared plan. *)
LEMMA PreparedNotInUse ==
    ASSUME NEW p \in Document, NEW audit \in Audit, NEW now, CanPrepare(p, audit, now),
           NEW act \in Range(Actions(p))
    PROVE  /\ \A a \in Takes(act) \cap audit.host.present \cap audit.host.running :
                 /\ act.kind = "uninstall_cask"
                 /\ \/ act.subject = act.target
                    \/ audit.fault.at = "ps" \/ a \in audit.host.faceless
                    \/ Hides(audit, "app", a)
           /\ act.subject \in Formulae =>
                 /\ \A g \in Formulae \cap audit.host.present :
                       <<g, act.subject>> \notin audit.host.needs
                 /\ audit.host.service[act.subject] = "started" => audit.fault.at = "startup"
<1>1. PICK s \in Subjects(p) : act \in Range(Removal(audit, s))
  BY PreparedRemoves
<1>2. s \in Items /\ s \in Software(audit)
  BY SubjectSeqIs, PreparedIs
<1>3. /\ act.subject = s /\ act.kind \in {"trash", "uninstall_formula", "uninstall_cask"}
      /\ act.kind = "uninstall_formula" <=> s \in Formulae
  BY <1>1, <1>2, RemovalIs
<1>4. /\ s \in Formulae => ~IsDependency(audit, s)
      /\ UsageLabel(audit, s) \notin Active
  <2>1. PICK w \in BOOLEAN : Blocks(audit, s, w) = {}
    BY PreparedIs
  <2> QED
    BY <2>1, UnblockedIs
<1>5. ~Running(audit, s)
  BY <1>4 DEF UsageLabel, Active
<1>6. Complete(audit, Required(p))
  BY PreparedIs
<1>7. ASSUME NEW a \in Takes(act) \cap audit.host.present \cap audit.host.running
      PROVE  /\ act.kind = "uninstall_cask"
             /\ \/ act.subject = act.target
                \/ audit.fault.at = "ps" \/ a \in audit.host.faceless
                \/ Hides(audit, "app", a)
  <2>1. a \in Apps
    BY SoftwareIsPresent DEF Host
  <2>2. a = s => audit.fault.at = "ps" \/ a \in audit.host.faceless
    BY <1>5, <1>7, <2>1 DEF Running, ProcessSeen
  <2>3. CASE act.kind # "uninstall_cask"
    <3>1. a = s /\ act.kind = "trash"
      BY <1>3, <1>7, <2>1, <2>3, AuditConstants DEF Takes
    <3>2. /\ audit.fault.at # "ps" /\ SeenApps(audit) \cap audit.host.faceless = {}
          /\ a \in SeenApps(audit)
      BY <1>6, <1>7, <2>1, <3>1, RequiredCollectors, CompleteMeans
    <3> QED
      BY <2>2, <3>1, <3>2
  <2>4. CASE act.kind = "uninstall_cask" /\ act.subject # act.target
    <3>1. /\ Bundle[a] = Bundle[act.target]
          /\ s \in Apps /\ Correlated(audit, s, act.target)
      <4>1. Bundle[a] = Bundle[act.target]
        BY <1>7, <2>4 DEF Takes
      <4>2. Token(audit, s) # None /\ act.target = Token(audit, s) /\ Token(audit, s) # s
        BY <1>1, <1>2, <1>3, <2>4, RemovalIs
      <4> QED
        BY <1>2, <4>1, <4>2, TokenIs
    <3>2. Namesakes(audit, s) = {s} /\ Bundle[act.target] = Bundle[s]
      BY <3>1 DEF Correlated, Claims
    <3>3. a \in SeenApps(audit) => a = s
      BY <3>1, <3>2 DEF Namesakes
    <3>4. audit.fault.at # "applications"
      BY <1>2, <3>1, AuditConstants DEF Software, SeenApps, SeenBrew
    <3>5. a \in SeenApps(audit) \/ Hides(audit, "app", a)
      BY <1>7, <2>1, <3>4 DEF SeenApps
    <3> QED
      BY <2>2, <2>4, <3>3, <3>5
  <2> QED
    BY <2>3, <2>4
<1>8. ASSUME s \in Formulae
      PROVE  /\ \A g \in Formulae \cap audit.host.present : <<g, s>> \notin audit.host.needs
             /\ audit.host.service[s] = "started" => audit.fault.at = "startup"
  <2>1. /\ audit.fault.at \notin {"homebrew", "leaves", "services"}
        /\ SeenBrew(audit) = audit.host.present \ Apps
    BY <1>3, <1>6, <1>8, RequiredCollectors, CompleteMeans
  <2>2. \A g \in Formulae \cap audit.host.present : <<g, s>> \notin audit.host.needs
    BY <1>4, <1>8, <2>1, AuditConstants DEF IsDependency, Dependents
  <2>3. ASSUME audit.host.service[s] = "started", audit.fault.at # "startup" PROVE FALSE
    <3> DEFINE i == [kind |-> "service", label |-> s, place |-> "homebrew", path |-> None,
                     owner |-> s, running |-> ServiceRunning(audit.host.service[s])]
    <3>1. s \in SeenBrew(audit) \cap Formulae
      BY <1>2, <1>8, AuditConstants DEF Software, SeenApps
    <3>2. i \in Services(audit)
      BY <2>1, <2>3, <3>1 DEF Services
    <3>3. i \in Startup(audit)
      BY <2>3, <3>2 DEF Startup
    <3>4. i.owner = s /\ i.running = "yes"
      BY <2>3 DEF ServiceRunning
    <3> HIDE DEF i
    <3> QED
      BY <3>3, <3>4, <1>5 DEF Running, OwnedStartup
  <2> QED
    BY <2>2, <2>3
<1> QED
  BY <1>3, <1>7, <1>8

(* Tools that the catalog says go together are a relation of the audit. *)
LEMMA CataloguedPair ==
    ASSUME NEW audit, NEW s \in Matched(audit), NEW t \in Matched(audit), NEW r \in Relations,
           Role[s] = r.left, Role[t] = r.right
    PROVE  [pair |-> {s, t}, category |-> r.category] \in Catalogued(audit)
<1>1. r.left # r.right
  BY AuditConstants
<1>2. s # t /\ Role[s] # Role[t]
  BY <1>1
<1>3. ASSUME NEW i \in Identity(audit) PROVE i.pair # {s, t}
  <2>1. PICK y \in (Matched(audit) \cap Apps) \X (Matched(audit) \cap Apps) :
           Role[y[1]] = Role[y[2]] /\ i.pair = {y[1], y[2]}
    BY DEF Identity
  <2> QED
    BY <1>2, <2>1
<1> DEFINE y == <<s, t, r>>
<1>4. y \in Matched(audit) \X Matched(audit) \X Relations /\ y[1] = s /\ y[2] = t /\ y[3] = r
  OBVIOUS
<1> HIDE DEF y
<1>5. y \in {x \in Matched(audit) \X Matched(audit) \X Relations :
                /\ x[1] # x[2]
                /\ Role[x[1]] = x[3].left /\ Role[x[2]] = x[3].right
                /\ \A i \in Identity(audit) : i.pair # {x[1], x[2]}}
  BY <1>2, <1>3, <1>4
<1> QED
  BY <1>4, <1>5 DEF Catalogued

(* Of two tools that go together, guidance keeps both, or the one that     *)
(* something else needs.                                                   *)
LEMMA TogetherIsKept ==
    ASSUME NEW audit, NEW relation \in Identity(audit) \cup Catalogued(audit),
           relation.category = "together", audit.fault.at # "overlap"
    PROVE  \/ \E s \in relation.pair : UsageLabel(audit, s) = "indirectly_required"
           \/ relation.pair \subseteq Kept(audit)
<1> DEFINE g == Advice(audit, relation)
<1>1. CASE \E s \in relation.pair : UsageLabel(audit, s) = "indirectly_required"
  BY <1>1
<1>2. CASE ~\E s \in relation.pair : UsageLabel(audit, s) = "indirectly_required"
  <2>1. {s \in relation.pair : UsageLabel(audit, s) = "indirectly_required"} = {}
    BY <1>2
  <2>2. g = [action |-> "keep_together", subjects |-> relation.pair]
    BY <2>1 DEF Advice
  <2>3. g \in Guidance(audit)
    BY DEF Guidance
  <2> HIDE DEF g
  <2> QED
    BY <2>2, <2>3 DEF Kept
<1> QED
  BY <1>1, <1>2

(* PairsStayTogether of one prepared plan. *)
LEMMA PreparedPairs ==
    ASSUME NEW p \in Document, NEW audit \in Audit, NEW now, CanPrepare(p, audit, now),
           NEW s \in Subjects(p), NEW other \in audit.host.present, NEW r \in Relations,
           r.category = "together", {Role[s], Role[other]} = {r.left, r.right},
           Complete(audit, {"applications", "homebrew"})
    PROVE  UsageLabel(audit, other) = "indirectly_required"
<1>1. audit.host.present \subseteq Items
  BY SoftwareIsPresent DEF Host
<1>2. Software(audit) = audit.host.present
  BY <1>1, CompleteMeans, AuditConstants DEF Software, Items
<1>3. s \in Software(audit) /\ other \in Software(audit)
  BY <1>2, PreparedIs
<1>4. PICK w \in BOOLEAN : Blocks(audit, s, w) = {}
  BY PreparedIs
<1>5. s \notin Kept(audit) /\ UsageLabel(audit, s) # "indirectly_required"
  BY <1>4, UnblockedIs
<1>6. audit.fault.at # "overlap"
  <2>1. Complete(audit, Required(p)) /\ "overlap" \in Required(p)
    BY PreparedIs DEF Required
  <2> QED
    BY <2>1, CompleteMeans
<1>7. s \in Matched(audit) /\ other \in Matched(audit)
  <2>1. {r.left, r.right} \cap {None, "tied"} = {}
    BY AuditConstants
  <2>2. Role[s] \in {r.left, r.right} /\ Role[other] \in {r.left, r.right}
    OBVIOUS
  <2> QED
    BY <1>3, <2>1, <2>2 DEF Matched
<1>8. PICK relation \in Catalogued(audit) :
          relation.pair = {s, other} /\ relation.category = "together"
  <2>1. r.left # r.right
    BY AuditConstants
  <2>2. \/ Role[s] = r.left /\ Role[other] = r.right
        \/ Role[s] = r.right /\ Role[other] = r.left
    BY <2>1
  <2>3. CASE Role[s] = r.left /\ Role[other] = r.right
    <3>1. [pair |-> {s, other}, category |-> r.category] \in Catalogued(audit)
      BY <1>7, <2>3, CataloguedPair
    <3> QED
      BY <3>1
  <2>4. CASE Role[s] = r.right /\ Role[other] = r.left
    <3>1. [pair |-> {other, s}, category |-> r.category] \in Catalogued(audit)
      BY <1>7, <2>4, CataloguedPair
    <3> QED
      BY <3>1
  <2> QED
    BY <2>2, <2>3, <2>4
<1>9. \/ \E t \in {s, other} : UsageLabel(audit, t) = "indirectly_required"
      \/ {s, other} \subseteq Kept(audit)
  BY <1>6, <1>8, TogetherIsKept
<1> QED
  BY <1>5, <1>9

----------------------------------------------------------------------------
(* How plans grow.                                                         *)

(* A document that is a plan with one subject more, or the same subjects   *)
(* looked at again (a plan of schema 1).                                   *)
Grows(active, doc) ==
    /\ active.schema = 2 => \E e \in Entries : doc.entries = Append(active.entries, e)
    /\ \E s \in Items : \/ SubjectSeq(doc) = SubjectSeq(active)
                        \/ s \notin Subjects(active)
                           /\ SubjectSeq(doc) = Append(SubjectSeq(active), s)

(* A document that was made of the active plan, or of one that has been    *)
(* replaced since: then Accepts refuses it.                                *)
Follows(active, doc) ==
    IF active = NoPlan
    THEN doc.revision = 1 /\ \E s \in Items : SubjectSeq(doc) = <<s>>
    ELSE /\ doc.revision <= active.revision + 1
         /\ doc.revision = active.revision + 1 => Grows(active, doc)

(* A plan rebuilt for some subjects is a plan of these subjects. *)
LEMMA RebuiltSubjects ==
    ASSUME NEW audit \in Audit, NEW subjects \in Seq(Items), NEW flagged,
           NEW doc \in Document, doc.entries = Rebuilt(audit, subjects, flagged)
    PROVE  SubjectSeq(doc) = subjects
<1>1. \A n \in DOMAIN subjects : doc.entries[n].candidate.subject = subjects[n]
  <2> TAKE n \in DOMAIN subjects
  <2> DEFINE w == subjects[n] \in flagged
  <2>1. w \in BOOLEAN /\ subjects[n] \in Items
    OBVIOUS
  <2>2. doc.entries[n] = Entry(audit, subjects[n], w)
    BY RebuiltIs
  <2> HIDE DEF w
  <2> QED
    BY <2>1, <2>2, EntryIs
<1>2. /\ SubjectSeq(doc) \in Seq(Items) /\ DOMAIN SubjectSeq(doc) = DOMAIN subjects
      /\ \A n \in DOMAIN subjects : SubjectSeq(doc)[n] = doc.entries[n].candidate.subject
  BY SubjectSeqIs, RebuiltIs
<1>3. /\ Len(SubjectSeq(doc)) = Len(subjects)
      /\ \A n \in 1..Len(subjects) : SubjectSeq(doc)[n] = subjects[n]
  BY <1>1, <1>2
<1> QED
  BY <1>2, <1>3, SeqEqual

(* A plan with an entry more has a subject more. *)
LEMMA AppendedSubjects ==
    ASSUME NEW p \in Document, NEW doc \in Document, NEW e \in Entries,
           doc.entries = Append(p.entries, e)
    PROVE  SubjectSeq(doc) = Append(SubjectSeq(p), e.candidate.subject)
<1> DEFINE s == e.candidate.subject
           longer == Append(SubjectSeq(p), s)
<1>1. s \in Items
  BY DEF Entries
<1>2. p.entries \in Seq(Entries) /\ SubjectSeq(p) \in Seq(Items)
      /\ Len(SubjectSeq(p)) = Len(p.entries)
  BY SubjectSeqIs
<1>3. /\ longer \in Seq(Items) /\ Len(longer) = Len(p.entries) + 1
      /\ \A n \in 1..Len(p.entries) : longer[n] = SubjectSeq(p)[n]
      /\ longer[Len(p.entries) + 1] = s
  BY <1>1, <1>2
<1>4. /\ Len(doc.entries) = Len(p.entries) + 1
      /\ \A n \in 1..Len(p.entries) : doc.entries[n] = p.entries[n]
      /\ doc.entries[Len(p.entries) + 1] = e
  BY <1>2
<1>5. /\ SubjectSeq(doc) \in Seq(Items) /\ Len(SubjectSeq(doc)) = Len(p.entries) + 1
      /\ \A n \in 1..(Len(p.entries) + 1) :
            SubjectSeq(doc)[n] = doc.entries[n].candidate.subject
  BY <1>4, SubjectSeqIs
<1>6. \A n \in 1..Len(p.entries) : SubjectSeq(p)[n] = p.entries[n].candidate.subject
  BY SubjectSeqIs
<1> HIDE DEF longer, s
<1>7. ASSUME NEW n \in 1..Len(SubjectSeq(doc)) PROVE SubjectSeq(doc)[n] = longer[n]
  <2>1. CASE n = Len(p.entries) + 1
    BY <1>3, <1>4, <1>5, <2>1 DEF s
  <2>2. CASE n # Len(p.entries) + 1
    <3>1. n \in 1..Len(p.entries)
      BY <1>2, <1>5, <2>2
    <3> QED
      BY <1>3, <1>4, <1>5, <1>6, <3>1
  <2> QED
    BY <2>1, <2>2
<1>8. SubjectSeq(doc) = longer
  BY <1>3, <1>5, <1>7, SeqEqual
<1> QED
  BY <1>8 DEF longer, s

(* What GrowPlan computes follows the plan it has read. *)
LEMMA ExtendedFollows ==
    ASSUME NEW audit \in Audit, NEW s \in Items, NEW w \in BOOLEAN, NEW current \in Plan,
           ~AlreadyPlanned(current, s)
    PROVE  Follows(current, Extended(current, audit, s, w))
<1> DEFINE doc == Extended(current, audit, s, w)
           e == Entry(audit, s, w)
<1> SUFFICES Follows(current, doc)
  OBVIOUS
<1>1. doc \in Document /\ e \in Entries /\ e.candidate.subject = s
  <2>1. doc \in Document
    BY ExtendedIs
  <2>2. e \in Entries
    BY EntryIs
  <2>3. e.candidate.subject = s
    BY EntryIs
  <2> QED
    BY <2>1, <2>2, <2>3
<1>4. /\ doc.revision = IF current = NoPlan THEN 1 ELSE current.revision + 1
      /\ doc.entries = IF current = NoPlan THEN <<e>>
                       ELSE IF current.schema = 2 THEN Append(current.entries, e)
                       ELSE Rebuilt(audit, IF s \in Subjects(current) THEN SubjectSeq(current)
                                           ELSE Append(SubjectSeq(current), s),
                                    IF w THEN {s} ELSE {})
  BY ExtendedIs
<1> HIDE DEF doc, e
<1>2. CASE current = NoPlan
  <2>1. doc.revision = 1 /\ doc.entries = <<e>>
    BY <1>2, <1>4
  <2>2. SubjectSeq(doc) = <<s>>
    <3>1. DOMAIN doc.entries = {1} /\ doc.entries[1] = e
      BY <2>1
    <3>2. SubjectSeq(doc) = [n \in {1} |-> s]
      BY <1>1, <3>1 DEF SubjectSeq
    <3>3. <<s>> = [n \in 1..1 |-> s] /\ 1..1 = {1}
      OBVIOUS
    <3> QED
      BY <3>2, <3>3
  <2> QED
    BY <1>2, <2>1, <2>2 DEF Follows
<1>3. CASE current # NoPlan
  <2>1. current \in Document
    BY <1>3 DEF Plan
  <2>2. doc.revision = current.revision + 1 /\ current.revision \in Nat
    BY <1>3, <1>4, <2>1, SubjectSeqIs
  <2>3. CASE current.schema = 2
    <3>1. doc.entries = Append(current.entries, e)
      BY <1>3, <1>4, <2>3
    <3>2. SubjectSeq(doc) = Append(SubjectSeq(current), s)
      BY <1>1, <2>1, <3>1, AppendedSubjects
    <3>3. s \notin Subjects(current)
      BY <1>3, <2>3 DEF AlreadyPlanned
    <3>4. Grows(current, doc)
      BY <1>1, <3>1, <3>2, <3>3 DEF Grows
    <3> QED
      BY <1>3, <2>2, <3>4 DEF Follows
  <2>4. CASE current.schema # 2
    <3> DEFINE subjects == IF s \in Subjects(current) THEN SubjectSeq(current)
                           ELSE Append(SubjectSeq(current), s)
    <3>1. subjects \in Seq(Items)
      BY <2>1, SubjectSeqIs
    <3>2. doc.entries = Rebuilt(audit, subjects, IF w THEN {s} ELSE {})
      BY <1>3, <1>4, <2>4
    <3>3. SubjectSeq(doc) = subjects
      BY <1>1, <3>1, <3>2, RebuiltSubjects
    <3>4. Grows(current, doc)
      BY <2>4, <3>3 DEF Grows
    <3> QED
      BY <1>3, <2>2, <3>4 DEF Follows
  <2> QED
    BY <2>3, <2>4
<1> QED
  BY <1>2, <1>3

----------------------------------------------------------------------------
(* The state of the commands.                                              *)

(* What the locals of a command are good for at each of its steps. *)
MemoryOK(m) ==
    /\ m \in CommandState
    /\ m.pc = "audited" => m.audit \in Audit /\ m.subject \in Software(m.audit)
    /\ m.pc \in {"grown", "read", "fresh", "prepared"} => m.doc \in Document
    /\ m.pc \in {"fresh", "prepared"} => m.audit \in Audit
    /\ m.pc = "prepared" => \E now : CanPrepare(m.doc, m.audit, now)

CommandsInv ==
    /\ CommandsTypeOK
    /\ \A c \in Commands : MemoryOK(cmd[c])
    /\ \A c \in Commands : cmd[c].pc = "grown" => Follows(plan, cmd[c].doc)

(* What the user and other programs do leaves a host. *)
LEMMA DriftsAreHosts ==
    ASSUME host \in Host
    PROVE  Drifts \subseteq Host
<1>1. ASSUME NEW s \in host.present PROVE Uninstalled(host, s) \in Host
  BY <1>1 DEF Host, Uninstalled, ServiceStates
<1>2. ASSUME NEW s \in Items PROVE [host EXCEPT !.present = @ \cup {s}] \in Host
  BY DEF Host
<1>3. ASSUME NEW s \in host.present, NEW v \in {"first", "later"}
      PROVE  [host EXCEPT !.version[s] = v] \in Host
  BY DEF Host
<1>4. ASSUME NEW a \in Apps, NEW used \in {"recently", "unknown"}
      PROVE  [host EXCEPT !.running = Toggled(@, a), !.lastUsed[a] = used] \in Host
  BY DEF Host, Toggled
<1>5. ASSUME NEW f \in Formulae, NEW status \in {"none", "started", "error"}
      PROVE  [host EXCEPT !.service[f] = status] \in Host
  BY DEF Host, ServiceStates
<1>6. ASSUME NEW f \in Formulae, NEW g \in Formulae
      PROVE  [host EXCEPT !.needs = @ \cup {<<f, g>>}] \in Host
  BY DEF Host
<1>7. ASSUME NEW p \in Plists PROVE [host EXCEPT !.plists = Toggled(@, p)] \in Host
  BY DEF Host, Toggled
<1>8. ASSUME NEW c \in Casks PROVE [host EXCEPT !.risky = Toggled(@, c)] \in Host
  BY DEF Host, Toggled
<1>9. ASSUME NEW a \in Apps
      PROVE  /\ [host EXCEPT !.immovable = Toggled(@, a)] \in Host
             /\ [host EXCEPT !.immovable = Apps] \in Host
             /\ [host EXCEPT !.faceless = Toggled(@, a)] \in Host
  BY DEF Host, Toggled
<1>10. ASSUME NEW k \in Imperfect PROVE [host EXCEPT !.partial = Toggled(@, k)] \in Host
  BY DEF Host, Toggled
<1> DEFINE times == {"recently", "unknown"}
           status == {"none", "started", "error"}
           D1 == {Uninstalled(host, s) : s \in host.present}
           D2 == {[host EXCEPT !.present = @ \cup {s}] : s \in Items \ host.present}
           versions == {"first", "later"}
           upgraded(s, v) == [host EXCEPT !.version[s] = v]
           D3 == {upgraded(s, v) : s \in host.present, v \in versions}
           dated(a, used) == [host EXCEPT !.running = Toggled(@, a), !.lastUsed[a] = used]
           D4 == {dated(a, used) : a \in Apps \cap host.present, used \in times}
           D5 == {[host EXCEPT !.service[f] = s] : f \in Formulae \cap host.present,
                                                   s \in status}
           D6 == {[host EXCEPT !.needs = @ \cup {<<f, g>>}]
                    : f \in Formulae \cap host.present, g \in Formulae \cap host.present}
           D7 == {[host EXCEPT !.plists = Toggled(@, p)]
                    : p \in {q \in Plists : \E a \in Apps \cap host.present :
                                              Bundle[a] = q.bundle}}
           D8 == {[host EXCEPT !.risky = Toggled(@, c)] : c \in Casks \cap host.present}
           D9 == {[host EXCEPT !.immovable = Toggled(@, a)] : a \in Apps \cap host.present}
           D10 == {[host EXCEPT !.immovable = Apps]}
           D11 == {[host EXCEPT !.faceless = Toggled(@, a)] : a \in Apps \cap host.present}
           D12 == {[host EXCEPT !.partial = Toggled(@, k)] : k \in Imperfect}
<1>11. Drifts = D1 \cup D2 \cup D3 \cup D11 \cup D12 \cup D4 \cup D5 \cup D6 \cup D7
                   \cup D8 \cup D9 \cup D10
  BY SMTT(30) DEF Drifts
<1>3a. ASSUME NEW s \in host.present, NEW v \in versions
       PROVE  upgraded(s, v) \in Host
  BY <1>3
<1>4a. ASSUME NEW a \in Apps, NEW used \in times
       PROVE  dated(a, used) \in Host
  BY <1>4
<1>5a. ASSUME NEW f \in Formulae, NEW s \in status
       PROVE  [host EXCEPT !.service[f] = s] \in Host
  BY <1>5
<1> HIDE DEF times, status, dated, versions, upgraded
<1>21. D1 \subseteq Host
  BY <1>1
<1>22. D2 \subseteq Host
  BY <1>2
<1>23. D3 \subseteq Host
  BY <1>3a
<1>24. D4 \subseteq Host
  BY <1>4a
<1>25. D5 \subseteq Host
  BY <1>5a
<1>26. D6 \subseteq Host
  BY <1>6
<1>27. D7 \subseteq Host
  BY <1>7
<1>28. D8 \subseteq Host
  BY <1>8
<1>29. D9 \subseteq Host
  BY <1>9
<1>30. D10 \subseteq Host
  BY DEF Host
<1>31. D11 \subseteq Host
  BY <1>9
<1>32. D12 \subseteq Host
  BY <1>10
<1> HIDE DEF D1, D2, D3, D4, D5, D6, D7, D8, D9, D10, D11, D12
<1> QED
  BY <1>11, <1>21, <1>22, <1>23, <1>24, <1>25, <1>26, <1>27, <1>28, <1>29, <1>30, <1>31, <1>32

(* An audit of the host as it is, whatever fails. *)
LEMMA AuditNow ==
    ASSUME host \in Host, NEW f \in FaultsHere
    PROVE  [host |-> host, fault |-> f] \in Audit
  BY DEF Audit, FaultsHere

(* A command that is not running satisfies all of it. *)
LEMMA IdleIsOK == MemoryOK(Idle) /\ Idle \in CommandState /\ Idle.pc = "idle"
  BY DEF MemoryOK, CommandState, Idle, Plan

(* The first state: no command runs, and an old plan is a plan. *)
LEMMA CommandsStart ==
    ASSUME Init
    PROVE  CommandsInv
<1>1. PICK sc \in Scenarios : CommandsInit(sc)
  BY DEF Init
<1>2. host \in Host /\ left \in Budget
  BY <1>1, CommandConstants DEF CommandsInit
<1>3. plan \in Plan
  <2> DEFINE audit == [host |-> sc.host, fault |-> NoFault]
             old(s) == [schema |-> 1, revision |-> 1, entries |-> <<Entry(audit, s, FALSE)>>]
  <2>1. plan = NoPlan \/ \E s \in sc.legacy : plan = old(s)
    BY <1>1 DEF CommandsInit
  <2>2. ASSUME NEW s \in sc.legacy PROVE old(s) \in Document
    <3>1. audit \in Audit
      BY CommandConstants DEF Audit, Fault, NoFault
    <3>2. s \in Items
      BY CommandConstants DEF Host
    <3> HIDE DEF audit
    <3>3. Entry(audit, s, FALSE) \in Entries
      BY <3>1, <3>2, EntryIs
    <3> DEFINE e == Entry(audit, s, FALSE)
    <3>4. e \in Entries /\ old(s) = [schema |-> 1, revision |-> 1, entries |-> <<e>>]
      BY <3>3
    <3> HIDE DEF e, old
    <3>5. <<e>> \in Seq(Entries)
      BY <3>4
    <3> QED
      BY <3>4, <3>5 DEF Document
  <2> HIDE DEF old
  <2> QED
    BY <2>1, <2>2 DEF Plan
<1>4. \A c \in Commands : cmd[c] = Idle
  BY <1>1 DEF CommandsInit
<1>5. cmd \in [Commands -> CommandState]
  BY <1>1, IdleIsOK DEF CommandsInit
<1> QED
  BY <1>2, <1>3, <1>4, <1>5, IdleIsOK DEF CommandsInv, CommandsTypeOK

(* A step of one command that leaves the plan alone needs a look at the    *)
(* locals of that command only.                                            *)
LEMMA OneCommandMoves ==
    ASSUME CommandsInv, NEW c \in Commands, NEW m,
           plan' = plan, host' \in Host, left' \in Budget,
           cmd' = [cmd EXCEPT ![c] = m],
           MemoryOK(m), m.pc = "grown" => Follows(plan, m.doc)
    PROVE  CommandsInv'
<1>1. cmd' \in [Commands -> CommandState]
  BY DEF CommandsInv, CommandsTypeOK, MemoryOK
<1>2. CommandsTypeOK'
  BY <1>1 DEF CommandsInv, CommandsTypeOK
<1>3. \A d \in Commands : cmd'[d] = IF d = c THEN m ELSE cmd[d]
  BY DEF CommandsInv, CommandsTypeOK
<1>4. \A d \in Commands : MemoryOK(cmd'[d])
  BY <1>3 DEF CommandsInv
<1>5. \A d \in Commands : cmd'[d].pc = "grown" => Follows(plan, cmd'[d].doc)
  BY <1>3 DEF CommandsInv
<1> QED
  BY <1>2, <1>4, <1>5 DEF CommandsInv, MemoryOK

(* An audit finds the subject, in the host as it is. *)
LEMMA AuditForAddKeeps ==
    ASSUME CommandsInv, NEW c \in Commands, NEW s \in Items, NEW w \in BOOLEAN,
           NEW f \in FaultsHere, AuditForAdd(c, s, w, f)
    PROVE  CommandsInv'
<1> DEFINE audit == [host |-> host, fault |-> f]
           m == [Idle EXCEPT !.pc = "audited", !.audit = audit, !.subject = s, !.startup = w]
<1>1. audit \in Audit /\ s \in Software(audit)
  <2>1. host \in Host
    BY DEF CommandsInv, CommandsTypeOK
  <2> QED
    BY <2>1, AuditNow DEF AuditForAdd, Resolves
<1>2. cmd' = [cmd EXCEPT ![c] = m] /\ plan' = plan /\ host' = host
  BY DEF AuditForAdd
<1>3. left' \in Budget
  <2>1. left \in Budget /\ left.adds > 0
    BY DEF AuditForAdd, CommandsInv, CommandsTypeOK
  <2>2. \/ left' = [left EXCEPT !.adds = @ - 1]
        \/ left.faults > 0 /\ left' = [left EXCEPT !.adds = @ - 1, !.faults = @ - 1]
    BY DEF AuditForAdd
  <2>3. CASE left' = [left EXCEPT !.adds = @ - 1]
    BY <2>1, <2>3 DEF Budget
  <2>4. CASE left.faults > 0 /\ left' = [left EXCEPT !.adds = @ - 1, !.faults = @ - 1]
    <3>1. left.adds \in Nat /\ left.faults \in Nat
      BY <2>1 DEF Budget
    <3>2. left.adds - 1 \in Nat /\ left.faults - 1 \in Nat
      BY <2>1, <2>4, <3>1
    <3> QED
      BY <2>1, <2>4, <3>2 DEF Budget
  <2> QED
    BY <2>2, <2>3, <2>4
<1> HIDE DEF audit
<1>4. MemoryOK(m) /\ m.pc # "grown"
  BY <1>1 DEF MemoryOK, Idle, CommandState, Plan
<1> HIDE DEF m
<1>5. host' \in Host
  BY <1>2 DEF CommandsInv, CommandsTypeOK
<1> QED
  BY <1>2, <1>3, <1>4, <1>5, OneCommandMoves

(* What is computed from the plan that was read follows that plan. *)
LEMMA GrowPlanKeeps ==
    ASSUME CommandsInv, NEW c \in Commands, GrowPlan(c)
    PROVE  CommandsInv'
<1> DEFINE old == cmd[c]
           doc == Extended(plan, old.audit, old.subject, old.startup)
           m == [Idle EXCEPT !.pc = "grown", !.doc = doc]
<1>1. /\ old.audit \in Audit /\ old.subject \in Items /\ old.startup \in BOOLEAN
      /\ plan \in Plan
  <2>1. MemoryOK(old) /\ old.pc = "audited" /\ plan \in Plan
    BY DEF CommandsInv, CommandsTypeOK, GrowPlan
  <2>2. old.audit \in Audit /\ old.subject \in Software(old.audit)
    BY <2>1 DEF MemoryOK
  <2>3. old.startup \in BOOLEAN
    BY <2>1 DEF MemoryOK, CommandState
  <2> QED
    BY <2>1, <2>2, <2>3, SoftwareIsPresent
<1>2. host' \in Host /\ left' \in Budget /\ plan' = plan
  BY DEF GrowPlan, CommandsInv, CommandsTypeOK
<1>3. CASE AlreadyPlanned(plan, old.subject)
             \/ AddRaises(plan, old.audit, old.subject, old.startup)
  <2>1. cmd' = [cmd EXCEPT ![c] = Idle]
    BY <1>3 DEF GrowPlan
  <2> QED
    BY <1>2, <2>1, IdleIsOK, OneCommandMoves
<1>4. CASE ~(AlreadyPlanned(plan, old.subject)
               \/ AddRaises(plan, old.audit, old.subject, old.startup))
  <2>1. cmd' = [cmd EXCEPT ![c] = m]
    BY <1>4 DEF GrowPlan
  <2>2. Follows(plan, doc) /\ doc \in Document
    <3>1. doc \in Document
      BY <1>1, ExtendedIs
    <3>2. Follows(plan, doc)
      BY <1>1, <1>4, ExtendedFollows
    <3> QED
      BY <3>1, <3>2
  <2> HIDE DEF doc
  <2>3. MemoryOK(m) /\ m.pc = "grown" /\ m.doc = doc
    BY <2>2 DEF MemoryOK, Idle, CommandState, Plan
  <2> HIDE DEF m
  <2> QED
    BY <1>2, <2>1, <2>2, <2>3, OneCommandMoves
<1> QED
  BY <1>3, <1>4

(* When one revision is appended, every other that was made of the same    *)
(* plan or of an older one is now too old.                                 *)
LEMMA AppendPlanKeeps ==
    ASSUME CommandsInv, NEW c \in Commands, AppendPlan(c)
    PROVE  CommandsInv'
<1> DEFINE doc == cmd[c].doc
<1>1. MemoryOK(cmd[c]) /\ doc \in Document /\ Follows(plan, doc)
  BY DEF CommandsInv, MemoryOK, AppendPlan
<1>2. /\ host' \in Host /\ left' \in Budget /\ cmd' = [cmd EXCEPT ![c] = Idle]
      /\ plan' = IF Accepts(plan, doc) THEN doc ELSE plan
  BY DEF AppendPlan, CommandsInv, CommandsTypeOK
<1> HIDE DEF doc
<1>3. CASE ~Accepts(plan, doc)
  <2>1. plan' = plan
    BY <1>2, <1>3
  <2> QED
    BY <1>2, <2>1, IdleIsOK, OneCommandMoves
<1>4. CASE Accepts(plan, doc)
  <2>1. plan' = doc
    BY <1>2, <1>4
  <2>2. cmd' \in [Commands -> CommandState]
    BY <1>2, IdleIsOK DEF CommandsInv, CommandsTypeOK
  <2>3. \A d \in Commands : cmd'[d] = IF d = c THEN Idle ELSE cmd[d]
    BY <1>2 DEF CommandsInv, CommandsTypeOK
  <2>4. \A d \in Commands : MemoryOK(cmd'[d])
    BY <2>3, IdleIsOK DEF CommandsInv
  <2>5. ASSUME NEW d \in Commands, cmd'[d].pc = "grown"
        PROVE  Follows(doc, cmd'[d].doc)
    <3> DEFINE late == cmd[d].doc
    <3>1. cmd'[d] = cmd[d]
      BY <2>3, <2>5, IdleIsOK
    <3>2. MemoryOK(cmd[d]) /\ Follows(plan, late) /\ cmd[d].pc = "grown"
      BY <2>5, <3>1 DEF CommandsInv
    <3>3. late \in Document
      BY <3>2 DEF MemoryOK
    <3> HIDE DEF late
    <3>4. late.revision \in Nat /\ doc.revision \in Nat
      BY <1>1, <3>3 DEF Document
    <3>5. doc # NoPlan
      BY <1>1, CommandConstants
    <3>6. late.revision <= doc.revision
      <4>1. CASE plan = NoPlan
        BY <1>4, <3>2, <3>4, <4>1 DEF Follows, Accepts
      <4>2. CASE plan # NoPlan
        BY <1>4, <3>2, <3>4, <4>2 DEF Follows, Accepts
      <4> QED
        BY <4>1, <4>2
    <3>7. late.revision <= doc.revision + 1 /\ late.revision # doc.revision + 1
      BY <3>4, <3>6
    <3>8. Follows(doc, late)
      BY <3>5, <3>7 DEF Follows
    <3> QED
      BY <3>1, <3>8 DEF late
  <2>6. CommandsTypeOK'
    BY <1>1, <1>2, <2>1, <2>2 DEF CommandsTypeOK, Plan
  <2> QED
    BY <2>1, <2>4, <2>5, <2>6 DEF CommandsInv, MemoryOK
<1> QED
  BY <1>3, <1>4

(* An apply remembers the plan it reads and the audit it takes. *)
LEMMA ReadForApplyKeeps ==
    ASSUME CommandsInv, NEW c \in Commands, ReadForApply(c)
    PROVE  CommandsInv'
<1> DEFINE m == IF plan.schema = 2 /\ Ready(plan)
                THEN [Idle EXCEPT !.pc = "read", !.doc = plan] ELSE Idle
<1>1. /\ host' \in Host /\ plan' = plan /\ cmd' = [cmd EXCEPT ![c] = m]
  BY DEF ReadForApply, CommandsInv, CommandsTypeOK
<1>2. left' \in Budget
  BY DEF ReadForApply, CommandsInv, CommandsTypeOK, Budget
<1>3. plan \in Document
  BY DEF ReadForApply, CommandsInv, CommandsTypeOK, Plan
<1>4. MemoryOK(m) /\ m.pc # "grown"
  <2>1. CASE m = Idle
    BY <2>1, IdleIsOK
  <2>2. CASE m = [Idle EXCEPT !.pc = "read", !.doc = plan]
    BY <1>3, <2>2 DEF MemoryOK, Idle, CommandState, Plan
  <2> QED
    BY <2>1, <2>2
<1> HIDE DEF m
<1> QED
  BY <1>1, <1>2, <1>4, OneCommandMoves

(* The audit that apply takes before it prepares. *)
LEMMA AuditForApplyKeeps ==
    ASSUME CommandsInv, NEW c \in Commands, NEW f \in FaultsHere, AuditForApply(c, f)
    PROVE  CommandsInv'
<1> DEFINE old == cmd[c]
           audit == [host |-> host, fault |-> f]
           m == [old EXCEPT !.pc = "fresh", !.audit = audit]
<1>1. MemoryOK(old) /\ old.pc = "read" /\ old \in CommandState
  BY DEF CommandsInv, AuditForApply, MemoryOK
<1>2. audit \in Audit
  BY AuditNow DEF CommandsInv, CommandsTypeOK
<1>3. host' \in Host /\ plan' = plan
  BY DEF AuditForApply, CommandsInv, CommandsTypeOK
<1>4. left' \in Budget
  BY DEF AuditForApply, CommandsInv, CommandsTypeOK, Budget
<1>5. cmd' = [cmd EXCEPT ![c] = m]
  <2>1. cmd' = [cmd EXCEPT ![c].pc = "fresh", ![c].audit = audit]
    BY DEF AuditForApply
  <2>2. cmd \in [Commands -> CommandState]
    BY DEF CommandsInv, CommandsTypeOK
  <2> HIDE DEF audit
  <2> QED
    BY <2>1, <2>2
<1> HIDE DEF audit
<1>6. MemoryOK(m) /\ m.pc = "fresh"
  BY <1>1, <1>2 DEF MemoryOK, CommandState
<1> HIDE DEF m
<1> QED
  BY <1>3, <1>4, <1>5, <1>6, OneCommandMoves

(* What is prepared can be prepared: on the host as it is at that moment. *)
LEMMA PrepareKeeps ==
    ASSUME CommandsInv, NEW c \in Commands, Prepare(c)
    PROVE  CommandsInv'
<1> DEFINE old == cmd[c]
           m == [old EXCEPT !.pc = "prepared"]
<1>1. MemoryOK(old) /\ old.pc = "fresh" /\ CanPrepare(old.doc, old.audit, host)
  BY DEF CommandsInv, Prepare
<1>2. /\ old \in CommandState /\ old.doc \in Document /\ old.audit \in Audit
      /\ \E now : CanPrepare(old.doc, old.audit, now)
  BY <1>1 DEF MemoryOK
<1>3. host' \in Host /\ left' \in Budget /\ plan' = plan /\ cmd' = [cmd EXCEPT ![c] = m]
  BY DEF Prepare, CommandsInv, CommandsTypeOK
<1>4. m.pc = "prepared" /\ m.doc = old.doc /\ m.audit = old.audit /\ m \in CommandState
  BY <1>2 DEF CommandState
<1> HIDE DEF m, old
<1>5. MemoryOK(m)
  BY <1>2, <1>4 DEF MemoryOK
<1> QED
  BY <1>3, <1>4, <1>5, OneCommandMoves

(* A refused approval ends the command. *)
LEMMA RejectKeeps ==
    ASSUME CommandsInv, NEW c \in Commands, Reject(c)
    PROVE  CommandsInv'
<1>1. host' \in Host /\ left' \in Budget /\ plan' = plan /\ cmd' = [cmd EXCEPT ![c] = Idle]
  BY DEF Reject, CommandsInv, CommandsTypeOK
<1> QED
  BY <1>1, IdleIsOK, OneCommandMoves

(* Carrying a plan out takes things off the host and ends the command. *)
LEMMA CarryOutKeeps ==
    ASSUME CommandsInv, NEW c \in Commands, NEW n, CarryOut(c, n)
    PROVE  CommandsInv'
<1>1. plan' = plan /\ left' \in Budget /\ cmd' = [cmd EXCEPT ![c] = Idle]
  BY DEF CarryOut, CommandsInv, CommandsTypeOK
<1>2. PICK gone : host' = [host EXCEPT !.present = @ \ gone, !.running = @ \ gone]
  BY DEF CarryOut
<1>3. host' \in Host
  BY <1>2 DEF CommandsInv, CommandsTypeOK, Host
<1> QED
  BY <1>1, <1>3, IdleIsOK, OneCommandMoves

(* Audits, plans in the making and prepared plans are the commands' own: a *)
(* host that changes under them leaves what is known of them as it was.    *)
LEMMA DriftKeeps ==
    ASSUME CommandsInv, Drift
    PROVE  CommandsInv'
<1>1. host' \in Host
  BY DriftsAreHosts DEF Drift, CommandsInv, CommandsTypeOK
<1>2. left' \in Budget
  BY DEF Drift, CommandsInv, CommandsTypeOK, Budget
<1> QED
  BY <1>1, <1>2 DEF Drift, CommandsInv, CommandsTypeOK, MemoryOK

(* Every step, the server's among them, keeps the invariant. *)
LEMMA CommandsInvStep ==
    ASSUME CommandsInv, [Next]_<<host, cliVars, codexVars>>
    PROVE  CommandsInv'
<1>1. CASE CommandsNext
  <2>1. CASE Drift
    BY <2>1, DriftKeeps
  <2>2. ASSUME NEW c \in Commands, CommandStep(c)
        PROVE  CommandsInv'
    <3>1. CASE \E s \in Items, w \in BOOLEAN, f \in FaultsHere : AuditForAdd(c, s, w, f)
      BY <3>1, AuditForAddKeeps
    <3>2. CASE GrowPlan(c)
      BY <3>2, GrowPlanKeeps
    <3>3. CASE AppendPlan(c)
      BY <3>3, AppendPlanKeeps
    <3>4. CASE ReadForApply(c)
      BY <3>4, ReadForApplyKeeps
    <3>5. CASE \E f \in FaultsHere : AuditForApply(c, f)
      BY <3>5, AuditForApplyKeeps
    <3>6. CASE Prepare(c)
      BY <3>6, PrepareKeeps
    <3>7. CASE Reject(c)
      BY <3>7, RejectKeeps
    <3>8. CASE \E n \in 0..8 : CarryOut(c, n)
      BY <3>8, CarryOutKeeps
    <3> QED
      BY <2>2, <3>1, <3>2, <3>3, <3>4, <3>5, <3>6, <3>7, <3>8 DEF CommandStep
  <2> QED
    BY <1>1, <2>1, <2>2 DEF CommandsNext
<1>2. CASE UNCHANGED <<host, cliVars>>
  BY <1>2 DEF CommandsInv, CommandsTypeOK, MemoryOK, cliVars
<1> QED
  BY <1>1, <1>2 DEF Next

(* Plans, budgets, the host and what commands remember keep their types; a *)
(* document in the making follows the active plan, or the compare of       *)
(* PlanStore.append refuses it; what is prepared passed every check.       *)
THEOREM PlanningInvariant == Spec => []CommandsInv
<1>1. Init => CommandsInv
  BY CommandsStart
<1>2. CommandsInv /\ [Next]_<<host, cliVars, codexVars>> => CommandsInv'
  BY CommandsInvStep
<1> QED
  BY <1>1, <1>2, PTL DEF Spec

(* The variables of the commands and the host keep their types. *)
THEOREM PlanningTypes == Spec => []CommandsTypeOK
<1>1. CommandsInv => CommandsTypeOK
  BY DEF CommandsInv
<1> QED
  BY <1>1, PlanningInvariant, PTL

(* Of a prepared plan: document, audit and a host it could be prepared on. *)
LEMMA PreparedCommand ==
    ASSUME CommandsInv, NEW c \in Commands, Prepared(c)
    PROVE  /\ cmd[c].doc \in Document /\ cmd[c].audit \in Audit
           /\ \E now : CanPrepare(cmd[c].doc, cmd[c].audit, now)
  BY DEF CommandsInv, MemoryOK, Prepared

(* Everything a prepared plan removes was there, in the reviewed version,  *)
(* when the fresh audit looked, and a cask it uninstalls for an            *)
(* application can have put no other application there.                    *)
THEOREM PreparedTargetsAreReal == Spec => []TargetsAreReal
<1>1. CommandsInv => TargetsAreReal
  <2> SUFFICES ASSUME CommandsInv PROVE TargetsAreReal
    OBVIOUS
  <2>1. ASSUME NEW c \in Commands, Prepared(c)
        PROVE  /\ Planned(c) \subseteq Seen(c).present
               /\ \A n \in DOMAIN cmd[c].doc.entries :
                     cmd[c].doc.entries[n].candidate.version
                        = Seen(c).version[cmd[c].doc.entries[n].candidate.subject]
               /\ \A act \in Range(Actions(cmd[c].doc)) :
                     (act.kind = "uninstall_cask") =>
                         /\ act.target \in Seen(c).present \ Seen(c).risky
                         /\ (/\ act.subject \in Apps
                             /\ StateOf(cmd[c].audit, "applications") = "complete") =>
                               {a \in Apps \cap Seen(c).present : Bundle[a] = Bundle[act.target]}
                                   = {act.subject}
    <3> DEFINE doc == cmd[c].doc
               audit == cmd[c].audit
    <3>1. doc \in Document /\ audit \in Audit /\ \E now : CanPrepare(doc, audit, now)
      BY <2>1, PreparedCommand
    <3> HIDE DEF doc, audit
    <3>2. /\ Subjects(doc) \subseteq audit.host.present
          /\ \A n \in DOMAIN doc.entries :
                doc.entries[n].candidate.version
                   = audit.host.version[doc.entries[n].candidate.subject]
          /\ \A act \in Range(Actions(doc)) :
                (act.kind = "uninstall_cask") =>
                    /\ act.target \in audit.host.present \ audit.host.risky
                    /\ (/\ act.subject \in Apps
                        /\ StateOf(audit, "applications") = "complete") =>
                          {a \in Apps \cap audit.host.present : Bundle[a] = Bundle[act.target]}
                              = {act.subject}
      BY <3>1, PreparedTargets
    <3> QED
      BY <3>2 DEF doc, audit, Planned, Seen
  <2> QED
    BY <2>1 DEF TargetsAreReal
<1> QED
  BY <1>1, PlanningInvariant, PTL

(* Whatever happened since the plan was made, no application that an       *)
(* action can take away was running when apply looked, unless apply did    *)
(* not ask for the evidence, as the property says case by case; and no     *)
(* formula it removes was needed or, startup items being seen, in service. *)
THEOREM PreparedIsNotInUse == Spec => []NothingInUseIsPrepared
<1>1. CommandsInv => NothingInUseIsPrepared
  <2> SUFFICES ASSUME CommandsInv, NEW c \in Commands, Prepared(c),
                      NEW act \in Range(Actions(cmd[c].doc))
               PROVE  /\ \A a \in Takes(act) \cap Seen(c).present \cap Seen(c).running :
                            /\ act.kind = "uninstall_cask"
                            /\ \/ act.subject = act.target
                               \/ cmd[c].audit.fault.at = "ps" \/ a \in Seen(c).faceless
                               \/ Hides(cmd[c].audit, "app", a)
                      /\ act.subject \in Formulae =>
                            /\ \A g \in Formulae \cap Seen(c).present :
                                  <<g, act.subject>> \notin Seen(c).needs
                            /\ Seen(c).service[act.subject] = "started" =>
                                  cmd[c].audit.fault.at = "startup"
    BY DEF NothingInUseIsPrepared
  <2> DEFINE doc == cmd[c].doc
             audit == cmd[c].audit
  <2>1. doc \in Document /\ audit \in Audit /\ \E now : CanPrepare(doc, audit, now)
    BY PreparedCommand
  <2>2. act \in Range(Actions(doc)) /\ Seen(c) = audit.host
    BY DEF Seen
  <2> HIDE DEF doc, audit
  <2>3. /\ \A a \in Takes(act) \cap audit.host.present \cap audit.host.running :
              /\ act.kind = "uninstall_cask"
              /\ \/ act.subject = act.target
                 \/ audit.fault.at = "ps" \/ a \in audit.host.faceless
                 \/ Hides(audit, "app", a)
        /\ act.subject \in Formulae =>
              /\ \A g \in Formulae \cap audit.host.present :
                    <<g, act.subject>> \notin audit.host.needs
              /\ audit.host.service[act.subject] = "started" => audit.fault.at = "startup"
    BY <2>1, <2>2, PreparedNotInUse
  <2> QED
    BY <2>2, <2>3 DEF audit
<1> QED
  BY <1>1, PlanningInvariant, PTL

(* Of two tools that go together, none is removed while the fresh audit    *)
(* sees the other installed and not needed by anything else.               *)
THEOREM PairsArePreparedTogether == Spec => []PairsStayTogether
<1>1. CommandsInv => PairsStayTogether
  <2> SUFFICES ASSUME CommandsInv, NEW c \in Commands, Prepared(c),
                      NEW s \in Planned(c), NEW other \in Seen(c).present, NEW r \in Relations,
                      r.category = "together", {Role[s], Role[other]} = {r.left, r.right},
                      Complete(cmd[c].audit, {"applications", "homebrew"})
               PROVE  UsageLabel(cmd[c].audit, other) = "indirectly_required"
    BY DEF PairsStayTogether
  <2> DEFINE doc == cmd[c].doc
             audit == cmd[c].audit
  <2>1. doc \in Document /\ audit \in Audit /\ \E now : CanPrepare(doc, audit, now)
    BY PreparedCommand
  <2>2. /\ s \in Subjects(doc) /\ other \in audit.host.present
        /\ Complete(audit, {"applications", "homebrew"})
    BY DEF Planned, Seen
  <2> HIDE DEF doc, audit
  <2>3. UsageLabel(audit, other) = "indirectly_required"
    BY <2>1, <2>2, PreparedPairs
  <2> QED
    BY <2>3 DEF audit
<1> QED
  BY <1>1, PlanningInvariant, PTL

(* A startup change blocks its own plan, so none is ever prepared. *)
THEOREM StartupIsNeverPrepared == Spec => []OnlyRemovalsArePrepared
<1>1. CommandsInv => OnlyRemovalsArePrepared
  <2> SUFFICES ASSUME CommandsInv, NEW c \in Commands, Prepared(c),
                      NEW act \in Range(Actions(cmd[c].doc))
               PROVE  act.kind \in {"trash", "uninstall_formula", "uninstall_cask"}
    BY DEF OnlyRemovalsArePrepared, Kinds
  <2> DEFINE doc == cmd[c].doc
             audit == cmd[c].audit
  <2>1. doc \in Document /\ audit \in Audit /\ \E now : CanPrepare(doc, audit, now)
    BY PreparedCommand
  <2>2. act \in Range(Actions(doc))
    OBVIOUS
  <2> HIDE DEF doc, audit
  <2>3. PICK s \in Subjects(doc) : act \in Range(Removal(audit, s))
    BY <2>1, <2>2, PreparedRemoves
  <2>4. s \in Items
    BY <2>1, SubjectSeqIs
  <2> QED
    BY <2>1, <2>3, <2>4, RemovalIs
<1> QED
  BY <1>1, PlanningInvariant, PTL

----------------------------------------------------------------------------
(* What happens to the active plan.                                        *)

(* Only an accepted document replaces it, and that one follows it. *)
LEMMA PlanStep ==
    ASSUME CommandsInv, [Next]_<<host, cliVars, codexVars>>, plan' # plan
    PROVE  /\ plan' \in Document
           /\ IF plan = NoPlan
              THEN \E s \in Items : SubjectSeq(plan') = <<s>>
              ELSE plan \in Document /\ Grows(plan, plan')
<1>1. PICK c \in Commands : AppendPlan(c)
  <2>1. CommandsNext
    BY DEF Next, cliVars
  <2>2. PICK c \in Commands : CommandStep(c)
    BY <2>1 DEF CommandsNext, Drift
  <2>3. AppendPlan(c)
    BY <2>2 DEF CommandStep, AuditForAdd, GrowPlan, ReadForApply, AuditForApply, Prepare,
                Reject, CarryOut
  <2> QED
    BY <2>3
<1> DEFINE doc == cmd[c].doc
<1>2. doc \in Document /\ Follows(plan, doc) /\ plan \in Plan
  BY <1>1 DEF CommandsInv, CommandsTypeOK, MemoryOK, AppendPlan
<1>3. plan' = doc /\ Accepts(plan, doc)
  BY <1>1 DEF AppendPlan
<1> HIDE DEF doc
<1>4. CASE plan = NoPlan
  BY <1>2, <1>3, <1>4 DEF Follows
<1>5. CASE plan # NoPlan
  <2>1. plan \in Document
    BY <1>2, <1>5 DEF Plan
  <2>2. Grows(plan, doc)
    BY <1>2, <1>3, <1>5 DEF Follows, Accepts
  <2> QED
    BY <1>2, <1>3, <1>5, <2>1, <2>2
<1> QED
  BY <1>4, <1>5

(* However commands overlap, a plan that is blocked stays blocked. *)
THEOREM BlockedPlansStayBlocked == Spec => BlockedStaysBlocked
<1>1. CommandsInv /\ [Next]_<<host, cliVars, codexVars>>
        => [(plan # NoPlan /\ plan.schema = 2 /\ ~Ready(plan)) => ~Ready(plan')]_plan
  <2> SUFFICES ASSUME CommandsInv, [Next]_<<host, cliVars, codexVars>>, plan' # plan,
                      plan # NoPlan, plan.schema = 2, ~Ready(plan)
               PROVE  ~Ready(plan')
    OBVIOUS
  <2>1. plan \in Document /\ Grows(plan, plan')
    BY PlanStep
  <2>2. PICK e \in Entries : plan'.entries = Append(plan.entries, e)
    BY <2>1 DEF Grows
  <2>3. plan.entries \in Seq(Entries)
    BY <2>1 DEF Document
  <2>4. PICK n \in DOMAIN plan.entries : plan.entries[n].blocks # {}
    BY DEF Ready
  <2>5. n \in DOMAIN plan'.entries /\ plan'.entries[n] = plan.entries[n]
    BY <2>2, <2>3, <2>4
  <2> QED
    BY <2>4, <2>5 DEF Ready
<1> QED
  BY <1>1, PlanningInvariant, PTL DEF Spec, BlockedStaysBlocked

(* The subjects of the active plan, as PlanGrowth sees them. *)
Wanted == IF plan = NoPlan THEN <<>> ELSE SubjectSeq(plan)

(* The commands implement PlanGrowth: a behaviour begins with an empty     *)
(* list or one old subject, and each append adds one that is not there or  *)
(* leaves the subjects as they are.                                        *)
THEOREM PlansGrow == Spec => KeepsPlanGrowth
<1>1. Init => Growth!Init
  <2> SUFFICES ASSUME Init PROVE Wanted = <<>> \/ \E s \in Items : Wanted = <<s>>
    BY DEF Growth!Init, Wanted
  <2>1. PICK sc \in Scenarios : CommandsInit(sc)
    BY DEF Init
  <2>2. CASE plan = NoPlan
    BY <2>2 DEF Wanted
  <2>3. CASE plan # NoPlan
    <3> DEFINE audit == [host |-> sc.host, fault |-> NoFault]
    <3>0. PICK s \in sc.legacy :
             plan = [schema |-> 1, revision |-> 1, entries |-> <<Entry(audit, s, FALSE)>>]
      BY <2>1, <2>3 DEF CommandsInit
    <3>1. plan.entries = <<Entry(audit, s, FALSE)>>
      BY <3>0
    <3>2. s \in Items /\ audit \in Audit
      BY CommandConstants DEF Host, Audit, Fault, NoFault
    <3> DEFINE e == Entry(audit, s, FALSE)
    <3> HIDE DEF audit
    <3>3. e.candidate.subject = s
      BY <3>2, EntryIs
    <3>4. plan.entries = <<e>>
      BY <3>1
    <3> HIDE DEF e
    <3>5. SubjectSeq(plan) = [n \in {1} |-> s]
      BY <3>3, <3>4 DEF SubjectSeq
    <3>6. <<s>> = [n \in 1..1 |-> s] /\ 1..1 = {1}
      OBVIOUS
    <3> QED
      BY <2>3, <3>2, <3>5, <3>6 DEF Wanted
  <2> QED
    BY <2>2, <2>3
<1>2. CommandsInv /\ [Next]_<<host, cliVars, codexVars>> => [Growth!Next]_Wanted
  <2> SUFFICES ASSUME CommandsInv, [Next]_<<host, cliVars, codexVars>>, Wanted' # Wanted
               PROVE  Growth!Next
    OBVIOUS
  <2>1. plan' # plan
    BY DEF Wanted
  <2>2. plan' \in Document /\ plan' # NoPlan /\ Wanted' = SubjectSeq(plan')
    BY <2>1, PlanStep, CommandConstants DEF Wanted
  <2>3. PICK s \in Items : s \notin Range(Wanted) /\ Wanted' = Append(Wanted, s)
    <3>1. CASE plan = NoPlan
      <4>1. PICK s \in Items : SubjectSeq(plan') = <<s>>
        BY <2>1, <3>1, PlanStep
      <4>2. Wanted = <<>> /\ Range(<<>>) = {} /\ Append(<<>>, s) = <<s>>
        BY <3>1 DEF Wanted, Range
      <4> QED
        BY <2>2, <4>1, <4>2
    <3>2. CASE plan # NoPlan
      <4>1. plan \in Document /\ Grows(plan, plan') /\ Wanted = SubjectSeq(plan)
        BY <2>1, <3>2, PlanStep DEF Wanted
      <4>2. PICK s \in Items : \/ SubjectSeq(plan') = SubjectSeq(plan)
                               \/ /\ s \notin Subjects(plan)
                                  /\ SubjectSeq(plan') = Append(SubjectSeq(plan), s)
        BY <4>1 DEF Grows
      <4>3. Range(SubjectSeq(plan)) = Subjects(plan)
        BY <4>1, SubjectSeqIs
      <4> QED
        BY <2>2, <4>1, <4>2, <4>3
    <3> QED
      BY <3>1, <3>2
  <2>4. Growth!Add(s)
    BY <2>3 DEF Growth!Add, Growth!Range, Range, Wanted
  <2> QED
    BY <2>4 DEF Growth!Next
<1> QED
  BY <1>1, <1>2, PlanningInvariant, PTL DEF Spec, KeepsPlanGrowth, Growth!Spec, Wanted

----------------------------------------------------------------------------
(* A plan that nothing speaks against is prepared.                         *)

(* With no startup change planned, an entry does not depend on whether one *)
(* was asked for.                                                          *)
LEMMA UnflaggedEntry ==
    ASSUME NEW audit \in Audit, NEW s \in Items, NEW w \in BOOLEAN,
           Entry(audit, s, w).blocks = {},
           \A act \in Range(Entry(audit, s, w).actions) : act.kind \notin StartupKinds
    PROVE  Entry(audit, s, w) = Entry(audit, s, FALSE)
<1>1. CASE w = FALSE
  BY <1>1
<1>2. CASE w = TRUE
  <2>1. StartupActions(audit, s) = <<>>
    <3>0. Range(Entry(audit, s, w).actions) =
             (IF w THEN Range(StartupActions(audit, s)) ELSE {}) \cup Range(Removal(audit, s))
      BY EntryIs
    <3>1. Range(StartupActions(audit, s)) \subseteq Range(Entry(audit, s, w).actions)
      BY <1>2, <3>0
    <3>2. \A act \in Range(StartupActions(audit, s)) : act.kind \in StartupKinds
      BY StartupActionsAre DEF StartupKinds
    <3>3. Range(StartupActions(audit, s)) = {}
      BY <3>1, <3>2
    <3>4. StartupActions(audit, s) \in Seq(Action)
      BY StartupActionsAre
    <3> DEFINE q == StartupActions(audit, s)
    <3> HIDE DEF q
    <3>5. q \in Seq(Action) /\ Range(q) = {}
      BY <3>3, <3>4 DEF q
    <3>6. q # <<>> => 1 \in DOMAIN q
      BY <3>5
    <3>7. q = <<>>
      BY <3>5, <3>6 DEF Range
    <3> QED
      BY <3>7 DEF q
  <2>2. Blocks(audit, s, TRUE) = {}
    BY <1>2, EntryIs
  <2>3. Blocks(audit, s, FALSE) = {}
    BY <2>2 DEF Blocks
  <2>4. Removal(audit, s) \in Seq(Action)
    BY RemovalIs
  <2>5. <<>> \o Removal(audit, s) = <<>> \o Removal(audit, s)
    OBVIOUS
  <2> QED
    BY <1>2, <2>1, <2>2, <2>3 DEF Entry
<1> QED
  BY <1>1, <1>2

(* Rebuilding a plan of removals from the audit it was made of gives that  *)
(* plan.                                                                   *)
LEMMA UntouchedFresh ==
    ASSUME NEW p \in Document, NEW audit \in Audit,
           \A n \in DOMAIN p.entries :
               \E s \in Items, w \in BOOLEAN : p.entries[n] = Entry(audit, s, w),
           Ready(p), \A act \in Range(Actions(p)) : act.kind \notin StartupKinds
    PROVE  Fresh(p, audit) = p
<1>1. WithStartup(p) = {}
  BY DEF WithStartup
<1>2. ASSUME NEW n \in DOMAIN p.entries
      PROVE  Fresh(p, audit).entries[n] = p.entries[n]
  <2>1. PICK s \in Items, w \in BOOLEAN : p.entries[n] = Entry(audit, s, w)
    BY <1>2
  <2>2. p.entries[n].candidate.subject = s
    BY <2>1, EntryIs
  <2>3. Fresh(p, audit).entries[n] = Entry(audit, s, s \in WithStartup(p))
    BY <1>2, <2>2, FreshIs
  <2>4. (s \in WithStartup(p)) = FALSE
    BY <1>1
  <2>5. Entry(audit, s, w).blocks = {}
    BY <1>2, <2>1 DEF Ready
  <2>6. \A act \in Range(Entry(audit, s, w).actions) : act.kind \notin StartupKinds
    BY <1>2, <2>1, ActionsAre
  <2>7. Entry(audit, s, w) = Entry(audit, s, FALSE)
    BY <2>5, <2>6, UnflaggedEntry
  <2> QED
    BY <2>1, <2>3, <2>4, <2>7
<1>3. Fresh(p, audit) \in Document /\ DOMAIN Fresh(p, audit).entries = DOMAIN p.entries
  BY FreshIs
<1> DEFINE fresh == Fresh(p, audit)
<1>4. fresh.schema = p.schema /\ fresh.revision = p.revision
  BY DEF Fresh, Document
<1>5. fresh \in Document /\ DOMAIN fresh.entries = DOMAIN p.entries
      /\ \A n \in DOMAIN p.entries : fresh.entries[n] = p.entries[n]
  BY <1>2, <1>3
<1> HIDE DEF fresh
<1>6. fresh.entries = p.entries
  <2>1. fresh.entries \in Seq(Entries) /\ p.entries \in Seq(Entries)
    BY <1>5 DEF Document
  <2> QED
    BY <1>5, <2>1
<1>7. fresh = p
  BY <1>4, <1>5, <1>6 DEF Document
<1> QED
  BY <1>7 DEF fresh

(* In an audit in which nothing failed, the collectors that a plan of      *)
(* removals requires are complete, unless the Mac leaves one partial.      *)
LEMMA CleanIsComplete ==
    ASSUME NEW p, NEW audit \in Audit, audit.fault = NoFault, ~Against(p, audit)
    PROVE  Complete(audit, Required(p))
<1> DEFINE kinds == Kinds(p)
           needed == {"usage", "backups"} \cup (IF "trash" \in kinds THEN {"applications"} ELSE {})
                     \cup (IF kinds \subseteq {"trash"} THEN {} ELSE {"homebrew"})
<1>1. /\ kinds \cap StartupKinds = {} /\ needed \cap audit.host.partial = {}
      /\ "trash" \in kinds => SeenApps(audit) \cap audit.host.faceless = {}
      /\ \A s \in Software(audit) : Role[s] # "tied"
  BY DEF Against
<1>2. Required(p) \subseteq needed \cup {"overlap"}
  BY <1>1 DEF Required, StartupKinds
<1>3. "applications" \in Required(p) => "trash" \in kinds
  BY DEF Required
<1>4. audit.fault.at = "none" /\ audit.host.partial \subseteq Imperfect
  BY SoftwareIsPresent DEF NoFault, Host
<1>5. "overlap" \notin audit.host.partial
  BY <1>4 DEF Imperfect
<1>6. needed \subseteq {"usage", "backups", "applications", "homebrew"}
  OBVIOUS
<1> HIDE DEF needed, kinds
<1>7. ASSUME NEW k \in Required(p) PROVE StateOf(audit, k) = "complete"
  <2>1. k \in {"usage", "backups", "applications", "homebrew", "overlap"}
    BY <1>2, <1>6, <1>7
  <2>2. k \notin audit.host.partial
    BY <1>1, <1>2, <1>5, <1>7
  <2>3. k = "applications" => SeenApps(audit) \cap audit.host.faceless = {}
    BY <1>1, <1>3, <1>7
  <2>4. CASE k = "usage"
    BY <1>4, <2>2, <2>4 DEF StateOf
  <2>5. CASE k = "backups"
    BY <1>4, <2>2, <2>5 DEF StateOf
  <2>6. CASE k = "applications"
    BY <1>4, <2>2, <2>3, <2>6 DEF StateOf
  <2>7. CASE k = "homebrew"
    BY <1>4, <2>2, <2>7 DEF StateOf
  <2>8. CASE k = "overlap"
    BY <1>1, <1>4, <2>2, <2>8 DEF StateOf
  <2> QED
    BY <2>1, <2>4, <2>5, <2>6, <2>7, <2>8
<1> QED
  BY <1>7 DEF Complete

(* What _trash_action and _homebrew_action ask of an action. *)
LEMMA PreparesRemoval ==
    ASSUME NEW act, NEW audit, NEW now
    PROVE  /\ (/\ act.kind = "trash"
               /\ act.subject \in now.present /\ act.subject \notin now.immovable)
              => Prepares(act, audit, now)
           /\ act.kind = "uninstall_formula" /\ HasRecord(act, audit)
              => Prepares(act, audit, now)
           /\ (/\ act.kind = "uninstall_cask"
               /\ HasRecord(act, audit) /\ act.target \notin audit.host.risky)
              => Prepares(act, audit, now)
<1> DEFINE found == {i \in Startup(audit) : StartupId(i) = act.target /\ i.owner = act.subject}
           changed == Cardinality(found) = 1 /\ \A i \in found : i.running # "unknown"
           free == act.subject \in now.present /\ act.subject \notin now.immovable
           harmless == HasRecord(act, audit) /\ act.target \notin audit.host.risky
           startup == act.kind \in StartupKinds
<1>1. Prepares(act, audit, now) =
        CASE act.kind = "trash" -> free
          [] act.kind = "uninstall_formula" -> HasRecord(act, audit)
          [] act.kind = "uninstall_cask" -> harmless
          [] startup -> changed
  BY DEF Prepares
<1>2. startup => act.kind \notin {"trash", "uninstall_formula", "uninstall_cask"}
  BY DEF StartupKinds
<1>3. free \in BOOLEAN /\ changed \in BOOLEAN /\ harmless \in BOOLEAN /\ startup \in BOOLEAN
  OBVIOUS
<1> HIDE DEF found, changed, free, harmless, startup
<1>4. CASE act.kind = "trash"
  BY <1>1, <1>2, <1>4 DEF free
<1>5. CASE act.kind = "uninstall_formula"
  BY <1>1, <1>2, <1>5
<1>6. CASE act.kind = "uninstall_cask"
  BY <1>1, <1>2, <1>6 DEF harmless
<1> QED
  BY <1>4, <1>5, <1>6

(* What such an audit removes is there to be removed. *)
LEMMA CleanPrepares ==
    ASSUME NEW audit \in Audit, NEW s \in Software(audit), NEW act \in Range(Removal(audit, s)),
           act.kind = "uninstall_cask" => act.target \notin audit.host.risky,
           act.kind = "trash" => act.subject \notin audit.host.immovable
    PROVE  Prepares(act, audit, audit.host)
<1>1. s \in Items /\ s \in audit.host.present
  BY SoftwareIsPresent
<1>2. /\ act.subject = s
      /\ act.kind \in {"trash", "uninstall_formula", "uninstall_cask"}
      /\ act.kind = "uninstall_formula" <=> s \in Formulae
      /\ act.kind = "trash" <=> Token(audit, s) = None
      /\ act.target = IF Token(audit, s) = None THEN s ELSE Token(audit, s)
  BY <1>1, RemovalIs
<1>3. CASE act.kind = "trash"
  <2>1. act.subject \in audit.host.present /\ act.subject \notin audit.host.immovable
    BY <1>1, <1>2, <1>3
  <2> QED
    BY <1>3, <2>1, PreparesRemoval
<1>4. CASE act.kind # "trash"
  <2>1. act.target \in Software(audit)
    <3>1. CASE s \in Apps
      <4>1. Token(audit, s) \in Casks /\ Correlated(audit, s, Token(audit, s))
        BY <1>1, <1>2, <1>4, <3>1, TokenIs
      <4>2. Token(audit, s) \in SeenBrew(audit)
        BY <4>1 DEF Correlated, Claims
      <4> QED
        BY <1>2, <1>4, <4>2 DEF Software
    <3>2. CASE s \notin Apps
      BY <1>1, <1>2, <1>4, <3>2, TokenIs
    <3> QED
      BY <3>1, <3>2
  <2>2. CASE act.kind = "uninstall_formula"
    BY <2>1, <2>2, PreparesRemoval DEF HasRecord
  <2>3. CASE act.kind = "uninstall_cask"
    <3>1. HasRecord(act, audit) /\ act.target \notin audit.host.risky
      BY <2>1, <2>3 DEF HasRecord
    <3> QED
      BY <2>3, <3>1, PreparesRemoval
  <2> QED
    BY <1>2, <1>4, <2>2, <2>3
<1> QED
  BY <1>3, <1>4

(* A ready and valid plan, made of an audit in which nothing failed, is    *)
(* prepared from that audit unless one of the listed reasons is against it.*)
LEMMA UntouchedIsPrepared ==
    ASSUME NEW p \in Document, p.schema = 2, p.entries # <<>>, NEW audit \in Audit,
           audit.fault = NoFault,
           \A n \in DOMAIN p.entries :
               \E s \in Software(audit), w \in BOOLEAN : p.entries[n] = Entry(audit, s, w),
           Ready(p), Valid(p), ~Against(p, audit)
    PROVE  CanPrepare(p, audit, audit.host)
<1>1. \A act \in Range(Actions(p)) :
         /\ act.kind \notin StartupKinds
         /\ act.kind = "uninstall_cask" => act.target \notin audit.host.risky
         /\ act.kind = "trash" => act.subject \notin audit.host.immovable \cup NestedApps
  BY DEF Against, Kinds
<1>2. Fresh(p, audit) = p
  <2>1. \A act \in Range(Actions(p)) : act.kind \notin StartupKinds
    BY <1>1
  <2>2. Software(audit) \subseteq Items
    BY SoftwareIsPresent
  <2> QED
    BY <2>1, <2>2, UntouchedFresh
<1>3. Complete(audit, Required(p))
  BY CleanIsComplete
<1>4. \A n \in DOMAIN p.entries :
         /\ p.entries[n].candidate.subject \in Software(audit)
         /\ Range(p.entries[n].actions) \subseteq Range(Actions(p))
         /\ p.entries[n].blocks = {}
         /\ \E w \in BOOLEAN : p.entries[n] = Entry(audit, p.entries[n].candidate.subject, w)
  <2> SUFFICES ASSUME NEW n \in DOMAIN p.entries
               PROVE  /\ p.entries[n].candidate.subject \in Software(audit)
                      /\ Range(p.entries[n].actions) \subseteq Range(Actions(p))
                      /\ p.entries[n].blocks = {}
                      /\ \E w \in BOOLEAN :
                            p.entries[n] = Entry(audit, p.entries[n].candidate.subject, w)
    OBVIOUS
  <2>1. PICK s \in Software(audit), w \in BOOLEAN : p.entries[n] = Entry(audit, s, w)
    OBVIOUS
  <2>2. s \in Items
    BY SoftwareIsPresent
  <2>3. p.entries[n].candidate.subject = s
    BY <2>1, <2>2, EntryIs
  <2>4. Range(p.entries[n].actions) \subseteq Range(Actions(p))
    BY ActionsAre
  <2> QED
    BY <2>1, <2>3, <2>4 DEF Ready
<1>5. Subjects(p) \subseteq Software(audit)
  BY <1>4 DEF Subjects
<1>6. Actions(p) # <<>>
  <2>1. 1 \in DOMAIN p.entries
    BY SubjectSeqIs
  <2> DEFINE s == p.entries[1].candidate.subject
  <2>2. PICK w \in BOOLEAN : p.entries[1] = Entry(audit, s, w)
    BY <1>4, <2>1
  <2>3. s \in Items /\ Blocks(audit, s, w) = {}
    <3>1. s \in Items
      BY <1>4, <2>1, SoftwareIsPresent
    <3> QED
      BY <1>4, <2>1, <2>2, <3>1, EntryIs
  <2>4. Removal(audit, s) # <<>> /\ Removal(audit, s) \in Seq(Action)
    BY <2>3, UnblockedIs, RemovalIs
  <2> DEFINE q == Removal(audit, s)
  <2>5. Range(q) \subseteq Range(Actions(p))
    <3>1. Range(q) \subseteq Range(p.entries[1].actions)
      BY <2>2, <2>3, EntryIs
    <3> QED
      BY <1>4, <2>1, <3>1
  <2> HIDE DEF q
  <2>6. q[1] \in Range(q)
    <3>1. q # <<>> /\ q \in Seq(Action)
      BY <2>4 DEF q
    <3>2. 1 \in DOMAIN q
      BY <3>1
    <3> QED
      BY <3>2 DEF Range
  <2>7. Range(<<>>) = {}
    BY DEF Range
  <2> QED
    BY <2>5, <2>6, <2>7
<1>7. ASSUME NEW n \in DOMAIN Actions(p) PROVE Prepares(Actions(p)[n], audit, audit.host)
  <2> DEFINE act == Actions(p)[n]
  <2>1. act \in Range(Actions(p))
    BY <1>7 DEF Range
  <2> HIDE DEF act
  <2>2. PICK k \in DOMAIN p.entries : act \in Range(p.entries[k].actions)
    BY <2>1, ActionsAre
  <2> DEFINE s == p.entries[k].candidate.subject
  <2>3. PICK w \in BOOLEAN : p.entries[k] = Entry(audit, s, w)
    BY <1>4
  <2>4. s \in Software(audit) /\ s \in Items
    BY <1>4, SoftwareIsPresent
  <2> HIDE DEF s
  <2>5. act \in (IF w THEN Range(StartupActions(audit, s)) ELSE {}) \cup Range(Removal(audit, s))
    BY <2>2, <2>3, <2>4, EntryIs
  <2>6. act \notin Range(StartupActions(audit, s))
    BY <1>1, <2>1, <2>4, StartupActionsAre DEF StartupKinds
  <2>7. act \in Range(Removal(audit, s))
    BY <2>5, <2>6
  <2>8. Prepares(act, audit, audit.host)
    BY <1>1, <2>1, <2>4, <2>7, CleanPrepares
  <2> QED
    BY <2>8 DEF act
<1>8. Reconstructs(p, audit, audit.host)
  BY <1>2, <1>3, <1>5, <1>6, <1>7 DEF Reconstructs, SameIdentities, StillReady
<1> QED
  BY <1>1, <1>8 DEF CanPrepare

(* And none of those reasons is against a plan that is prepared on the     *)
(* host of its audit.                                                      *)
LEMMA NothingIsAgainstPrepared ==
    ASSUME NEW p \in Document, NEW audit \in Audit, CanPrepare(p, audit, audit.host)
    PROVE  ~Against(p, audit)
<1> DEFINE kinds == Kinds(p)
           needed == {"usage", "backups"} \cup (IF "trash" \in kinds THEN {"applications"} ELSE {})
                     \cup (IF kinds \subseteq {"trash"} THEN {} ELSE {"homebrew"})
<1>1. Complete(audit, Required(p))
  BY PreparedIs
<1>2. \A act \in Range(Actions(p)) :
         act.kind \in {"trash", "uninstall_formula", "uninstall_cask"}
  <2> SUFFICES ASSUME NEW act \in Range(Actions(p))
               PROVE  act.kind \in {"trash", "uninstall_formula", "uninstall_cask"}
    OBVIOUS
  <2>1. PICK s \in Subjects(p) : act \in Range(Removal(audit, s))
    BY PreparedRemoves
  <2>2. s \in Items
    BY SubjectSeqIs
  <2> QED
    BY <2>1, <2>2, RemovalIs
<1>3. kinds \subseteq {"trash", "uninstall_formula", "uninstall_cask"}
  BY <1>2 DEF Kinds
<1>4. needed \subseteq Required(p) /\ "overlap" \in Required(p)
  BY <1>3 DEF Required
<1>5. /\ needed \cap audit.host.partial = {}
      /\ "trash" \in kinds => SeenApps(audit) \cap audit.host.faceless = {}
      /\ \A s \in Software(audit) : Role[s] # "tied"
  <2>1. "trash" \in kinds => "applications" \in needed
    OBVIOUS
  <2> HIDE DEF needed, kinds
  <2> QED
    BY <1>1, <1>4, <2>1, CompleteMeans
<1>6. ASSUME NEW act \in Range(Actions(p))
      PROVE  /\ act.kind = "uninstall_cask" => act.target \notin audit.host.risky
             /\ act.kind = "trash" => act.subject \notin audit.host.immovable \cup NestedApps
  <2>1. Prepares(act, audit, audit.host) /\ (act.kind = "trash" => act.subject \notin NestedApps)
    BY PreparedIs
  <2>2. act.kind = "trash" => act.subject \notin audit.host.immovable
    BY <2>1 DEF Prepares, StartupKinds
  <2>3. act.kind = "uninstall_cask" => act.target \notin audit.host.risky
    BY PreparedTargets
  <2> QED
    BY <2>1, <2>2, <2>3
<1>7. kinds \cap StartupKinds = {}
  BY <1>3 DEF StartupKinds
<1> QED
  BY <1>5, <1>6, <1>7 DEF Against

(* A ready plan of one or two items is prepared on the host it was made    *)
(* for exactly when none of the listed reasons speaks against it.          *)
THEOREM UntouchedPlansAreExplained == Spec => []RefusalsAreExplained
<1>1. CommandsInv => RefusalsAreExplained
  <2> DEFINE audit == [host |-> host, fault |-> NoFault]
             explained(p) ==
                (Ready(p) /\ Valid(p)) => (CanPrepare(p, audit, host) <=> ~Against(p, audit))
  <2> SUFFICES ASSUME CommandsInv, NEW s \in Software(audit), NEW t \in Software(audit),
                      NEW v \in BOOLEAN, NEW w \in BOOLEAN
               PROVE  explained(IF s = t THEN Extended(NoPlan, audit, s, v)
                                ELSE Extended(Extended(NoPlan, audit, s, v), audit, t, w))
    BY Zenon DEF RefusalsAreExplained
  <2>1. audit \in Audit /\ audit.fault = NoFault /\ audit.host = host
    BY DEF CommandsInv, CommandsTypeOK, Audit, Fault, NoFault
  <2> HIDE DEF audit
  <2>2. s \in Items /\ t \in Items
    BY <2>1, SoftwareIsPresent
  <2>3. ASSUME NEW p \in Document, p.schema = 2, p.entries # <<>>,
               \A n \in DOMAIN p.entries :
                  \E x \in Software(audit), u \in BOOLEAN : p.entries[n] = Entry(audit, x, u)
        PROVE  explained(p)
    BY <2>1, <2>3, UntouchedIsPrepared, NothingIsAgainstPrepared
  <2> HIDE DEF explained
  <2> DEFINE one == Extended(NoPlan, audit, s, v)
             first == Entry(audit, s, v)
             second == Entry(audit, t, w)
             two == Extended(one, audit, t, w)
  <2>4. one \in Document /\ one.schema = 2 /\ one.entries = <<first>>
    BY <2>1, <2>2, ExtendedIs DEF Plan
  <2>5. first \in Entries /\ second \in Entries
    BY <2>1, <2>2, EntryIs
  <2>6. two \in Document /\ two.schema = 2 /\ two.entries = Append(one.entries, second)
    <3> HIDE DEF one, first
    <3>1. one \in Plan /\ one # NoPlan
      BY <2>4, CommandConstants DEF Plan
    <3> HIDE DEF second
    <3>2. two = [one EXCEPT !.revision = @ + 1, !.entries = Append(@, second)]
      BY <2>4, <3>1, Zenon DEF Extended, second
    <3>3. Append(one.entries, second) \in Seq(Entries)
      BY <2>4, <2>5 DEF Document
    <3> HIDE DEF two
    <3>4. DOMAIN two = DOMAIN one /\ two.schema = one.schema /\ two.revision = one.revision + 1
          /\ two.entries = Append(one.entries, second)
      BY <2>4, <3>2 DEF Document
    <3>5. two = [schema |-> 2, revision |-> one.revision + 1,
                 entries |-> Append(one.entries, second)]
      BY <2>4, <3>2 DEF Document
    <3> QED
      BY <2>4, <3>3, <3>4, <3>5 DEF Document
  <2> HIDE DEF one, two
  <2>7. explained(one)
    <3> HIDE DEF first
    <3>1. one.entries # <<>> /\ \A n \in DOMAIN one.entries : one.entries[n] = first
      BY <2>4
    <3> QED
      BY <2>3, <2>4, <3>1 DEF first
  <2>8. explained(two)
    <3> HIDE DEF first, second
    <3>1. /\ <<first>> \in Seq(Entries) /\ Len(<<first>>) = 1 /\ <<first>>[1] = first
          /\ two.entries = Append(<<first>>, second)
      BY <2>4, <2>5, <2>6
    <3>2. /\ two.entries # <<>>
          /\ \A n \in DOMAIN two.entries : two.entries[n] = first \/ two.entries[n] = second
      BY <2>5, <3>1
    <3> QED
      BY <2>3, <2>6, <3>2 DEF first, second
  <2> QED
    BY <2>7, <2>8 DEF one, two
<1> QED
  BY <1>1, PlanningInvariant, PTL
=============================================================================
