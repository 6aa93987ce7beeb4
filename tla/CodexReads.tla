---------------------------- MODULE CodexReads ----------------------------
(***************************************************************************)
(* CodexReadService: the tools of the Codex server answer from one cached  *)
(* audit.  The cache is filled by the first call and replaced only by      *)
(* audit_mac with refresh; list_software pages through whatever audit is   *)
(* cached when the page is asked for.  Calls of several clients overlap:   *)
(* an RLock covers reading and replacing the cache, not the answer.        *)
(***************************************************************************)
EXTENDS CleanupPlanning

CONSTANTS
    Clients,
    Rank,         \* order of display names: [Items -> Nat]
    PageSize,
    NoSnapshot

ASSUME CodexConstants ==
    /\ PageSize \in Nat \ {0}
    /\ Rank \in [Items -> Nat] /\ IsInjective(Rank)
    /\ None \notin Clients
    /\ NoSnapshot \notin [id: Nat \ {0}, audit: Audit]

VARIABLES
    cached,       \* self._audit, or NoSnapshot
    holder,       \* the client whose call holds self._lock, or None
    call,         \* each client's call
    walk,         \* what each client has put together from its pages
    taken,        \* how many audits there have been: the id of the next
    known,        \* observed: the newest audit any answer has named
    budget        \* calls, and audits that fail or are partial

codexVars == <<cached, holder, call, walk, taken, known, budget>>

NoCall == [pc |-> "idle", op |-> "none", snap |-> NoSnapshot, since |-> 0]
NoWalk == [cursor |-> 0, items |-> <<>>, ids |-> {}, open |-> TRUE]

CodexInit(sc) ==
    /\ cached = NoSnapshot /\ holder = None /\ known = 0 /\ taken = 0
    /\ call = [x \in Clients |-> NoCall] /\ walk = [x \in Clients |-> NoWalk]
    /\ budget = sc.codex

(* A client asks to look something up, for a new audit, or for its next page. *)
Ask(x, op) ==
    /\ call[x].pc = "idle" /\ budget.calls > 0
    /\ op = "list" => walk[x].open
    /\ budget' = [budget EXCEPT !.calls = @ - 1]
    /\ call' = [call EXCEPT ![x] = [NoCall EXCEPT !.pc = "entering", !.op = op,
                                                  !.since = known]]
    /\ UNCHANGED <<cached, holder, walk, taken, known>>

(* Mutant of LockFree: the snapshot is taken without the lock. *)
NoLockNeeded(x) == TRUE
LockFree(x) == holder = None

NeedsAudit(x) == cached = NoSnapshot \/ call[x].op = "refresh"

(* _snapshot: a cached audit is returned at once. *)
UseCached(x) ==
    /\ call[x].pc = "entering" /\ LockFree(x) /\ ~NeedsAudit(x)
    /\ call' = [call EXCEPT ![x].pc = "answering", ![x].snap = cached]
    /\ UNCHANGED <<cached, holder, walk, taken, known, budget>>

StartAudit(x) ==
    /\ call[x].pc = "entering" /\ LockFree(x) /\ NeedsAudit(x)
    /\ holder' = x
    /\ call' = [call EXCEPT ![x].pc = "auditing"]
    /\ UNCHANGED <<cached, walk, taken, known, budget>>

(* The audit provider returns, or raises: then the cache is untouched. *)
Collected(x, f) ==
    /\ call[x].pc = "auditing"
    /\ IF f = NoFault THEN UNCHANGED budget
       ELSE budget.faults > 0 /\ budget' = [budget EXCEPT !.faults = @ - 1]
    /\ taken' = taken + 1
    /\ call' = [call EXCEPT ![x].pc = "storing",
                            ![x].snap = [id |-> taken + 1,
                                         audit |-> [host |-> host, fault |-> f]]]
    /\ UNCHANGED <<cached, holder, walk, known>>

AuditRaises(x) ==
    /\ call[x].pc = "auditing" /\ budget.faults > 0
    /\ budget' = [budget EXCEPT !.faults = @ - 1]
    /\ holder' = None
    /\ call' = [call EXCEPT ![x] = NoCall]
    /\ UNCHANGED <<cached, walk, taken, known>>

Store(x) ==
    /\ call[x].pc = "storing"
    /\ cached' = call[x].snap /\ holder' = None
    /\ call' = [call EXCEPT ![x].pc = "answering"]
    /\ UNCHANGED <<walk, taken, known, budget>>

----------------------------------------------------------------------------
(* list_software: the records sorted by display name. *)
Ordered(snap) ==
    LET records == Software(snap.audit)
    IN [n \in 1..Cardinality(records) |->
           CHOOSE s \in records : Cardinality({t \in records : Rank[t] < Rank[s]}) = n - 1]

Page(snap, cursor) ==
    LET all == Ordered(snap)
        last == IF cursor + PageSize < Len(all) THEN cursor + PageSize ELSE Len(all)
    IN SubSeq(all, cursor + 1, last)

(* Mutant of NextCursor: the cursor counts pages. *)
NextPage(cursor, page) == cursor + 1
NextCursor(cursor, page) == cursor + Len(page)

Answered(x) ==
    /\ known' = IF call[x].snap.id > known THEN call[x].snap.id ELSE known
    /\ call' = [call EXCEPT ![x] = NoCall]

AnswerPage(x) ==
    /\ call[x].pc = "answering" /\ call[x].op = "list"
    /\ LET snap == call[x].snap
           page == Page(snap, walk[x].cursor)
           next == NextCursor(walk[x].cursor, page)
       IN walk' = [walk EXCEPT ![x] = [cursor |-> next, items |-> @.items \o page,
                                       ids |-> @.ids \cup {snap.id},
                                       open |-> next < Len(Ordered(snap))]]
    /\ Answered(x)
    /\ UNCHANGED <<cached, holder, taken, budget>>

(* audit_mac and every tool that only looks something up; what they say of *)
(* an audit is below.                                                      *)
AnswerFacts(x) ==
    /\ call[x].pc = "answering" /\ call[x].op # "list"
    /\ Answered(x)
    /\ UNCHANGED <<cached, holder, walk, taken, budget>>

(* inspect_software: the usage finding; nothing known stays unknown. *)
UsageAnswer(audit, s) == UsageLabel(audit, s)

(* inspect_startup: the items s owns, and whether they run. *)
StartupAnswer(audit, s) ==
    {[id |-> StartupId(i), running |-> i.running] : i \in OwnedStartup(audit, s)}

(* find_overlaps among all records, or between the ones asked for. *)
OverlapAnswer(audit, asked) ==
    IF audit.fault.at = "overlap" THEN {}
    ELSE {r \in Identity(audit) \cup Catalogued(audit) : asked = {} \/ r.pair \subseteq asked}

(* get_removal_preview: add_candidate to no plan, kept nowhere. *)
Preview(audit, s, withStartup) == Extended(NoPlan, audit, s, withStartup)

CodexStep(x) ==
    \/ \E op \in {"facts", "refresh", "list"} : Ask(x, op)
    \/ UseCached(x) \/ StartAudit(x)
    \/ \E f \in FaultsHere : Collected(x, f)
    \/ AuditRaises(x) \/ Store(x)
    \/ AnswerPage(x) \/ AnswerFacts(x)

CodexNext == \E x \in Clients : CodexStep(x)

----------------------------------------------------------------------------
(* Every variable of the service keeps its type, and the lock is held      *)
(* exactly while one call collects or stores an audit.                     *)
Snapshot == [id: Nat \ {0}, audit: Audit]
CodexTypeOK ==
    /\ cached \in Snapshot \cup {NoSnapshot}
    /\ holder \in Clients \cup {None}
    /\ call \in [Clients -> [pc: {"idle", "entering", "auditing", "storing", "answering"},
                             op: {"none", "facts", "refresh", "list"},
                             snap: Snapshot \cup {NoSnapshot}, since: Nat]]
    /\ walk \in [Clients -> [cursor: Nat, items: Seq(Items), ids: SUBSET Nat, open: BOOLEAN]]
    /\ taken \in Nat /\ known \in Nat /\ budget \in [calls: Nat, faults: Nat]
    /\ \A x \in Clients : call[x].pc \in {"auditing", "storing"} <=> holder = x

(* A client that has walked to the end over pages that all name the cached *)
(* audit has every record of that audit once and in order.  So records     *)
(* lost or repeated because the cache was refreshed on the way show: the   *)
(* pages name different audits.                                            *)
OneAuditWalksAreWhole ==
    \A x \in Clients : (~walk[x].open /\ walk[x].ids = {cached.id}) =>
        walk[x].items = Ordered(cached)

(* Time does not run backwards: no answer is from an audit older than one  *)
(* that had already been given to anybody when the call was made, and a    *)
(* refresh answers from a newer one.                                       *)
AnswersAdvance ==
    \A x \in Clients : call[x].pc = "answering" =>
        /\ call[x].snap.id >= call[x].since
        /\ call[x].op = "refresh" => call[x].snap.id > call[x].since

(* The tools tell one story about an audit.  Where its collectors were     *)
(* complete, a preview that is ready for removal is of something that did  *)
(* not run and that no installed formula needed; and always inspect_startup*)
(* shows nothing of it running, and find_overlaps no tool that goes with   *)
(* it, unless something else needs that tool.                              *)
PreviewsAgree ==
    \A x \in Clients : (call[x].pc = "answering" /\ call[x].op = "facts") =>
        LET audit == call[x].snap.audit
            h == audit.host
        IN \A s \in Software(audit), withStartup \in BOOLEAN :
            Ready(Preview(audit, s, withStartup)) =>
                /\ Complete(audit, {"applications", "homebrew", "startup"}) =>
                      /\ s \notin h.running
                      /\ \A g \in Formulae \cap h.present : <<g, s>> \notin h.needs
                      /\ s \in Formulae => h.service[s] # "started"
                /\ \A i \in StartupAnswer(audit, s) : i.running # "yes"
                /\ \A r \in OverlapAnswer(audit, {}) :
                      (r.category = "together" /\ s \in r.pair) =>
                          \E t \in r.pair \ {s} : UsageAnswer(audit, t) = "indirectly_required"
=============================================================================
