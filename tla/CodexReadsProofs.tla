------------------------- MODULE CodexReadsProofs -------------------------
(***************************************************************************)
(* Proofs about CodexReads, of every behaviour of PlanningSystem: the      *)
(* server's variables keep their types, one lock orders the audits, a walk *)
(* over pages of one audit loses nothing, and the tools that look one      *)
(* thing up agree on what they say of it.                                  *)
(***************************************************************************)
EXTENDS PlanningProofs

(* The parts of two adjacent slices of a list make one slice. *)
LEMMA SlicesMeet ==
    ASSUME NEW S, NEW q \in Seq(S), NEW m \in 0..Len(q), NEW n \in m..Len(q)
    PROVE  /\ SubSeq(q, 1, m) \o SubSeq(q, m + 1, n) = SubSeq(q, 1, n)
           /\ Len(SubSeq(q, m + 1, n)) = n - m
<1>1. /\ SubSeq(q, 1, m) \in Seq(S) /\ Len(SubSeq(q, 1, m)) = m
      /\ \A i \in 1..m : SubSeq(q, 1, m)[i] = q[i]
  OBVIOUS
<1>2. /\ SubSeq(q, m + 1, n) \in Seq(S) /\ Len(SubSeq(q, m + 1, n)) = n - m
      /\ \A i \in 1..(n - m) : SubSeq(q, m + 1, n)[i] = q[m + i]
  OBVIOUS
<1>3. /\ SubSeq(q, 1, n) \in Seq(S) /\ Len(SubSeq(q, 1, n)) = n
      /\ \A i \in 1..n : SubSeq(q, 1, n)[i] = q[i]
  OBVIOUS
<1> DEFINE a == SubSeq(q, 1, m)
           b == SubSeq(q, m + 1, n)
           c == SubSeq(q, 1, n)
<1> HIDE DEF a, b, c
<1>4. /\ a \in Seq(S) /\ Len(a) = m /\ \A i \in 1..m : a[i] = q[i]
      /\ b \in Seq(S) /\ Len(b) = n - m /\ \A i \in 1..(n - m) : b[i] = q[m + i]
      /\ c \in Seq(S) /\ Len(c) = n /\ \A i \in 1..n : c[i] = q[i]
  BY <1>1, <1>2, <1>3 DEF a, b, c
<1>5. a \o b \in Seq(S) /\ Len(a \o b) = n
  BY <1>4
<1>6. ASSUME NEW i \in 1..n PROVE (a \o b)[i] = c[i]
  <2>0. /\ i \in Nat /\ m \in Nat /\ n \in Nat /\ m <= n /\ i <= n /\ 1 <= i
        /\ i \in 1..(Len(a) + Len(b))
    BY <1>4
  <2>1. CASE i <= m
    BY <1>4, <2>0, <2>1
  <2>2. CASE ~(i <= m)
    <3>0. i - m \in 1..(n - m)
      BY <2>0, <2>2
    <3>1. (a \o b)[i] = b[i - m] /\ i - m \in 1..(n - m)
      BY <1>4, <2>0, <2>2, <3>0
    <3>2. b[i - m] = q[m + (i - m)]
      BY <1>4, <3>1
    <3> QED
      BY <1>4, <3>1, <3>2
  <2> QED
    BY <2>1, <2>2
<1>7. a \o b = c
  BY <1>4, <1>5, <1>6, SeqEqual
<1> QED
  BY <1>2, <1>7 DEF a, b, c

(* list_software sorts: every record once, by rank. *)
LEMMA OrderedIs ==
    ASSUME NEW snap \in Snapshot
    PROVE  /\ Ordered(snap) \in Seq(Items) /\ Len(Ordered(snap)) \in Nat
           /\ Range(Ordered(snap)) = Software(snap.audit)
           /\ Len(Ordered(snap)) = Cardinality(Software(snap.audit))
           /\ \A m, n \in 1..Len(Ordered(snap)) :
                 m < n => Rank[Ordered(snap)[m]] < Rank[Ordered(snap)[n]]
<1> DEFINE R == Software(snap.audit)
<1>1. R \subseteq Items /\ IsFiniteSet(R)
  <2>1. R \subseteq Items
    BY SoftwareIsPresent DEF Snapshot
  <2> QED
    BY <2>1, AuditConstants, FS_Subset
<1>2. Ordered(snap) = SortedBy(R, Rank)
  BY DEF Ordered, SortedBy
<1> HIDE DEF R
<1>3. /\ \A s \in R : Rank[s] \in Nat
      /\ \A s, t \in R : Rank[s] = Rank[t] => s = t
  BY <1>1, CodexConstants DEF IsInjective
<1>4. /\ SortedBy(R, Rank) \in Seq(R) /\ Cardinality(R) \in Nat
      /\ Len(SortedBy(R, Rank)) = Cardinality(R)
      /\ Range(SortedBy(R, Rank)) = R
      /\ \A m, n \in 1..Cardinality(R) :
            m < n => Rank[SortedBy(R, Rank)[m]] < Rank[SortedBy(R, Rank)[n]]
  BY <1>1, <1>3, SortedByLists
<1> DEFINE q == SortedBy(R, Rank)
<1> HIDE DEF q
<1>5. /\ q \in Seq(R) /\ Cardinality(R) \in Nat /\ Len(q) = Cardinality(R) /\ Range(q) = R
      /\ \A m, n \in 1..Cardinality(R) : m < n => Rank[q[m]] < Rank[q[n]]
      /\ Ordered(snap) = q
  BY <1>2, <1>4 DEF q
<1>6. q \in Seq(Items)
  BY <1>1, <1>5
<1> QED
  BY <1>5, <1>6 DEF R

(* A page continues the list where the cursor stands, and the next cursor  *)
(* stands where the page ends.                                             *)
LEMMA PageIs ==
    ASSUME NEW snap \in Snapshot, NEW cursor \in Nat
    PROVE  /\ Page(snap, cursor) \in Seq(Items)
           /\ NextCursor(cursor, Page(snap, cursor)) \in Nat
           /\ cursor <= Len(Ordered(snap)) =>
                 /\ NextCursor(cursor, Page(snap, cursor)) <= Len(Ordered(snap))
                 /\ SubSeq(Ordered(snap), 1, cursor) \o Page(snap, cursor)
                       = SubSeq(Ordered(snap), 1, NextCursor(cursor, Page(snap, cursor)))
<1> DEFINE all == Ordered(snap)
           last == IF cursor + PageSize < Len(all) THEN cursor + PageSize ELSE Len(all)
<1>1. all \in Seq(Items) /\ Len(all) \in Nat /\ PageSize \in Nat
  BY OrderedIs, CodexConstants
<1>2. Page(snap, cursor) = SubSeq(all, cursor + 1, last)
  BY DEF Page
<1> HIDE DEF all
<1>3. last \in 0..Len(all) /\ (cursor <= Len(all) => cursor <= last)
  BY <1>1
<1> HIDE DEF last
<1>4. SubSeq(all, cursor + 1, last) \in Seq(Items)
  BY <1>1, <1>3
<1>5. NextCursor(cursor, Page(snap, cursor)) \in Nat
  BY <1>2, <1>4 DEF NextCursor
<1>6. ASSUME cursor <= Len(all)
      PROVE  /\ NextCursor(cursor, Page(snap, cursor)) = last
             /\ SubSeq(all, 1, cursor) \o Page(snap, cursor) = SubSeq(all, 1, last)
  <2>1. cursor \in 0..Len(all) /\ last \in cursor..Len(all)
    BY <1>1, <1>3, <1>6
  <2>2. /\ SubSeq(all, 1, cursor) \o SubSeq(all, cursor + 1, last) = SubSeq(all, 1, last)
        /\ Len(SubSeq(all, cursor + 1, last)) = last - cursor
    BY <1>1, <2>1, SlicesMeet
  <2>3. cursor + (last - cursor) = last
    BY <2>1
  <2> QED
    BY <1>2, <2>2, <2>3 DEF NextCursor
<1> QED
  BY <1>1, <1>2, <1>3, <1>4, <1>5, <1>6 DEF all

----------------------------------------------------------------------------
(* The inductive invariant.                                                *)

CallState == [pc: {"idle", "entering", "auditing", "storing", "answering"},
              op: {"none", "facts", "refresh", "list"},
              snap: Snapshot \cup {NoSnapshot}, since: Nat]
WalkState == [cursor: Nat, items: Seq(Items), ids: SUBSET Nat, open: BOOLEAN]

(* The id of a cached audit; 0 is before all of them. *)
IdOf(snap) == IF snap = NoSnapshot THEN 0 ELSE snap.id

(* CodexTypeOK without the walks. *)
CallTypes ==
    /\ cached \in Snapshot \cup {NoSnapshot}
    /\ holder \in Clients \cup {None}
    /\ call \in [Clients -> CallState]
    /\ taken \in Nat /\ known \in Nat /\ budget \in [calls: Nat, faults: Nat]
    /\ \A x \in Clients : call[x].pc \in {"auditing", "storing"} <=> holder = x

(* A call, when `top` is the newest audit answered, `last` the number of   *)
(* audits and `snap` is cached: an audit about to be stored is the newest  *)
(* of all; one that is being answered from is the cached or an older one.  *)
CallOK(m, top, last, snap) ==
    /\ m.since <= top
    /\ m.pc = "storing" => m.snap \in Snapshot /\ m.snap.id = last /\ IdOf(snap) < last
    /\ m.pc = "answering" =>
          /\ m.snap \in Snapshot /\ snap # NoSnapshot
          /\ m.snap.id <= IdOf(snap) /\ (m.snap.id = IdOf(snap) => m.snap = snap)
          /\ m.since <= m.snap.id /\ (m.op = "refresh" => m.since < m.snap.id)

CallsInv ==
    /\ CallTypes
    /\ known <= IdOf(cached) /\ IdOf(cached) <= taken
    /\ \A x \in Clients : CallOK(call[x], known, taken, cached)

(* A walk, when `snap` is cached, names audits that have been cached; over *)
(* pages of that one alone it has the list up to its cursor.               *)
WalkOK(w, snap) ==
    /\ w.ids \subseteq 1..IdOf(snap)
    /\ w.ids = {} => w.cursor = 0 /\ w.items = <<>> /\ w.open
    /\ w.ids = {IdOf(snap)} =>
          /\ w.cursor <= Len(Ordered(snap))
          /\ w.items = SubSeq(Ordered(snap), 1, w.cursor)
          /\ w.open = (w.cursor < Len(Ordered(snap)))

WalksInv ==
    /\ walk \in [Clients -> WalkState]
    /\ \A x \in Clients : WalkOK(walk[x], cached)

CodexInv == CallsInv /\ WalksInv

(* Nothing has been asked and nothing cached. *)
LEMMA CodexStart ==
    ASSUME Init
    PROVE  CodexInv
<1>1. PICK sc \in Scenarios : CodexInit(sc)
  BY DEF Init
<1>2. NoCall \in CallState /\ NoCall.pc = "idle" /\ NoCall.since = 0
  BY DEF NoCall, CallState
<1>3. NoWalk \in WalkState
  BY DEF NoWalk, WalkState
<1>4. /\ cached = NoSnapshot /\ holder = None /\ known = 0 /\ taken = 0
      /\ budget \in [calls: Nat, faults: Nat]
      /\ call \in [Clients -> CallState] /\ \A x \in Clients : call[x] = NoCall
      /\ walk \in [Clients -> WalkState] /\ \A x \in Clients : walk[x] = NoWalk
  BY <1>1, <1>2, <1>3, ScenarioConstants DEF CodexInit
<1>5. CallTypes
  BY <1>2, <1>4, CodexConstants DEF CallTypes
<1>6. IdOf(cached) = 0
  BY <1>4 DEF IdOf
<1>7. \A x \in Clients : CallOK(call[x], known, taken, cached)
  BY <1>2, <1>4, <1>6 DEF CallOK
<1>8. \A x \in Clients : WalkOK(walk[x], cached)
  <2>1. /\ NoWalk.ids = {} /\ NoWalk.cursor = 0 /\ NoWalk.items = <<>> /\ NoWalk.open
        /\ NoWalk.ids # {0}
    BY DEF NoWalk
  <2>2. WalkOK(NoWalk, cached)
    BY <1>6, <2>1 DEF WalkOK
  <2> QED
    BY <1>4, <2>2
<1> QED
  BY <1>4, <1>5, <1>6, <1>7, <1>8 DEF CodexInv, CallsInv, WalksInv

(* A step of one call, after which it has locals m, that leaves the cache  *)
(* alone: an audit is taken only by the holder of the lock.                *)
CallMoves(x, m) ==
    /\ call' = [call EXCEPT ![x] = m] /\ cached' = cached
    /\ holder' \in Clients \cup {None}
    /\ \A y \in Clients : y # x => (holder' = y <=> holder = y)
    /\ m.pc \in {"auditing", "storing"} <=> holder' = x
    /\ taken' \in Nat /\ taken <= taken' /\ (taken' = taken \/ holder = x)
    /\ known' \in Nat /\ known <= known' /\ known' <= IdOf(cached)
    /\ budget' \in [calls: Nat, faults: Nat]
    /\ CallOK(m, known', taken', cached')

(* Such a step keeps what is known of the calls. *)
LEMMA OneCallMoves ==
    ASSUME CallsInv, NEW x \in Clients, NEW m \in CallState, CallMoves(x, m)
    PROVE  CallsInv'
<1>0. /\ call' = [call EXCEPT ![x] = m] /\ cached' = cached
      /\ holder' \in Clients \cup {None}
      /\ \A y \in Clients : y # x => (holder' = y <=> holder = y)
      /\ m.pc \in {"auditing", "storing"} <=> holder' = x
      /\ taken' \in Nat /\ taken <= taken' /\ (taken' = taken \/ holder = x)
      /\ known' \in Nat /\ known <= known' /\ known' <= IdOf(cached)
      /\ budget' \in [calls: Nat, faults: Nat]
      /\ CallOK(m, known', taken', cached')
  BY DEF CallMoves
<1>1. IdOf(cached') = IdOf(cached) /\ IdOf(cached) \in Nat /\ IdOf(cached) <= taken /\ taken \in Nat
  BY <1>0 DEF IdOf, CallsInv, CallTypes, Snapshot
<1>2. \A y \in Clients : call'[y] = IF y = x THEN m ELSE call[y]
  BY <1>0 DEF CallsInv, CallTypes
<1>3. CallTypes'
  <2>1. call' \in [Clients -> CallState]
    BY <1>0 DEF CallsInv, CallTypes
  <2>2. \A y \in Clients : call'[y].pc \in {"auditing", "storing"} <=> holder' = y
    BY <1>0, <1>2 DEF CallsInv, CallTypes
  <2> QED
    BY <1>0, <2>1, <2>2 DEF CallsInv, CallTypes
<1>4. ASSUME NEW y \in Clients PROVE CallOK(call'[y], known', taken', cached')
  <2>1. CASE y = x
    BY <1>0, <1>2, <2>1
  <2>2. CASE y # x
    <3> DEFINE n == call[y]
    <3>1. call'[y] = n /\ CallOK(n, known, taken, cached)
      BY <1>2, <2>2 DEF CallsInv
    <3>2. n \in CallState /\ known \in Nat
      BY DEF CallsInv, CallTypes
    <3>3. n.pc = "storing" => taken' = taken
      BY <1>0, <2>2 DEF CallsInv, CallTypes
    <3> HIDE DEF n
    <3>4. n.since <= known'
      BY <1>0, <3>1, <3>2 DEF CallOK, CallState
    <3>5. n.pc = "storing" => n.snap \in Snapshot /\ n.snap.id = taken' /\ IdOf(cached') < taken'
      BY <1>1, <3>1, <3>3 DEF CallOK
    <3>6. n.pc = "answering" =>
             /\ n.snap \in Snapshot /\ cached' # NoSnapshot
             /\ n.snap.id <= IdOf(cached') /\ (n.snap.id = IdOf(cached') => n.snap = cached')
             /\ n.since <= n.snap.id /\ (n.op = "refresh" => n.since < n.snap.id)
      BY <1>0, <1>1, <3>1 DEF CallOK
    <3> QED
      BY <3>1, <3>4, <3>5, <3>6 DEF CallOK, Snapshot
  <2> QED
    BY <2>1, <2>2
<1> QED
  BY <1>0, <1>1, <1>3, <1>4 DEF CallsInv

(* With the cache and the walks as they were, walks stay whole. *)
LEMMA WalksStay ==
    ASSUME WalksInv, cached' = cached, walk' = walk
    PROVE  WalksInv'
  BY DEF WalksInv

(* What is asked for when nothing runs. *)
LEMMA AskKeeps ==
    ASSUME CodexInv, NEW x \in Clients, NEW op \in {"facts", "refresh", "list"}, Ask(x, op)
    PROVE  CodexInv'
<1> DEFINE m == [NoCall EXCEPT !.pc = "entering", !.op = op, !.since = known]
<1>1. known \in Nat /\ budget \in [calls: Nat, faults: Nat] /\ known <= IdOf(cached)
  BY DEF CodexInv, CallsInv, CallTypes
<1>2. m \in CallState /\ m.pc = "entering" /\ m.since = known
  BY <1>1 DEF CallState, NoCall
<1>3. /\ call' = [call EXCEPT ![x] = m] /\ cached' = cached /\ holder' = holder
      /\ walk' = walk /\ taken' = taken /\ known' = known /\ call[x].pc = "idle"
  BY DEF Ask
<1>4. budget' \in [calls: Nat, faults: Nat]
  BY <1>1 DEF Ask
<1> HIDE DEF m
<1>5. CallOK(m, known', taken', cached')
  BY <1>1, <1>2, <1>3 DEF CallOK
<1>6. /\ holder \in Clients \cup {None} /\ taken \in Nat
      /\ call[x].pc \in {"auditing", "storing"} <=> holder = x
  BY DEF CodexInv, CallsInv, CallTypes
<1>7. CallMoves(x, m)
  BY <1>1, <1>2, <1>3, <1>4, <1>5, <1>6 DEF CallMoves
<1>8. CallsInv'
  BY <1>2, <1>7, OneCallMoves DEF CodexInv
<1> QED
  BY <1>3, <1>8, WalksStay DEF CodexInv

(* What is cached when a call comes in is no older than anything answered. *)
LEMMA UseCachedKeeps ==
    ASSUME CodexInv, NEW x \in Clients, UseCached(x)
    PROVE  CodexInv'
<1> DEFINE old == call[x]
           m == [old EXCEPT !.pc = "answering", !.snap = cached]
<1>1. /\ known \in Nat /\ known <= IdOf(cached) /\ taken \in Nat
      /\ cached \in Snapshot \cup {NoSnapshot} /\ old \in CallState
      /\ CallOK(old, known, taken, cached)
      /\ holder \in Clients \cup {None} /\ budget \in [calls: Nat, faults: Nat]
      /\ call \in [Clients -> CallState]
      /\ \A y \in Clients : call[y].pc \in {"auditing", "storing"} <=> holder = y
  BY DEF CodexInv, CallsInv, CallTypes
<1>2. /\ cached # NoSnapshot /\ old.op # "refresh" /\ old.pc = "entering"
      /\ cached' = cached /\ holder' = holder /\ walk' = walk /\ taken' = taken
      /\ known' = known /\ budget' = budget
  BY DEF UseCached, NeedsAudit
<1>3. call' = [call EXCEPT ![x] = m]
  BY <1>1 DEF UseCached
<1>4. holder # x
  BY <1>1, <1>2
<1> HIDE DEF old
<1>5. /\ m \in CallState /\ m.pc = "answering" /\ m.snap = cached /\ m.since = old.since
      /\ m.op = old.op
  BY <1>1 DEF CallState
<1> HIDE DEF m
<1>6. IdOf(cached) = cached.id /\ IdOf(cached') = IdOf(cached) /\ cached \in Snapshot
  BY <1>1, <1>2 DEF IdOf
<1>7. old.since <= known /\ old.since \in Nat /\ cached.id \in Nat
  BY <1>1, <1>6 DEF CallOK, CallState, Snapshot
<1>8. CallOK(m, known', taken', cached')
  BY <1>1, <1>2, <1>5, <1>6, <1>7 DEF CallOK, Snapshot
<1>9. CallMoves(x, m)
  BY <1>1, <1>2, <1>3, <1>4, <1>5, <1>8 DEF CallMoves
<1>10. CallsInv'
  BY <1>5, <1>9, OneCallMoves DEF CodexInv
<1> QED
  BY <1>2, <1>10, WalksStay DEF CodexInv

(* The lock is taken only where nobody holds it. *)
LEMMA StartAuditKeeps ==
    ASSUME CodexInv, NEW x \in Clients, StartAudit(x)
    PROVE  CodexInv'
<1> DEFINE old == call[x]
           m == [old EXCEPT !.pc = "auditing"]
<1>1. /\ known \in Nat /\ known <= IdOf(cached) /\ taken \in Nat
      /\ old \in CallState /\ CallOK(old, known, taken, cached)
      /\ budget \in [calls: Nat, faults: Nat]
  BY DEF CodexInv, CallsInv, CallTypes
<1>2. /\ holder = None /\ holder' = x /\ cached' = cached /\ walk' = walk /\ taken' = taken
      /\ known' = known /\ budget' = budget
  BY DEF StartAudit, LockFree
<1>3. call' = [call EXCEPT ![x] = m]
  BY DEF StartAudit
<1> HIDE DEF old
<1>4. m \in CallState /\ m.pc = "auditing" /\ m.since = old.since
  BY <1>1 DEF CallState
<1> HIDE DEF m
<1>5. CallOK(m, known', taken', cached')
  BY <1>1, <1>2, <1>4 DEF CallOK
<1>6. \A y \in Clients : y # x => (holder' = y <=> holder = y)
  BY <1>2, CodexConstants
<1>7. CallMoves(x, m)
  BY <1>1, <1>2, <1>3, <1>4, <1>5, <1>6 DEF CallMoves
<1>8. CallsInv'
  BY <1>4, <1>7, OneCallMoves DEF CodexInv
<1> QED
  BY <1>2, <1>8, WalksStay DEF CodexInv

(* A new audit is newer than the cached one. *)
LEMMA CollectedKeeps ==
    ASSUME CommandsInv, CodexInv, NEW x \in Clients, NEW f \in FaultsHere, Collected(x, f)
    PROVE  CodexInv'
<1> DEFINE old == call[x]
           s == [id |-> taken + 1, audit |-> [host |-> host, fault |-> f]]
           m == [old EXCEPT !.pc = "storing", !.snap = s]
<1>1. /\ known \in Nat /\ known <= IdOf(cached) /\ taken \in Nat /\ IdOf(cached) <= taken
      /\ old \in CallState /\ CallOK(old, known, taken, cached) /\ call \in [Clients -> CallState]
      /\ budget \in [calls: Nat, faults: Nat]
      /\ old.pc \in {"auditing", "storing"} <=> holder = x
  BY DEF CodexInv, CallsInv, CallTypes
<1>2. /\ holder' = holder /\ cached' = cached /\ walk' = walk /\ taken' = taken + 1
      /\ known' = known /\ old.pc = "auditing"
  BY DEF Collected
<1>3. budget' \in [calls: Nat, faults: Nat]
  BY <1>1 DEF Collected
<1>4. call' = [call EXCEPT ![x] = m]
  <2>1. call' = [call EXCEPT ![x].pc = "storing", ![x].snap = s]
    BY DEF Collected
  <2> HIDE DEF s
  <2> QED
    BY <1>1, <2>1
<1>5. s \in Snapshot /\ s.id = taken + 1
  <2>1. [host |-> host, fault |-> f] \in Audit
    BY AuditNow DEF CommandsInv, CommandsTypeOK
  <2> QED
    BY <1>1, <2>1 DEF Snapshot
<1> HIDE DEF s
<1>6. old.since \in Nat
  BY <1>1 DEF CallState
<1> HIDE DEF old
<1>7. m \in CallState /\ m.pc = "storing" /\ m.since = old.since /\ m.snap = s
  BY <1>1, <1>5 DEF CallState
<1> HIDE DEF m
<1>8. IdOf(cached') = IdOf(cached) /\ IdOf(cached) \in Nat
  BY <1>2 DEF IdOf, CodexInv, CallsInv, CallTypes, Snapshot
<1>9. CallOK(m, known', taken', cached')
  BY <1>1, <1>2, <1>5, <1>7, <1>8 DEF CallOK
<1>10. holder = x /\ holder \in Clients \cup {None}
  BY <1>1, <1>2
<1>11. CallMoves(x, m)
  BY <1>1, <1>2, <1>3, <1>4, <1>7, <1>9, <1>10 DEF CallMoves
<1>12. CallsInv'
  BY <1>7, <1>11, OneCallMoves DEF CodexInv
<1> QED
  BY <1>2, <1>12, WalksStay DEF CodexInv

(* A failed audit gives the lock back. *)
LEMMA AuditRaisesKeeps ==
    ASSUME CodexInv, NEW x \in Clients, AuditRaises(x)
    PROVE  CodexInv'
<1>1. /\ known \in Nat /\ known <= IdOf(cached) /\ taken \in Nat
      /\ budget \in [calls: Nat, faults: Nat]
      /\ call[x].pc \in {"auditing", "storing"} <=> holder = x
  BY DEF CodexInv, CallsInv, CallTypes
<1>2. /\ holder' = None /\ cached' = cached /\ walk' = walk /\ taken' = taken
      /\ known' = known /\ call' = [call EXCEPT ![x] = NoCall] /\ call[x].pc = "auditing"
  BY DEF AuditRaises
<1>3. budget' \in [calls: Nat, faults: Nat]
  BY <1>1 DEF AuditRaises
<1>4. NoCall \in CallState /\ NoCall.pc = "idle" /\ NoCall.since = 0
  BY DEF CallState, NoCall
<1>5. CallOK(NoCall, known', taken', cached')
  BY <1>1, <1>2, <1>4 DEF CallOK
<1>6. \A y \in Clients : y # x => (holder' = y <=> holder = y)
  BY <1>1, <1>2, CodexConstants
<1>7. holder' # x
  BY <1>2, CodexConstants
<1>8. CallMoves(x, NoCall)
  BY <1>1, <1>2, <1>3, <1>4, <1>5, <1>6, <1>7 DEF CallMoves
<1>9. CallsInv'
  BY <1>4, <1>8, OneCallMoves DEF CodexInv
<1> QED
  BY <1>2, <1>9, WalksStay DEF CodexInv

(* Storing makes the newest audit the cached one; what others still answer *)
(* from is older, and no walk has named it yet.                            *)
LEMMA StoreKeeps ==
    ASSUME CodexInv, NEW x \in Clients, Store(x)
    PROVE  CodexInv'
<1> DEFINE old == call[x]
           s == old.snap
           m == [old EXCEPT !.pc = "answering"]
<1>1. /\ known \in Nat /\ known <= IdOf(cached) /\ taken \in Nat /\ IdOf(cached) <= taken
      /\ old \in CallState /\ CallOK(old, known, taken, cached)
      /\ call \in [Clients -> CallState]
      /\ budget \in [calls: Nat, faults: Nat]
      /\ \A y \in Clients : call[y].pc \in {"auditing", "storing"} <=> holder = y
  BY DEF CodexInv, CallsInv, CallTypes
<1>2. /\ holder' = None /\ cached' = s /\ walk' = walk /\ taken' = taken
      /\ known' = known /\ budget' = budget /\ old.pc = "storing"
      /\ call' = [call EXCEPT ![x] = m]
  BY DEF Store
<1>3. s \in Snapshot /\ s.id = taken /\ IdOf(cached) < taken /\ IdOf(cached) \in Nat
  <2>1. IdOf(cached) \in Nat
    BY DEF IdOf, CodexInv, CallsInv, CallTypes, Snapshot
  <2> QED
    BY <1>1, <1>2, <2>1 DEF CallOK
<1>4. s # NoSnapshot /\ IdOf(s) = taken
  BY <1>3, CodexConstants DEF IdOf, Snapshot
<1>5. old.since \in Nat /\ old.since <= known
  BY <1>1 DEF CallState, CallOK
<1>6. m \in CallState /\ m.pc = "answering" /\ m.since = old.since /\ m.snap = s
  BY <1>1 DEF CallState
<1>7. \A y \in Clients : call'[y] = IF y = x THEN m ELSE call[y]
  BY <1>1, <1>2
<1> HIDE DEF m
<1>8. ASSUME NEW y \in Clients PROVE CallOK(call'[y], known, taken, s)
  <2>1. CASE y = x
    <3>1. m.since < taken
      BY <1>1, <1>3, <1>5, <1>6
    <3>2. CallOK(m, known, taken, s)
      BY <1>1, <1>3, <1>4, <1>5, <1>6, <3>1 DEF CallOK
    <3> QED
      BY <1>7, <2>1, <3>2
  <2>2. CASE y # x
    <3> DEFINE n == call[y]
    <3>1. n \in CallState /\ CallOK(n, known, taken, cached) /\ n.pc # "storing"
      BY <1>1, <1>2, <2>2 DEF CodexInv, CallsInv
    <3> HIDE DEF n
    <3>2. n.pc = "answering" => n.snap.id \in Nat /\ n.snap.id < taken
      BY <1>1, <1>3, <3>1 DEF CallOK, Snapshot
    <3>3. CallOK(n, known, taken, s)
      BY <1>1, <1>4, <3>1, <3>2 DEF CallOK
    <3> QED
      BY <1>7, <2>2, <3>3 DEF n
  <2> QED
    BY <2>1, <2>2
<1>9. CallTypes'
  <2>1. call' \in [Clients -> CallState]
    BY <1>1, <1>2, <1>6
  <2>2. \A y \in Clients : call'[y].pc \in {"auditing", "storing"} <=> holder' = y
    <3> TAKE y \in Clients
    <3>1. holder' # y
      BY <1>2, CodexConstants
    <3>2. CASE y = x
      BY <1>6, <1>7, <3>1, <3>2
    <3>3. CASE y # x
      BY <1>1, <1>2, <1>7, <3>1, <3>3
    <3> QED
      BY <3>2, <3>3
  <2> QED
    BY <1>1, <1>2, <1>3, <2>1, <2>2 DEF CallTypes
<1>10. CallsInv'
  <2>1. known <= taken /\ taken <= taken
    BY <1>1, <1>3
  <2> QED
    BY <1>2, <1>4, <1>8, <1>9, <2>1 DEF CallsInv
<1>11. ASSUME NEW y \in Clients PROVE WalkOK(walk[y], s)
  <2> DEFINE w == walk[y]
  <2>1. WalkOK(w, cached)
    BY DEF CodexInv, WalksInv
  <2> HIDE DEF w
  <2>2. w.ids \subseteq 1..IdOf(cached)
    BY <2>1 DEF WalkOK
  <2>3. w.ids \subseteq 1..IdOf(s) /\ IdOf(s) \notin w.ids
    BY <1>1, <1>3, <1>4, <2>2
  <2>4. WalkOK(w, s)
    BY <2>1, <2>3 DEF WalkOK
  <2> QED
    BY <2>4 DEF w
<1>12. WalksInv'
  BY <1>2, <1>11 DEF CodexInv, WalksInv
<1> QED
  BY <1>10, <1>12 DEF CodexInv

(* An answer is remembered as the newest if it is; the call is over. *)
LEMMA AnsweredKeeps ==
    ASSUME CallsInv, NEW x \in Clients, call[x].pc = "answering", Answered(x),
           UNCHANGED <<cached, holder, taken, budget>>
    PROVE  CallsInv'
<1> DEFINE s == call[x].snap
<1>1. /\ known \in Nat /\ known <= IdOf(cached) /\ taken \in Nat
      /\ budget \in [calls: Nat, faults: Nat] /\ holder \in Clients \cup {None}
      /\ holder # x
  BY DEF CallsInv, CallTypes
<1>2. s \in Snapshot /\ s.id <= IdOf(cached) /\ s.id \in Nat
  BY DEF CallsInv, CallOK, Snapshot
<1>3. known' = (IF s.id > known THEN s.id ELSE known) /\ call' = [call EXCEPT ![x] = NoCall]
  BY DEF Answered
<1> HIDE DEF s
<1>4. known' \in Nat /\ known <= known' /\ known' <= IdOf(cached)
  BY <1>1, <1>2, <1>3
<1>5. NoCall \in CallState /\ NoCall.pc = "idle" /\ NoCall.since = 0
  BY DEF CallState, NoCall
<1>6. CallOK(NoCall, known', taken', cached')
  BY <1>4, <1>5 DEF CallOK
<1>7. CallMoves(x, NoCall)
  BY <1>1, <1>3, <1>4, <1>5, <1>6 DEF CallMoves
<1> QED
  BY <1>5, <1>7, OneCallMoves

(* An answer about one thing leaves the walks alone. *)
LEMMA AnswerFactsKeeps ==
    ASSUME CodexInv, NEW x \in Clients, AnswerFacts(x)
    PROVE  CodexInv'
<1>1. call[x].pc = "answering" /\ Answered(x) /\ UNCHANGED <<cached, holder, walk, taken, budget>>
  BY DEF AnswerFacts
<1> QED
  BY <1>1, AnsweredKeeps, WalksStay DEF CodexInv

(* A page from the cached audit continues a walk over that audit; a page   *)
(* from an older one makes it a walk over that one, or over several.       *)
LEMMA AnswerPageKeeps ==
    ASSUME CodexInv, NEW x \in Clients, AnswerPage(x)
    PROVE  CodexInv'
<1> DEFINE s == call[x].snap
           w == walk[x]
           page == Page(s, w.cursor)
           next == NextCursor(w.cursor, page)
           v == [cursor |-> next, items |-> w.items \o page, ids |-> w.ids \cup {s.id},
                 open |-> next < Len(Ordered(s))]
<1>1. /\ call[x].pc = "answering" /\ Answered(x)
      /\ UNCHANGED <<cached, holder, taken, budget>> /\ walk' = [walk EXCEPT ![x] = v]
  BY DEF AnswerPage
<1>2. CallsInv'
  BY <1>1, AnsweredKeeps DEF CodexInv
<1>3. /\ s \in Snapshot /\ cached # NoSnapshot /\ s.id <= IdOf(cached)
      /\ s.id = IdOf(cached) => s = cached
  BY <1>1 DEF CodexInv, CallsInv, CallOK
<1>4. /\ s.id \in Nat \ {0} /\ IdOf(cached) \in Nat
      /\ cached \in Snapshot
  BY <1>3 DEF IdOf, CodexInv, CallsInv, CallTypes, Snapshot
<1>5. w \in WalkState /\ WalkOK(w, cached)
  BY DEF CodexInv, WalksInv
<1>6. /\ page \in Seq(Items) /\ next \in Nat
      /\ w.cursor <= Len(Ordered(s)) =>
            /\ next <= Len(Ordered(s))
            /\ SubSeq(Ordered(s), 1, w.cursor) \o page = SubSeq(Ordered(s), 1, next)
  <2>1. w.cursor \in Nat
    BY <1>5 DEF WalkState
  <2> QED
    BY <1>3, <2>1, PageIs
<1>7. Ordered(s) \in Seq(Items) /\ Len(Ordered(s)) \in Nat
  BY <1>3, OrderedIs
<1> HIDE DEF page, next, s, w
<1>8. v \in WalkState
  <2>1. w.items \o page \in Seq(Items)
    BY <1>5, <1>6 DEF WalkState
  <2>2. w.ids \cup {s.id} \in SUBSET Nat
    BY <1>4, <1>5 DEF WalkState
  <2> QED
    BY <1>6, <1>7, <2>1, <2>2 DEF WalkState
<1>9. WalkOK(v, cached)
  <2>1. v.ids \subseteq 1..IdOf(cached) /\ v.ids # {}
    BY <1>3, <1>4, <1>5 DEF WalkOK
  <2>2. ASSUME v.ids = {IdOf(cached)}
        PROVE  /\ next <= Len(Ordered(cached))
               /\ w.items \o page = SubSeq(Ordered(cached), 1, next)
               /\ v.open = (next < Len(Ordered(cached)))
    <3>1. s.id = IdOf(cached) /\ (w.ids = {} \/ w.ids = {IdOf(cached)})
      BY <2>2
    <3>2. s = cached
      BY <1>3, <3>1
    <3>3. w.cursor <= Len(Ordered(s)) /\ w.items = SubSeq(Ordered(s), 1, w.cursor)
      <4>1. CASE w.ids = {}
        <5>1. w.cursor = 0 /\ w.items = <<>>
          BY <1>5, <4>1 DEF WalkOK
        <5>2. SubSeq(Ordered(s), 1, 0) = <<>>
          BY <1>7
        <5> QED
          BY <1>7, <5>1, <5>2
      <4>2. CASE w.ids = {IdOf(cached)}
        BY <1>5, <3>2, <4>2 DEF WalkOK
      <4> QED
        BY <3>1, <4>1, <4>2
    <3> QED
      BY <1>6, <3>2, <3>3
  <2>3. v.cursor = next /\ v.items = w.items \o page
    OBVIOUS
  <2> HIDE DEF v
  <2> QED
    BY <2>1, <2>2, <2>3 DEF WalkOK
<1>10. WalksInv'
  <2>1. walk' \in [Clients -> WalkState]
    BY <1>1, <1>8 DEF CodexInv, WalksInv
  <2>2. \A y \in Clients : walk'[y] = IF y = x THEN v ELSE walk[y]
    BY <1>1 DEF CodexInv, WalksInv
  <2> HIDE DEF v
  <2>3. \A y \in Clients : WalkOK(walk'[y], cached)
    BY <1>9, <2>2 DEF CodexInv, WalksInv
  <2> QED
    BY <1>1, <2>1, <2>3 DEF WalksInv
<1> QED
  BY <1>2, <1>10 DEF CodexInv

(* Every step, the commands' among them, keeps the invariant. *)
LEMMA CodexInvStep ==
    ASSUME CommandsInv, CodexInv, [Next]_<<host, cliVars, codexVars>>
    PROVE  CodexInv'
<1>1. CASE CodexNext
  <2>1. PICK x \in Clients : CodexStep(x)
    BY <1>1 DEF CodexNext
  <2>2. CASE \E op \in {"facts", "refresh", "list"} : Ask(x, op)
    BY <2>2, AskKeeps
  <2>3. CASE UseCached(x)
    BY <2>3, UseCachedKeeps
  <2>4. CASE StartAudit(x)
    BY <2>4, StartAuditKeeps
  <2>5. CASE \E f \in FaultsHere : Collected(x, f)
    BY <2>5, CollectedKeeps
  <2>6. CASE AuditRaises(x)
    BY <2>6, AuditRaisesKeeps
  <2>7. CASE Store(x)
    BY <2>7, StoreKeeps
  <2>8. CASE AnswerPage(x)
    BY <2>8, AnswerPageKeeps
  <2>9. CASE AnswerFacts(x)
    BY <2>9, AnswerFactsKeeps
  <2> QED
    BY <2>1, <2>2, <2>3, <2>4, <2>5, <2>6, <2>7, <2>8, <2>9 DEF CodexStep
<1>2. CASE UNCHANGED codexVars
  <2>1. cached' = cached /\ walk' = walk
    BY <1>2 DEF codexVars
  <2>2. CallsInv'
    BY <1>2 DEF CodexInv, CallsInv, CallTypes, codexVars
  <2> QED
    BY <2>1, <2>2, WalksStay DEF CodexInv
<1> QED
  BY <1>1, <1>2 DEF Next

(* One lock orders the audits of the server: the cached one is the newest  *)
(* that was stored, an answer is never from a newer one, and walks keep    *)
(* what they have of each.                                                 *)
THEOREM CodexInvariant == Spec => [](CommandsInv /\ CodexInv)
<1>1. Init => CommandsInv /\ CodexInv
  BY CommandsStart, CodexStart
<1>2. CommandsInv /\ CodexInv /\ [Next]_<<host, cliVars, codexVars>> => (CommandsInv /\ CodexInv)'
  BY CommandsInvStep, CodexInvStep
<1> QED
  BY <1>1, <1>2, PTL DEF Spec

(* Commands and server keep the types of all variables, and the server's   *)
(* lock is held exactly while one call collects or stores an audit.        *)
THEOREM PlanningSystemTypes == Spec => []TypeOK
<1>1. CommandsInv /\ CodexInv => TypeOK
  BY DEF TypeOK, CommandsInv, CodexInv, CallsInv, WalksInv, CallTypes, CodexTypeOK, CallState,
         WalkState
<1> QED
  BY <1>1, CodexInvariant, PTL

(* A finished walk over pages that all name the cached audit has the whole *)
(* sorted list of that audit, whatever was refreshed on the way.           *)
THEOREM WalksAreWhole == Spec => []OneAuditWalksAreWhole
<1>1. CodexInv => OneAuditWalksAreWhole
  <2> SUFFICES ASSUME CodexInv, NEW x \in Clients, ~walk[x].open, walk[x].ids = {cached.id}
               PROVE  walk[x].items = Ordered(cached)
    BY DEF OneAuditWalksAreWhole
  <2> DEFINE w == walk[x]
  <2>1. w \in WalkState /\ WalkOK(w, cached)
    BY DEF CodexInv, WalksInv
  <2>2. ~w.open /\ w.ids = {cached.id}
    OBVIOUS
  <2>3. cached \in Snapshot \cup {NoSnapshot}
    BY DEF CodexInv, CallsInv, CallTypes
  <2> HIDE DEF w
  <2>4. cached # NoSnapshot
    BY <2>1, <2>2 DEF WalkOK, IdOf
  <2>5. cached \in Snapshot /\ IdOf(cached) = cached.id
    BY <2>3, <2>4 DEF IdOf
  <2> DEFINE all == Ordered(cached)
  <2>6. all \in Seq(Items) /\ Len(all) \in Nat
    BY <2>5, OrderedIs
  <2>7. w.cursor <= Len(all) /\ w.items = SubSeq(all, 1, w.cursor) /\ ~(w.cursor < Len(all))
    BY <2>1, <2>2, <2>5 DEF WalkOK
  <2>8. w.cursor \in Nat
    BY <2>1 DEF WalkState
  <2> HIDE DEF all
  <2>9. w.cursor = Len(all)
    BY <2>6, <2>7, <2>8
  <2>10. w.items = all
    BY <2>6, <2>7, <2>9
  <2> QED
    BY <2>10 DEF w, all
<1> QED
  BY <1>1, CodexInvariant, PTL

(* No answer is from an audit older than one that had been answered from   *)
(* when the call was made; a refresh answers from a newer one.             *)
THEOREM AnswersNeverGoBack == Spec => []AnswersAdvance
<1>1. CodexInv => AnswersAdvance
  <2> SUFFICES ASSUME CodexInv, NEW x \in Clients, call[x].pc = "answering"
               PROVE  /\ call[x].snap.id >= call[x].since
                      /\ call[x].op = "refresh" => call[x].snap.id > call[x].since
    BY DEF AnswersAdvance
  <2> DEFINE m == call[x]
  <2>1. m \in CallState /\ CallOK(m, known, taken, cached) /\ m.pc = "answering"
    BY DEF CodexInv, CallsInv, CallTypes
  <2> HIDE DEF m
  <2>2. m.since \in Nat /\ m.snap.id \in Nat
    BY <2>1 DEF CallState, CallOK, Snapshot
  <2>3. m.snap.id >= m.since /\ (m.op = "refresh" => m.snap.id > m.since)
    BY <2>1, <2>2 DEF CallOK
  <2> QED
    BY <2>3 DEF m
<1> QED
  BY <1>1, CodexInvariant, PTL

----------------------------------------------------------------------------
(* What the tools say of one audit.                                        *)

(* A preview is a plan of one item; it is ready where nothing blocks it.   *)
LEMMA ReadyPreview ==
    ASSUME NEW audit \in Audit, NEW s \in Items, NEW w \in BOOLEAN, Ready(Preview(audit, s, w))
    PROVE  Blocks(audit, s, w) = {}
<1> DEFINE e == Entry(audit, s, w)
<1>1. Preview(audit, s, w) = [schema |-> 2, revision |-> 1, entries |-> <<e>>]
  BY DEF Preview, Extended
<1>2. e.blocks = Blocks(audit, s, w)
  BY EntryIs
<1> HIDE DEF e
<1>3. e.blocks = {}
  BY <1>1 DEF Ready
<1> QED
  BY <1>2, <1>3

(* Where collectors were complete, what nothing blocks was not in use.     *)
LEMMA UnblockedIsUnused ==
    ASSUME NEW audit \in Audit, NEW s \in Software(audit), NEW w, Blocks(audit, s, w) = {},
           Complete(audit, {"applications", "homebrew", "startup"})
    PROVE  /\ s \notin audit.host.running
           /\ \A g \in Formulae \cap audit.host.present : <<g, s>> \notin audit.host.needs
           /\ s \in Formulae => audit.host.service[s] # "started"
<1> DEFINE h == audit.host
<1>1. /\ h \in Host /\ s \in Items
      /\ UsageLabel(audit, s) \notin Active
      /\ s \in Formulae => ~IsDependency(audit, s)
  BY SoftwareIsPresent, UnblockedIs
<1>2. /\ audit.fault.at \notin {"applications", "ps", "app", "homebrew", "leaves", "services"}
      /\ SeenApps(audit) \cap h.faceless = {}
      /\ SeenBrew(audit) = h.present \ Apps
  BY CompleteMeans
<1>3. audit.fault.at # "startup"
  BY DEF Complete, StateOf
<1>4. ~Running(audit, s)
  BY <1>1 DEF UsageLabel, Active
<1>5. s \notin h.running
  <2>1. CASE s \notin Apps
    BY <1>1, <2>1 DEF Host
  <2>2. CASE s \in Apps
    <3>1. s \in SeenApps(audit) /\ s \notin h.faceless
      BY <1>2, <2>2, SoftwareIsPresent, AuditConstants DEF Software
    <3>2. ProcessSeen(audit, s) # "yes"
      BY <1>4, <2>2 DEF Running
    <3> QED
      BY <1>2, <3>1, <3>2 DEF ProcessSeen
  <2> QED
    BY <2>1, <2>2
<1>6. ASSUME NEW g \in Formulae \cap h.present, <<g, s>> \in h.needs PROVE FALSE
  <2>1. s \in Formulae
    BY <1>1, <1>6 DEF Host
  <2>2. g \in SeenBrew(audit)
    BY <1>2, <1>6, AuditConstants
  <2>3. g \in Dependents(audit, s)
    BY <1>6, <2>2 DEF Dependents
  <2> QED
    BY <1>1, <2>1, <2>3 DEF IsDependency
<1>7. ASSUME s \in Formulae, h.service[s] = "started" PROVE FALSE
  <2> DEFINE i == [kind |-> "service", label |-> s, place |-> "homebrew", path |-> None,
                   owner |-> s, running |-> ServiceRunning(h.service[s])]
  <2>1. s \in SeenBrew(audit) \cap Formulae
    BY <1>7, AuditConstants, SoftwareIsPresent DEF Software
  <2>2. i \in Services(audit)
    BY <1>2, <1>7, <2>1 DEF Services
  <2>3. i.owner = s /\ i.running = "yes"
    BY <1>7 DEF ServiceRunning
  <2> HIDE DEF i
  <2>4. i \in OwnedStartup(audit, s)
    BY <1>3, <2>2, <2>3 DEF OwnedStartup, Startup
  <2> QED
    BY <1>4, <2>3, <2>4 DEF Running
<1> QED
  BY <1>5, <1>6, <1>7

(* inspect_startup shows nothing of it running, and find_overlaps no tool  *)
(* that goes with it unless something else needs that one.                 *)
LEMMA UnblockedAgrees ==
    ASSUME NEW audit, NEW s, NEW w, Blocks(audit, s, w) = {}
    PROVE  /\ \A i \in StartupAnswer(audit, s) : i.running # "yes"
           /\ \A r \in OverlapAnswer(audit, {}) :
                 (r.category = "together" /\ s \in r.pair) =>
                     \E t \in r.pair \ {s} : UsageAnswer(audit, t) = "indirectly_required"
<1>1. /\ UsageLabel(audit, s) \notin Active \cup {"indirectly_required"}
      /\ s \notin Kept(audit)
  BY UnblockedIs
<1>2. \A i \in OwnedStartup(audit, s) : i.running # "yes"
  BY <1>1 DEF UsageLabel, Running, Active
<1>3. \A i \in StartupAnswer(audit, s) : i.running # "yes"
  BY <1>2 DEF StartupAnswer
<1>4. ASSUME NEW r \in OverlapAnswer(audit, {}), r.category = "together", s \in r.pair
      PROVE  \E t \in r.pair \ {s} : UsageAnswer(audit, t) = "indirectly_required"
  <2>1. r \in Identity(audit) \cup Catalogued(audit) /\ audit.fault.at # "overlap"
    BY <1>4 DEF OverlapAnswer
  <2>2. \/ \E t \in r.pair : UsageLabel(audit, t) = "indirectly_required"
        \/ r.pair \subseteq Kept(audit)
    BY <1>4, <2>1, TogetherIsKept
  <2> QED
    BY <1>1, <1>4, <2>2 DEF UsageAnswer
<1> QED
  BY <1>3, <1>4

(* get_removal_preview, inspect_startup and find_overlaps never contradict *)
(* each other, nor the host where the audit was complete.                  *)
THEOREM ToolsAgree == Spec => []PreviewsAgree
<1>1. CodexInv => PreviewsAgree
  <2> SUFFICES ASSUME CodexInv, NEW x \in Clients, call[x].pc = "answering",
                      NEW s \in Software(call[x].snap.audit), NEW w \in BOOLEAN,
                      Ready(Preview(call[x].snap.audit, s, w))
               PROVE  LET audit == call[x].snap.audit
                          h == audit.host
                      IN /\ Complete(audit, {"applications", "homebrew", "startup"}) =>
                               /\ s \notin h.running
                               /\ \A g \in Formulae \cap h.present : <<g, s>> \notin h.needs
                               /\ s \in Formulae => h.service[s] # "started"
                         /\ \A i \in StartupAnswer(audit, s) : i.running # "yes"
                         /\ \A r \in OverlapAnswer(audit, {}) :
                               (r.category = "together" /\ s \in r.pair) =>
                                   \E t \in r.pair \ {s} :
                                       UsageAnswer(audit, t) = "indirectly_required"
    BY DEF PreviewsAgree
  <2> DEFINE audit == call[x].snap.audit
  <2>1. audit \in Audit
    BY DEF CodexInv, CallsInv, CallOK, Snapshot
  <2>2. s \in Software(audit) /\ Ready(Preview(audit, s, w))
    OBVIOUS
  <2> HIDE DEF audit
  <2>3. s \in Items
    BY <2>1, <2>2, SoftwareIsPresent
  <2>4. Blocks(audit, s, w) = {}
    BY <2>1, <2>2, <2>3, ReadyPreview
  <2>5. Complete(audit, {"applications", "homebrew", "startup"}) =>
           /\ s \notin audit.host.running
           /\ \A g \in Formulae \cap audit.host.present : <<g, s>> \notin audit.host.needs
           /\ s \in Formulae => audit.host.service[s] # "started"
    BY <2>1, <2>2, <2>4, UnblockedIsUnused
  <2>6. /\ \A i \in StartupAnswer(audit, s) : i.running # "yes"
        /\ \A r \in OverlapAnswer(audit, {}) :
              (r.category = "together" /\ s \in r.pair) =>
                  \E t \in r.pair \ {s} : UsageAnswer(audit, t) = "indirectly_required"
    BY <2>4, UnblockedAgrees
  <2> QED
    BY <2>5, <2>6 DEF audit
<1> QED
  BY <1>1, CodexInvariant, PTL
=============================================================================
