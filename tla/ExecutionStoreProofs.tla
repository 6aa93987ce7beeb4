------------------------ MODULE ExecutionStoreProofs ------------------------
(***************************************************************************)
(* Proofs about the execution journal, for any set of runs, any plans and  *)
(* any bound on revisions.                                                 *)
(*                                                                         *)
(* The inductive invariant is IInv: the pointer names the latest revision  *)
(* of the newest run, and every other run is settled.  SingleUnresolved    *)
(* alone is not inductive: an append to an older run is allowed when the   *)
(* active run's LATEST row is undone, so the proof must know that no run   *)
(* but the pointed-to one can be unresolved at that moment, and that rows  *)
(* exist only once the pointer does.                                       *)
(***************************************************************************)
EXTENDS ExecutionStore, TLAPS

\* A legal insertion keeps the journal's tables well typed.
LEMMA InsertTyped ==
    ASSUME TypeOK, NEW r \in Run, NEW n \in Nat, NEW row \in Row, Insert(r, n, row)
    PROVE  TypeOK'
<1>1. rows' \in [Run -> Seq(Row)]
    BY DEF Insert, TypeOK
<1>2. rowid' \in [Run -> Nat] /\ inserted' \in Nat
    BY DEF Insert, TypeOK
<1>3. active' \in Run \cup {NoRun} /\ revision' \in Nat
    BY DEF Insert, TypeOK
<1> QED
    BY <1>1, <1>2, <1>3 DEF TypeOK

\* The three appends of Next, as one case split that the other proofs share.
LEMMA NextCases ==
    ASSUME Next
    PROVE  \E r \in Run, row \in Row :
              \/ AppendFirst(r, row)
              \/ \E n \in Nat : AppendNext(r, n, row)
              \/ \E n \in Nat : AppendOlder(r, n, row)
<1>1. 2..MaxRevision \subseteq Nat
    BY MaxRevisionAssumption
<1> QED
    BY <1>1 DEF Next

\* The state of the journal has the right types.
THEOREM TypeCorrect == Spec => []TypeOK
<1>1. Init => TypeOK
    BY DEF Init, TypeOK
<1>2. TypeOK /\ [Next]_vars => TypeOK'
    <2> SUFFICES ASSUME TypeOK, [Next]_vars PROVE TypeOK'
        OBVIOUS
    <2>1. CASE UNCHANGED vars
        BY <2>1 DEF TypeOK, vars
    <2>2. CASE Next
        <3>1. PICK r \in Run, row \in Row :
                \/ AppendFirst(r, row)
                \/ \E n \in Nat : AppendNext(r, n, row)
                \/ \E n \in Nat : AppendOlder(r, n, row)
            BY <2>2, NextCases
        <3>2. PICK n \in Nat : Insert(r, n, row)
            BY <3>1 DEF AppendFirst, AppendNext, AppendOlder
        <3> QED
            BY <3>2, InsertTyped
    <2> QED
        BY <2>1, <2>2
<1> QED
    BY <1>1, <1>2, PTL DEF Spec

-----------------------------------------------------------------------------
PointerInv ==
    /\ active = NoRun => inserted = 0 /\ \A r \in Run : ~Started(r)
    /\ active # NoRun =>
          /\ Started(active)
          /\ Len(rows[active]) = revision
          /\ rowid[active] = inserted
          /\ inserted > 0

RowidInv ==
    /\ \A r \in Run : rowid[r] <= inserted
    /\ \A r \in Run : Started(r) => rowid[r] > 0
    /\ \A r, s \in Run : Started(r) /\ rowid[r] = rowid[s] => r = s

IInv == TypeOK /\ PointerInv /\ RowidInv /\ SingleUnresolved

\* What an insertion does to the rows of the run it extends and of the others.
LEMMA InsertRows ==
    ASSUME TypeOK, NEW r \in Run, NEW n \in Nat, NEW row \in Row, Insert(r, n, row)
    PROVE  /\ Started(r)' /\ Latest(r)' = row
           /\ rows'[r] = Append(rows[r], row)
           /\ Len(rows'[r]) = Len(rows[r]) + 1
           /\ \A s \in Run \ {r} : rows'[s] = rows[s]
           /\ \A s \in Run \ {r} : rowid'[s] = rowid[s]
           /\ rowid'[r] = inserted + 1
<1>1. rows'[r] = Append(rows[r], row) /\ rows[r] \in Seq(Row)
    BY DEF Insert, TypeOK
<1>2. Len(rows'[r]) = Len(rows[r]) + 1 /\ rows'[r][Len(rows[r]) + 1] = row
    BY <1>1
<1>3. \A s \in Run \ {r} : rows'[s] = rows[s] /\ rowid'[s] = rowid[s]
    BY DEF Insert, TypeOK
<1>4. rowid'[r] = inserted + 1
    BY DEF Insert, TypeOK
<1>5. Len(rows[r]) \in Nat
    BY <1>1
<1>6. rows'[r] # <<>>
    BY <1>2, <1>5
<1> QED
    BY <1>1, <1>2, <1>3, <1>4, <1>6 DEF Started, Latest

\* Any insertion whose revision number continues the run keeps the pointer and
\* the rowids right.
LEMMA InsertPointer ==
    ASSUME IInv, NEW r \in Run, NEW n \in Nat, NEW row \in Row, Insert(r, n, row),
           n = Len(rows[r]) + 1
    PROVE  PointerInv' /\ RowidInv'
<1> USE DEF IInv
<1>1. active' = r /\ revision' = n /\ inserted' = inserted + 1 /\ inserted \in Nat
    BY DEF Insert, TypeOK
<1>2. /\ Started(r)'
      /\ Len(rows'[r]) = Len(rows[r]) + 1
      /\ \A s \in Run \ {r} : rows'[s] = rows[s]
      /\ \A s \in Run \ {r} : rowid'[s] = rowid[s]
      /\ rowid'[r] = inserted + 1
    BY InsertRows
<1>3. rowid \in [Run -> Nat]
    BY DEF TypeOK
<1>4. PointerInv'
    BY <1>1, <1>2, RunAssumption DEF PointerInv
<1>5. \A s \in Run \ {r} : Started(s)' <=> Started(s)
    BY <1>2 DEF Started
<1>6. RowidInv'
    BY <1>1, <1>2, <1>3, <1>5 DEF RowidInv
<1> QED
    BY <1>4, <1>6

\* An insertion keeps every other run settled if all were settled before it,
\* or if it extends the active run.
LEMMA InsertSettled ==
    ASSUME IInv, NEW r \in Run, NEW n \in Nat, NEW row \in Row, Insert(r, n, row),
           r = active \/ \A s \in Run : Settled(s)
    PROVE  SingleUnresolved'
<1>1. active' = r
    BY DEF Insert
<1>2. \A s \in Run \ {r} : rows'[s] = rows[s]
    BY InsertRows DEF IInv
<1>3. \A s \in Run \ {r} : Settled(s)' <=> Settled(s)
    BY <1>2 DEF Settled, Started, Latest
<1>4. \A s \in Run \ {r} : Settled(s)
    BY DEF IInv, SingleUnresolved
<1> QED
    BY <1>1, <1>3, <1>4 DEF SingleUnresolved

\* When the active run is settled, all runs are.
LEMMA AllSettledWhenActiveIs ==
    ASSUME IInv, active # NoRun => Settled(active)
    PROVE  \A s \in Run : Settled(s)
    BY DEF IInv, SingleUnresolved, PointerInv, Settled

\* No append, of whichever of the three kinds, breaks the inductive invariant.
LEMMA NextKeepsIInv == IInv /\ [Next]_vars => IInv'
<1> SUFFICES ASSUME IInv, [Next]_vars PROVE IInv'
    OBVIOUS
<1>1. CASE UNCHANGED vars
    BY <1>1 DEF IInv, TypeOK, PointerInv, RowidInv, SingleUnresolved, Settled,
                Started, Latest, vars
<1>2. CASE Next
    <2>1. PICK r \in Run, row \in Row :
            \/ AppendFirst(r, row)
            \/ \E n \in Nat : AppendNext(r, n, row)
            \/ \E n \in Nat : AppendOlder(r, n, row)
        BY <1>2, NextCases
    <2>2. CASE AppendFirst(r, row)
        <3>1. Insert(r, 1, row) /\ rows[r] = <<>>
            BY <2>2 DEF AppendFirst, Started
        <3>2. 1 = Len(rows[r]) + 1
            BY <3>1
        <3>3. active # NoRun => Settled(active)
            BY <2>2 DEF AppendFirst, ActiveSettled, Settled
        <3> QED
            BY <3>1, <3>2, <3>3, InsertTyped, InsertPointer, InsertSettled,
               AllSettledWhenActiveIs DEF IInv
    <2>3. CASE \E n \in Nat : AppendNext(r, n, row)
        <3>1. PICK n \in Nat : AppendNext(r, n, row)
            BY <2>3
        <3>2. Insert(r, n, row) /\ active = r /\ revision = n - 1
            BY <3>1 DEF AppendNext
        <3>3. n = Len(rows[r]) + 1
            BY <3>2, RunAssumption DEF IInv, PointerInv
        <3> QED
            BY <3>2, <3>3, InsertTyped, InsertPointer, InsertSettled DEF IInv
    <2>4. CASE \E n \in Nat : AppendOlder(r, n, row)
        <3>1. PICK n \in Nat : AppendOlder(r, n, row)
            BY <2>4
        <3>2. Insert(r, n, row) /\ Len(rows[r]) = n - 1
            BY <3>1 DEF AppendOlder
        <3>3. active # NoRun => Settled(active)
            BY <3>1 DEF AppendOlder, Settled, NewRunAllowedAfter
        <3>4. n = Len(rows[r]) + 1
            BY <3>2 DEF IInv, TypeOK
        <3> QED
            BY <3>2, <3>3, <3>4, InsertTyped, InsertPointer, InsertSettled,
               AllSettledWhenActiveIs DEF IInv
    <2> QED
        BY <2>1, <2>2, <2>3, <2>4
<1> QED
    BY <1>1, <1>2

\* The empty journal satisfies the inductive invariant.
LEMMA InitIInv == Init => IInv
<1> SUFFICES ASSUME Init PROVE IInv
    OBVIOUS
<1>1. TypeOK /\ \A r \in Run : ~Started(r)
    BY DEF Init, TypeOK, Started
<1>2. active = NoRun /\ inserted = 0 /\ \A r \in Run : rowid[r] = 0
    BY DEF Init
<1> QED
    BY <1>1, <1>2 DEF IInv, PointerInv, RowidInv, SingleUnresolved, Settled

\* The inductive invariant holds throughout the journal's life.
LEMMA AlwaysIInv == Spec => []IInv
    BY InitIInv, NextKeepsIInv, PTL DEF Spec

\* At any time at most the active run is unresolved: whatever revisions its
\* callers offer, the journal never holds two unfinished cleanups.
THEOREM OnlyActiveIsUnresolved == Spec => []SingleUnresolved
<1>1. IInv => SingleUnresolved
    BY DEF IInv
<1> QED
    BY <1>1, AlwaysIInv, PTL

\* The active pointer always names the newest row of the table.
THEOREM PointerIsCurrent == Spec => []PointerIsNewestRow
<1>1. IInv => PointerIsNewestRow
    BY DEF IInv, PointerInv, RowidInv, PointerIsNewestRow, TypeOK
<1> QED
    BY <1>1, AlwaysIInv, PTL

-----------------------------------------------------------------------------
(* The history of a run, and what an undo is offered.                      *)

\* Each revision of a stored run advances the one before it, and all of them
\* are of the first one's plan.  HistoryIsLegal is what is left of this once the
\* transition table is reduced to its dead ends and its one-way doors.
HistoryInv ==
    \A r \in Run : Started(r) =>
        \A n \in 1..(Len(rows[r]) - 1) :
            /\ rows[r][n + 1].plan = rows[r][1].plan
            /\ Advances(rows[r][n], rows[r][n + 1])

\* The latest revision of a run is of the plan its first revision named.
LEMMA LatestIsOfThePlan ==
    ASSUME TypeOK, HistoryInv, NEW r \in Run, Started(r)
    PROVE  Latest(r).plan = rows[r][1].plan
<1>1. rows[r] \in Seq(Row) /\ rows[r] # <<>>
    BY DEF TypeOK, Started
<1>2. CASE Len(rows[r]) = 1
    BY <1>2 DEF Latest
<1>3. CASE Len(rows[r]) # 1
    <2>0. Len(rows[r]) \in Nat /\ Len(rows[r]) > 1
        <3> DEFINE L == Len(rows[r])
        <3>1. L \in Nat /\ L # 0
            BY <1>1
        <3>2. L # 1
            BY <1>3
        <3>3. L > 1
            <4> HIDE DEF L
            <4> QED
                BY <3>1, <3>2
        <3> QED
            BY <3>1, <3>3
    <2>1. Len(rows[r]) - 1 \in 1..(Len(rows[r]) - 1)
        BY <2>0
    <2>2. (Len(rows[r]) - 1) + 1 = Len(rows[r])
        BY <1>1
    <2> QED
        BY <2>1, <2>2 DEF HistoryInv, Latest
<1> QED
    BY <1>2, <1>3

\* A first revision, or one that follows the latest, keeps the history legal.
LEMMA InsertHistory ==
    ASSUME TypeOK, HistoryInv, NEW r \in Run, NEW n \in Nat, NEW row \in Row,
           Insert(r, n, row),
           Started(r) => Follows(Latest(r), row)
    PROVE  HistoryInv'
<1>1. /\ rows'[r] = Append(rows[r], row)
      /\ Len(rows'[r]) = Len(rows[r]) + 1
      /\ \A s \in Run \ {r} : rows'[s] = rows[s]
    BY InsertRows
<1>2. rows[r] \in Seq(Row)
    BY DEF TypeOK
<1>3. /\ \A k \in 1..Len(rows[r]) : rows'[r][k] = rows[r][k]
      /\ rows'[r][Len(rows[r]) + 1] = row
    BY <1>1, <1>2
<1>4. CASE ~Started(r)
    <2>1. Len(rows[r]) = 0 /\ rows'[r][1] = row /\ Len(rows'[r]) = 1
        BY <1>1, <1>3, <1>4 DEF Started
    <2>2. 1..(Len(rows'[r]) - 1) = {}
        BY <2>1
    <2> SUFFICES ASSUME NEW s \in Run, Started(s)'
                 PROVE  \A k \in 1..(Len(rows'[s]) - 1) :
                            /\ rows'[s][k + 1].plan = rows'[s][1].plan
                            /\ Advances(rows'[s][k], rows'[s][k + 1])
        BY DEF HistoryInv
    <2>3. CASE s = r
        BY <2>1, <2>2, <2>3
    <2>4. CASE s # r
        BY <1>1, <2>4 DEF HistoryInv, Started
    <2> QED
        BY <2>3, <2>4
<1>5. CASE Started(r)
    <2>1. Len(rows[r]) \in Nat /\ Len(rows[r]) >= 1
        BY <1>2, <1>5 DEF Started
    <2>2. rows'[r][1] = rows[r][1]
        BY <1>3, <2>1
    <2>3. row.plan = rows[r][1].plan /\ Advances(rows[r][Len(rows[r])], row)
        BY <1>5, LatestIsOfThePlan DEF Follows, Latest
    <2>4. ASSUME NEW k \in 1..(Len(rows'[r]) - 1)
          PROVE  /\ rows'[r][k + 1].plan = rows'[r][1].plan
                 /\ Advances(rows'[r][k], rows'[r][k + 1])
        <3>1. CASE k = Len(rows[r])
            BY <1>3, <2>1, <2>2, <2>3, <3>1
        <3>2. CASE k # Len(rows[r])
            <4>1. k \in 1..(Len(rows[r]) - 1)
                BY <1>1, <2>1, <3>2
            <4>2. rows'[r][k] = rows[r][k] /\ rows'[r][k + 1] = rows[r][k + 1]
                BY <1>3, <2>1, <4>1
            <4> QED
                BY <1>5, <2>2, <4>1, <4>2 DEF HistoryInv
        <3> QED
            BY <3>1, <3>2
    <2> QED
        BY <1>1, <2>2, <2>4 DEF HistoryInv, Started
<1> QED
    BY <1>4, <1>5

\* No append, of whichever of the three kinds, spoils a history.
LEMMA NextKeepsHistory == IInv /\ HistoryInv /\ [Next]_vars => HistoryInv'
<1> SUFFICES ASSUME IInv, HistoryInv, [Next]_vars PROVE HistoryInv'
    OBVIOUS
<1>0. TypeOK
    BY DEF IInv
<1>1. CASE UNCHANGED vars
    BY <1>1 DEF HistoryInv, Started, vars
<1>2. CASE Next
    <2>1. PICK r \in Run, row \in Row :
            \/ AppendFirst(r, row)
            \/ \E n \in Nat : AppendNext(r, n, row)
            \/ \E n \in Nat : AppendOlder(r, n, row)
        BY <1>2, NextCases
    <2>2. CASE AppendFirst(r, row)
        BY <1>0, <2>2, InsertHistory DEF AppendFirst
    <2>3. CASE \E n \in Nat : AppendNext(r, n, row)
        <3>1. PICK n \in Nat : AppendNext(r, n, row)
            BY <2>3
        <3>2. Insert(r, n, row) /\ active = r /\ n - 1 = revision
            BY <3>1 DEF AppendNext
        <3>3. Started(r) /\ n - 1 = Len(rows[r])
            BY <3>2, RunAssumption DEF IInv, PointerInv
        <3>4. Follows(Latest(r), row)
            BY <3>1, <3>3 DEF AppendNext, Latest
        <3> QED
            BY <1>0, <3>2, <3>3, <3>4, InsertHistory
    <2>4. CASE \E n \in Nat : AppendOlder(r, n, row)
        <3>1. PICK n \in Nat : AppendOlder(r, n, row)
            BY <2>4
        <3>2. Insert(r, n, row) /\ Len(rows[r]) = n - 1 /\ n > 1
              /\ Follows(Latest(r), row)
            BY <3>1 DEF AppendOlder
        <3>3. Started(r)
            BY <1>0, <3>2 DEF TypeOK, Started
        <3> QED
            BY <1>0, <3>2, <3>3, InsertHistory
    <2> QED
        BY <2>1, <2>2, <2>3, <2>4
<1> QED
    BY <1>1, <1>2

\* An allowed transition never leads back to prepared, never leaves a run that
\* failed or was undone, and leaves the end of an apply only to undo it.
LEMMA TransitionsMoveForward ==
    ASSUME NEW p \in Row, NEW row \in Row, Advances(p, row)
    PROVE  /\ row.state # "prepared"
           /\ p.state \notin {"failed", "undone"}
           /\ p.state \in EndedState => row.state = "undo_in_progress"
    BY DEF Advances, AllowedTransitions, RunState, Row, EndedState

\* The history of a run, whatever state its first revision is offered in, is
\* one legal life of one plan: never prepared again, over once it failed or was
\* undone, and once its apply has ended followed only by its undo.
THEOREM HistoriesAreLegal == Spec => []HistoryIsLegal
<1>1. Init => HistoryInv
    BY DEF Init, HistoryInv, Started
<1>2. TypeOK /\ HistoryInv => HistoryIsLegal
    <2> SUFFICES ASSUME TypeOK, HistoryInv, NEW r \in Run,
                        NEW n \in 1..(Len(rows[r]) - 1)
                 PROVE  /\ rows[r][n + 1].plan = rows[r][1].plan
                        /\ rows[r][n + 1].state # "prepared"
                        /\ rows[r][n].state \notin {"failed", "undone"}
                        /\ rows[r][n].state \in EndedState =>
                              rows[r][n + 1].state = "undo_in_progress"
        BY DEF HistoryIsLegal
    <2>1. rows[r] \in Seq(Row)
        BY DEF TypeOK
    <2>2. rows[r][n] \in Row /\ rows[r][n + 1] \in Row /\ Started(r)
        BY <2>1 DEF Started
    <2>3. /\ rows[r][n + 1].plan = rows[r][1].plan
          /\ Advances(rows[r][n], rows[r][n + 1])
        BY <2>2 DEF HistoryInv
    <2> QED
        BY <2>2, <2>3, TransitionsMoveForward
<1>3. IInv => TypeOK
    BY DEF IInv
<1> QED
    BY <1>1, <1>2, <1>3, AlwaysIInv, NextKeepsHistory, PTL DEF Spec

\* What latest_undoable offers is the active run when that one can be undone,
\* and once the active run is undone it is a run the journal lets undo begin.
THEOREM UndoFindsTheRightRun == Spec => []UndoReachesTheRightRun
<1>1. IInv => UndoReachesTheRightRun
    <2> SUFFICES ASSUME IInv, NEW r \in Run, LatestUndoable(r)
                 PROVE  /\ RowUndoable(Latest(active)) => r = active
                        /\ Latest(active).state = "undone" =>
                              "undo_in_progress" \in AllowedTransitions[Latest(r).state]
        BY DEF UndoReachesTheRightRun
    <2>1. Started(r) /\ RowUndoable(Latest(r))
        BY DEF LatestUndoable
    <2>2. active \in Run /\ Started(active) /\ rowid[active] = inserted
        BY <2>1 DEF IInv, TypeOK, PointerInv
    <2>3. RowUndoable(Latest(active)) => r = active
        <3>1. rowid[r] <= inserted /\ rowid[r] \in Nat /\ inserted \in Nat
            BY DEF IInv, RowidInv, TypeOK
        <3>2. RowUndoable(Latest(active)) => rowid[active] <= rowid[r]
            BY <2>2 DEF LatestUndoable
        <3>3. RowUndoable(Latest(active)) => rowid[active] = rowid[r]
            BY <2>2, <3>1, <3>2
        <3> QED
            BY <2>1, <2>2, <3>3 DEF IInv, RowidInv
    <2>4. ASSUME Latest(active).state = "undone"
          PROVE  "undo_in_progress" \in AllowedTransitions[Latest(r).state]
        <3>1. Latest(r).state \in UndoableState
            BY <2>1 DEF RowUndoable
        <3>2. r # active
            BY <2>4, <3>1 DEF UndoableState, EndedState, InterruptedState
        <3>3. Latest(r).state \in NewRunAllowedAfter
            BY <2>1, <3>2 DEF IInv, SingleUnresolved, Settled
        <3>4. Latest(r).state = "succeeded"
            BY <3>1, <3>3 DEF NewRunAllowedAfter, UndoableState, EndedState,
                              InterruptedState
        <3> QED
            BY <3>4 DEF AllowedTransitions, RunState
    <2> QED
        BY <2>3, <2>4
<1> QED
    BY <1>1, AlwaysIInv, PTL

-----------------------------------------------------------------------------
(* The journal implements RunLedger.                                       *)

outcomes == [r \in Run |-> OutcomeOf(r)]

\* The outcome of a run depends on its own rows only.
LEMMA OutcomesAfterInsert ==
    ASSUME TypeOK, NEW r \in Run, NEW n \in Nat, NEW row \in Row, Insert(r, n, row)
    PROVE  outcomes' = [outcomes EXCEPT ![r] =
                IF row.state \in NewRunAllowedAfter THEN row.state ELSE "open"]
<1>1. Started(r)' /\ Latest(r)' = row
    BY InsertRows
<1>2. \A s \in Run \ {r} : rows'[s] = rows[s]
    BY InsertRows
<1>3. OutcomeOf(r)' = IF row.state \in NewRunAllowedAfter THEN row.state ELSE "open"
    BY <1>1 DEF OutcomeOf
<1>4. \A s \in Run \ {r} : OutcomeOf(s)' = OutcomeOf(s)
    BY <1>2 DEF OutcomeOf, Started, Latest
<1> QED
    BY <1>3, <1>4 DEF outcomes

\* Every run but r is settled, so r may be opened.
LEMMA OthersNotOpen ==
    ASSUME NEW s \in Run, Settled(s)
    PROVE  OutcomeOf(s) # "open"
    BY DEF Settled, OutcomeOf, NewRunAllowedAfter

\* A revision that follows a settled one reopens a run that succeeded.
LEMMA OnlySucceededContinues ==
    ASSUME NEW p \in Row, NEW row \in Row, Follows(p, row),
           p.state \in NewRunAllowedAfter
    PROVE  p.state = "succeeded" /\ row.state = "undo_in_progress"
    BY DEF Follows, Advances, AllowedTransitions, NewRunAllowedAfter, RunState, Row

\* Continuing run r is a step of the ledger, or no step at all, provided the
\* other runs are settled.
LEMMA ContinueRefines ==
    ASSUME TypeOK, NEW r \in Run, NEW n \in Nat, NEW row \in Row, Insert(r, n, row),
           Started(r), Follows(Latest(r), row), Latest(r) \in Row,
           \A s \in Run \ {r} : Settled(s)
    PROVE  [Ledger!Next]_outcomes
<1>1. outcomes' = [outcomes EXCEPT ![r] =
            IF row.state \in NewRunAllowedAfter THEN row.state ELSE "open"]
    BY OutcomesAfterInsert
<1>2. outcomes[r] = OutcomeOf(r) /\ DOMAIN outcomes = Run
    BY DEF outcomes
<1>3. CASE Latest(r).state \in NewRunAllowedAfter
    <2>1. Latest(r).state = "succeeded" /\ row.state = "undo_in_progress"
        BY <1>3, OnlySucceededContinues
    <2>2. OutcomeOf(r) = "succeeded"
        BY <1>3, <2>1 DEF OutcomeOf
    <2>3. \A s \in Run : outcomes[s] # "open"
        BY <2>2, OthersNotOpen DEF outcomes
    <2>4. outcomes' = [outcomes EXCEPT ![r] = "open"]
        BY <1>1, <2>1 DEF NewRunAllowedAfter
    <2>5. Ledger!Reopen(r)
        BY <1>2, <2>2, <2>3, <2>4 DEF Ledger!Reopen, Ledger!AllSettled, outcomes
    <2> QED
        BY <2>5 DEF Ledger!Next
<1>4. CASE Latest(r).state \notin NewRunAllowedAfter
    <2>1. OutcomeOf(r) = "open"
        BY <1>4 DEF OutcomeOf
    <2>2. CASE row.state \in NewRunAllowedAfter
        <3>1. Ledger!Settle(r)
            BY <1>1, <1>2, <2>1, <2>2
               DEF Ledger!Settle, NewRunAllowedAfter, outcomes
        <3> QED
            BY <3>1 DEF Ledger!Next
    <2>3. CASE row.state \notin NewRunAllowedAfter
        BY <1>1, <1>2, <2>1, <2>3 DEF outcomes
    <2> QED
        BY <2>2, <2>3
<1> QED
    BY <1>3, <1>4

\* Every append is a step of the ledger, or leaves all outcomes as they are.
LEMMA StepRefines == IInv /\ [Next]_vars => [Ledger!Next]_outcomes
<1> SUFFICES ASSUME IInv, [Next]_vars PROVE [Ledger!Next]_outcomes
    OBVIOUS
<1>0. TypeOK
    BY DEF IInv
<1>1. CASE UNCHANGED vars
    BY <1>1 DEF vars, outcomes, OutcomeOf, Started, Latest
<1>2. CASE Next
    <2>1. PICK r \in Run, row \in Row :
            \/ AppendFirst(r, row)
            \/ \E n \in Nat : AppendNext(r, n, row)
            \/ \E n \in Nat : AppendOlder(r, n, row)
        BY <1>2, NextCases
    <2>2. CASE AppendFirst(r, row)
        <3>1. Insert(r, 1, row) /\ ~Started(r)
            BY <2>2 DEF AppendFirst
        <3>2. active # NoRun => Settled(active)
            BY <2>2 DEF AppendFirst, ActiveSettled, Settled
        <3>3. \A s \in Run : outcomes[s] # "open"
            BY <3>2, AllSettledWhenActiveIs, OthersNotOpen DEF outcomes
        <3>4. \E o \in {"open", "succeeded", "failed", "undone"} :
                outcomes' = [outcomes EXCEPT ![r] = o]
            BY <1>0, <3>1, OutcomesAfterInsert DEF NewRunAllowedAfter
        <3>5. outcomes[r] = "unborn"
            BY <3>1 DEF outcomes, OutcomeOf
        <3>6. Ledger!Begin(r)
            BY <3>3, <3>4, <3>5 DEF Ledger!Begin, Ledger!AllSettled, outcomes
        <3> QED
            BY <3>6 DEF Ledger!Next
    <2>3. CASE \E n \in Nat : AppendNext(r, n, row)
        <3>1. PICK n \in Nat : AppendNext(r, n, row)
            BY <2>3
        <3>2. Insert(r, n, row) /\ active = r /\ n - 1 = revision
            BY <3>1 DEF AppendNext
        <3>3. Started(r) /\ n - 1 = Len(rows[r])
            BY <3>2, RunAssumption DEF IInv, PointerInv
        <3>4. Follows(Latest(r), row)
            BY <3>1, <3>3 DEF AppendNext, Latest
        <3>5. Latest(r) \in Row
            BY <1>0, <3>3 DEF TypeOK, Started, Latest
        <3>6. \A s \in Run \ {r} : Settled(s)
            BY <3>2 DEF IInv, SingleUnresolved
        <3> QED
            BY <1>0, <3>2, <3>3, <3>4, <3>5, <3>6, ContinueRefines
    <2>4. CASE \E n \in Nat : AppendOlder(r, n, row)
        <3>1. PICK n \in Nat : AppendOlder(r, n, row)
            BY <2>4
        <3>2. Insert(r, n, row) /\ Len(rows[r]) = n - 1 /\ n > 1
              /\ Follows(Latest(r), row)
            BY <3>1 DEF AppendOlder
        <3>3. active # NoRun => Settled(active)
            BY <3>1 DEF AppendOlder, Settled, NewRunAllowedAfter
        <3>4. Started(r) /\ Latest(r) \in Row
            BY <1>0, <3>2 DEF TypeOK, Started, Latest
        <3>5. \A s \in Run \ {r} : Settled(s)
            BY <3>3, AllSettledWhenActiveIs
        <3> QED
            BY <1>0, <3>2, <3>4, <3>5, ContinueRefines
    <2> QED
        BY <2>1, <2>2, <2>3, <2>4
<1> QED
    BY <1>1, <1>2

\* The append-only journal implements the ledger of one cleanup at a time,
\* whatever revisions it is offered: a run begins, open or already settled, only
\* when all others are settled, and only a succeeded run reopens.
THEOREM StoreImplementsLedger == Spec => KeepsLedger
<1>1. Init => Ledger!Init
    BY DEF Init, Ledger!Init, OutcomeOf, Started
<1>2. IInv /\ [Next]_vars => [Ledger!Next]_outcomes
    BY StepRefines
<1> QED
    BY <1>1, <1>2, AlwaysIInv, PTL DEF Spec, KeepsLedger, Ledger!Spec, outcomes
=============================================================================
