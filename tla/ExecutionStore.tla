--------------------------- MODULE ExecutionStore ---------------------------
(***************************************************************************)
(* The execution journal, persistence/executions.py: an append-only table  *)
(* of manifest revisions keyed by (run, revision) and one pointer to the   *)
(* active revision, both changed in one SQLite transaction.                *)
(*                                                                         *)
(* Callers hold the state lock but the store trusts nothing else they      *)
(* say: here they offer any revision number, plan and state, and append    *)
(* accepts or refuses.  A refused append rolls back and changes nothing,   *)
(* as does a crash before COMMIT, so neither is an action.  The document   *)
(* of a row is abstracted to its immutable identity (plan), its state and  *)
(* whether it holds an action an undo could reach.  A document that the    *)
(* validators of models/execution.py refuse cannot be offered.             *)
(***************************************************************************)
EXTENDS ExecutionManifest

CONSTANTS Run,           \* run ids
          Plan,          \* plan identities (plan id, revision and digest)
          MaxRevision,   \* bound on the revisions of one run
          NoRun          \* the empty active pointer

ASSUME RunAssumption == NoRun \notin Run
ASSUME MaxRevisionAssumption == MaxRevision \in Nat

VARIABLES rows,     \* rows[r]: the stored revisions of run r, in order
          active,   \* the run of the active pointer, or NoRun
          revision, \* the revision of the active pointer
          rowid,    \* rowid[r]: the rowid of the latest revision of r
          inserted  \* number of rows ever inserted

vars == <<rows, active, revision, rowid, inserted>>

\* A succeeded manifest has only verified actions, which an undo reaches; an
\* undone one has only actions undone or never applied, which it does not.
Row ==
    {row \in [plan: Plan, state: RunState, inverse: BOOLEAN] :
        /\ row.state = "succeeded" => row.inverse
        /\ row.state = "undone" => ~row.inverse}

Started(r) == rows[r] # <<>>
Latest(r) == rows[r][Len(rows[r])]

TypeOK ==
    /\ rows \in [Run -> Seq(Row)]
    /\ active \in Run \cup {NoRun}
    /\ revision \in Nat
    /\ rowid \in [Run -> Nat]
    /\ inserted \in Nat

Init ==
    /\ rows = [r \in Run |-> <<>>]
    /\ active = NoRun
    /\ revision = 0
    /\ rowid = [r \in Run |-> 0]
    /\ inserted = 0

\* Mutants of Insert: the upsert does nothing on conflict; the document is cut.
InsertKeepingPointer(r, n, row) ==
    /\ rows' = [rows EXCEPT ![r] = Append(@, row)]
    /\ active' = IF active = NoRun THEN r ELSE active
    /\ revision' = IF active = NoRun THEN n ELSE revision
    /\ rowid' = [rowid EXCEPT ![r] = inserted + 1]
    /\ inserted' = inserted + 1
InsertTruncated(r, n, row) ==
    /\ rows' = [rows EXCEPT ![r] = Append(@, [plan |-> row.plan, state |-> row.state])]
    /\ active' = r
    /\ UNCHANGED <<revision, rowid, inserted>>

\* INSERT the revision and upsert the pointer; the transaction commits both.
Insert(r, n, row) ==
    /\ rows' = [rows EXCEPT ![r] = Append(@, row)]
    /\ active' = r
    /\ revision' = n
    /\ rowid' = [rowid EXCEPT ![r] = inserted + 1]
    /\ inserted' = inserted + 1

\* Mutant of ActiveSettled: only a run known to be running blocks a new one.
ActiveNotRunning ==
    active # NoRun => Latest(active).state \notin {"prepared", "in_progress"}

\* No unresolved run is active.
ActiveSettled == active # NoRun => Latest(active).state \in NewRunAllowedAfter

\* Revision 1, in any state: append looks only at the run of the pointer.
AppendFirst(r, row) ==
    /\ ~Started(r)
    /\ ActiveSettled
    /\ Insert(r, 1, row)

\* States move forward along the allowed edges, and identity is immutable.
Advances(previous, row) == row.state \in AllowedTransitions[previous.state]
Follows(previous, row) == previous.plan = row.plan /\ Advances(previous, row)

\* Revision n of the active run.
AppendNext(r, n, row) ==
    /\ n > 1
    /\ active = r /\ revision = n - 1
    /\ Follows(rows[r][n - 1], row)
    /\ Insert(r, n, row)

\* Revision n of an older run, once the active run is undone.
AppendOlder(r, n, row) ==
    /\ n > 1
    /\ active # NoRun
    /\ <<active, revision>> # <<r, n - 1>>
    /\ Latest(active).state = "undone"
    /\ Len(rows[r]) = n - 1
    /\ Follows(Latest(r), row)
    /\ Insert(r, n, row)

Next ==
    \E r \in Run, row \in Row :
        \/ AppendFirst(r, row)
        \/ \E n \in 2..MaxRevision : AppendNext(r, n, row) \/ AppendOlder(r, n, row)

Spec == Init /\ [][Next]_vars

-----------------------------------------------------------------------------
\* latest_undoable: the most recently written run, by rowid, that qualifies.
HasInverse(row) == row.inverse
RowUndoable(row) == HasInverse(row) /\ row.state \in UndoableState
LatestUndoable(r) ==
    /\ Started(r) /\ RowUndoable(Latest(r))
    /\ \A s \in Run : Started(s) /\ RowUndoable(Latest(s)) => rowid[s] <= rowid[r]

-----------------------------------------------------------------------------
(* Properties.                                                             *)

Settled(r) == Started(r) => Latest(r).state \in NewRunAllowedAfter

\* Every run but the active one is settled: succeeded, failed or undone.  The
\* checks of revision 1 and of resuming an older run add up to this.
SingleUnresolved == \A r \in Run : r # active => Settled(r)

\* The pointer names the last row written, so what active() reads is never
\* behind the history that latest_undoable reads.
PointerIsNewestRow ==
    /\ active = NoRun <=> inserted = 0
    /\ active # NoRun =>
          /\ Len(rows[active]) = revision
          /\ rowid[active] = inserted
    /\ \A r, s \in Run : rowid[r] = rowid[s] /\ Started(r) => r = s

\* latest_undoable offers the active run whenever that one can be undone, and
\* once the active run is undone it offers an older run only if the journal
\* will accept the revision that starts undoing it.
UndoReachesTheRightRun ==
    \A r \in Run : LatestUndoable(r) =>
        /\ RowUndoable(Latest(active)) => r = active
        /\ Latest(active).state = "undone" =>
              "undo_in_progress" \in AllowedTransitions[Latest(r).state]

\* The stored history of a run, from whichever state its first revision has,
\* is one legal life of one plan: no revision prepares it again, none follows
\* its failure or its undo, and the end of its apply is followed only by its
\* undo.  So it is whichever of the two ways each revision was accepted and
\* whatever runs came in between.
HistoryIsLegal ==
    \A r \in Run : \A n \in 1..(Len(rows[r]) - 1) :
        LET earlier == rows[r][n]
            later == rows[r][n + 1]
        IN  /\ later.plan = rows[r][1].plan
            /\ later.state # "prepared"
            /\ earlier.state \notin {"failed", "undone"}
            /\ earlier.state \in EndedState => later.state = "undo_in_progress"

\* The journal keeps the promise of RunLedger, and since append takes a first
\* revision in any state, a run may begin open or begin settled.
OutcomeOf(r) ==
    IF ~Started(r) THEN "unborn"
    ELSE IF Latest(r).state \in NewRunAllowedAfter THEN Latest(r).state ELSE "open"

Ledger == INSTANCE RunLedger WITH
    FirstOutcome <- {"open", "succeeded", "failed", "undone"},
    outcome <- [r \in Run |-> OutcomeOf(r)]
KeepsLedger == Ledger!Spec
=============================================================================
