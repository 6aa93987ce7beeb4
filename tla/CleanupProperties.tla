-------------------------- MODULE CleanupProperties --------------------------
(***************************************************************************)
(* What the execution of cleanup plans must guarantee, and what the        *)
(* program's own texts say of it that its code does not keep.              *)
(***************************************************************************)
EXTENDS CleanupExecution

RunIndex == DOMAIN runs
ActsOf(r) == runs[r].acts
LockFree == lockHolder = NoCommand

AnyManifest == [plan: 1..Len(PlanSize), state: RunState, acts: Seq(Action)]
AnyConsent == [verb: {"none", "APPLY", "UNDO"}, subject: Nat,
               items: SUBSET Item, fresh: BOOLEAN]
AnyJob == [mode: {"none", "apply", "undo"},
           step: {"none", "start", "check", "act", "verify", "classify"},
           run: Nat, item: Item \cup {0}, ok: BOOLEAN,
           todo: SUBSET Item, reviewed: SUBSET Item]
JournalOK ==
    /\ runs \in Seq(AnyManifest)
    /\ \A r \in RunIndex : Len(ActsOf(r)) = PlanSize[runs[r].plan]
    /\ recency \in Seq(RunIndex) /\ Len(recency) = Len(runs)
    /\ \A r \in RunIndex : \E k \in DOMAIN recency : recency[k] = r
    /\ consent \in [Command -> AnyConsent]
MachineOK ==
    /\ host \in [Item -> Value] /\ bin \in [Item -> Value]
    /\ orphan \subseteq [item: Item, value: Value]
JobOK == lockHolder \in Command \cup {NoCommand} /\ job \in AnyJob

\* Every variable has its type; a run keeps the actions of its plan revision,
\* and recency is a permutation of the runs.
TypeOK ==
    /\ plan \in 0..Len(PlanSize)
    /\ JournalOK /\ MachineOK /\ JobOK
    /\ spent \in [DOMAIN Budget -> Nat]

-----------------------------------------------------------------------------
(* Safety.                                                                 *)

\* The host is changed only while the journal's newest revision says that
\* exactly this action, in this direction, is in flight: whatever the moment of
\* a crash, the journal names every action that may have been half done.
WriteAhead ==
    [][job' # job /\ <<host, bin>>' # <<host, bin>> =>
        LET marked == IF job.mode = "apply" THEN "in_progress" ELSE "undo_in_progress"
        IN  /\ job.run = Active
            /\ Act.state = marked /\ Manifest.state = marked]_vars

\* Nothing is applied or undone that the holder of the lock had not been shown
\* before it typed its approval, however the plan, the journal and the other
\* commands moved between the review and the lock.
OnlyWhatWasReviewed ==
    job.step \in {"check", "act", "verify"} => job.item \in job.reviewed

\* An action is undone only when every later action of the run that could
\* still be reversed has been: services come back after their formula.
UndoneInReverse ==
    job.mode = "undo" /\ job.step \in {"check", "act", "verify"} =>
        \A j \in DOMAIN Manifest.acts : j > job.item => ~Recoverable(Manifest.acts[j])

\* As long as only MacWise and commands it waits for change the host, what the active manifest says of
\* an action that is not in flight is where its target really is.  So no
\* change can be forgotten: crashes, lying commands and failed observations
\* included.
AsBefore(i, act) == host[i] = act.before /\ bin[i] = "absent"
AsRecorded(i, act) ==
    IF IsTrash(i) /\ act.state \in {"verified", "undo_failed"}
    THEN host[i] = "absent" /\ bin[i] = act.after
    ELSE host[i] = act.after /\ bin[i] = "absent"
JournalTellsTheTruth ==
    spent["drifts"] = 0 /\ spent["orphans"] = 0 /\ Active # 0 =>
        \A i \in DOMAIN ActsOf(Active) :
            LET act == ActsOf(Active)[i] IN
            ~InFlight(act) =>
                IF act.after = NoObservation THEN AsBefore(i, act) ELSE AsRecorded(i, act)

\* Evidence backs every claim, whatever the user does meanwhile: what is
\* verified was seen gone (or in the Trash, the same bundle), what is undone
\* was seen as it was before, and no after-state is recorded from incomplete
\* evidence, so undo never refuses one for lack of authority.
EvidenceBacksClaims ==
    \A r \in RunIndex : \A i \in DOMAIN ActsOf(r) :
        LET act == ActsOf(r)[i] IN
        /\ act.state = "verified" =>
              act.after = IF IsTrash(i) THEN act.before ELSE "absent"
        /\ act.state = "undone" => act.after = act.before
        /\ act.after # NoObservation => Authoritative(act.after)

\* Every manifest the service builds passes the model's own validators; one
\* that did not would raise in the middle of a run, after the mutation.
ManifestsAreValid == \A r \in RunIndex : ValidManifest(runs[r])

\* MacWise never destroys an application: a step of its own moves a bundle
\* between the original path and the Trash and never onto another one.
NoBundleLost ==
    [][job' # job =>
        \A i \in Item : IsTrash(i) =>
            \/ host'[i] = host[i] /\ bin'[i] = bin[i]
            \/ host'[i] = bin[i] /\ bin'[i] = host[i]]_vars

\* The runs are taken one at a time, as RunLedger says: a run starts only when
\* all others have succeeded, failed or been undone, and it starts open.
OutcomeOf(r) ==
    IF r \notin RunIndex THEN "unborn"
    ELSE IF runs[r].state \in NewRunAllowedAfter THEN runs[r].state ELSE "open"
Ledger == INSTANCE RunLedger WITH
    Run <- 1..MaxRuns, FirstOutcome <- {"open"},
    outcome <- [r \in 1..MaxRuns |-> OutcomeOf(r)]
KeepsLedger == Ledger!Spec

-----------------------------------------------------------------------------
(* Liveness.                                                               *)

\* A command that holds the lock goes on: its observations and commands have
\* timeouts.
JobsProceed == WF_vars(JobStep)
FairSpec == Spec /\ JobsProceed

\* The lock is always released.
LockIsReleased == lockHolder # NoCommand ~> lockHolder = NoCommand

\* A user who keeps asking for undo, and commands that end once started.
UserKeepsUndoing ==
    \A c \in Command : /\ SF_vars(ReviewUndo(c)) /\ SF_vars(BeginUndo(c))
                       /\ WF_vars(RefuseUndo(c)) /\ WF_vars(RefuseApply(c))
UndoingSpec == FairSpec /\ UserKeepsUndoing

\* Where recovery stops for good: nothing was started yet; the crash fell
\* between two actions; a run that came to its end has nothing left to reverse,
\* or an action in flight, which only an interrupted run would classify; or the
\* first action in flight, the only one ever classified, is an apply left
\* ambiguous before its undo began or a service whose formula is gone.
DeadEnd(m) ==
    \/ m.state = "prepared"
    \/ m.state = "in_progress" /\ InFlightItems(m) = {}
    \/ m.state \in EndedState /\ (RecoverableItems(m) = {} \/ InFlightItems(m) # {})
    \/ /\ m.state \in InterruptedState /\ InFlightItems(m) # {}
       /\ LET first == Lowest(InFlightItems(m))
          IN  \/ m.state = "undo_in_progress" /\ m.acts[first].state = "in_progress"
              \/ Truth(first) = Unknown

\* Every run, if the user keeps asking, ends up undone or in one of these
\* dead ends, through crashes at any step, failed observations and commands
\* that fail or lie.
RecoveryEnds ==
    Active # 0 ~> /\ Active # 0 /\ LockFree
                  /\ runs[Active].state = "undone" \/ DeadEnd(runs[Active])

-----------------------------------------------------------------------------
(* What the program's texts say and its code does not do.                  *)

\* persistence/executions.py:332: "An unresolved execution must be recovered
\* before a new run."  So one that blocks new runs can be recovered.
UnresolvedRunIsRecoverable ==
    LockFree /\ Active # 0 /\ runs[Active].state \notin NewRunAllowedAfter =>
        Undoable(runs[Active])

\* cli.py:1836, of an in-progress run: "Recovery: run macwise undo to review
\* bounded fresh-state classification".  So the journal takes the undo.
ApprovedUndoIsAccepted ==
    job.mode = "undo" /\ job.step = "start" => StoreAccepts(job.run, "undo_in_progress")

\* docs/phase-5-acceptance.md:48: "Let fully restored partial runs terminate
\* when later actions never ran ... only mutated actions require UNDONE."
RestoredRunTerminates ==
    LockFree /\ Active # 0 /\ runs[Active].state = "undo_partial" =>
        \E i \in DOMAIN ActsOf(Active) : ~AsBefore(i, ActsOf(Active)[i])

\* docs/plans/2026-07-18-phase-5-reversible-cleanup-design.md:231: "Repeated
\* apply of the same plan revision refuses."
PlanRevisionRunsOnce ==
    \A r, s \in RunIndex : runs[r].plan = runs[s].plan => r = s
=============================================================================
