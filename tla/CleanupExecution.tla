-------------------------- MODULE CleanupExecution --------------------------
(***************************************************************************)
(* The execution of a reviewed cleanup plan and its undo: the commands     *)
(* "macwise apply" and "macwise undo" (cli.py), the service they call      *)
(* (services/execution.py), the Trash and command adapters under it, the   *)
(* state lock, the journal, and the host they change.                      *)
(*                                                                         *)
(* Several commands run at once, in different terminals.  Each reads and   *)
(* shows what it is about to do without the lock, takes a typed approval,  *)
(* and then works under the lock, which it releases when it ends or dies.  *)
(* So one job at most is under way; it advances by steps with a possible   *)
(* crash, a change made by the user, or another command's review between   *)
(* any two.  A step ends where the journal or the host has changed.        *)
(*                                                                         *)
(* LaunchAgent actions are not among the kinds: revalidation refuses every *)
(* one of them, because the startup collector never reports whether one is *)
(* running, so no run the program can start contains one.                  *)
(***************************************************************************)
EXTENDS ExecutionManifest

CONSTANTS
    Command,     \* invocations of macwise
    NoCommand,   \* the free lock
    Kind,        \* Kind[i]: "trash", "package" or "service"
    Owner,       \* Owner[i]: for a service, the item of its formula
    PlanSize,    \* PlanSize[n]: the n-th plan revision has items 1..PlanSize[n]
    MaxRuns,     \* bound on the runs journaled
    Budget       \* bounds on crashes, sights (failed observations), commands
                 \* (failed or ineffective commands), drifts (user changes) and
                 \* orphans (commands that outlive a killed MacWise)

Item == DOMAIN Kind
IsTrash(i) == Kind[i] = "trash"
PlanItems(n) == 1..PlanSize[n]

ASSUME KindAssumption == Kind \in Seq({"trash", "package", "service"})
\* The planner puts the services of a formula before the formula itself.
ASSUME OwnerAssumption ==
    \A i \in Item : Kind[i] = "service" =>
        Owner[i] \in Item /\ Owner[i] > i /\ Kind[Owner[i]] = "package"
ASSUME PlanSizeAssumption == PlanSize \in Seq(1..Len(Kind))
ASSUME NoCommandAssumption == NoCommand \notin Command
ASSUME MaxRunsAssumption == MaxRuns \in Nat
ASSUME BudgetAssumption ==
    Budget \in [{"crashes", "sights", "commands", "drifts", "orphans"} -> Nat]

VARIABLES
    plan,        \* active plan revision, 0 before the first
    lockHolder,  \* command holding the state lock, or NoCommand
    consent,     \* consent[c]: what command c has shown and been approved for
    runs,        \* runs[r]: the latest manifest of run r
    recency,     \* runs by the time of their latest revision, newest last
    host,        \* host[i]: is the package installed, the service running,
                 \*          which bundle is at the application's path
    bin,         \* bin[i]: which bundle is at the item's Trash path
    orphan,      \* package and service commands whose MacWise has died
    job,         \* progress of the command that holds the lock
    spent        \* how much of each budget is used

journal == <<runs, recency, consent>>
machine == <<host, bin, orphan>>
vars == <<plan, lockHolder, journal, machine, job, spent>>

-----------------------------------------------------------------------------
(* Helpers.                                                                *)

Idle == [mode |-> "none", step |-> "none", run |-> 0, item |-> 0,
         ok |-> FALSE, todo |-> {}, reviewed |-> {}]
NoConsent == [verb |-> "none", subject |-> 0, items |-> {}, fresh |-> FALSE]

Spend(kind) == spent[kind] < Budget[kind] /\ spent' = [spent EXCEPT ![kind] = @ + 1]

Manifest == runs[job.run]
Act == Manifest.acts[job.item]

Active == IF recency = <<>> THEN 0 ELSE recency[Len(recency)]

RecoverableItems(m) == {i \in DOMAIN m.acts : Recoverable(m.acts[i])}
InFlightItems(m) == {i \in DOMAIN m.acts : InFlight(m.acts[i])}
Lowest(S) == CHOOSE i \in S : \A j \in S : i <= j
Highest(S) == CHOOSE i \in S : \A j \in S : j <= i

\* The newest run whose manifest has something to undo; 0 if there is none.
LatestUndoable ==
    LET found == {k \in DOMAIN recency : Undoable(runs[recency[k]])}
    IN  IF found = {} THEN 0 ELSE recency[Highest(found)]

\* Would the journal accept a revision of run r in this state?
StoreAccepts(r, state) ==
    /\ r = Active \/ runs[Active].state = "undone"
    /\ state \in AllowedTransitions[runs[r].state]

\* The runs by latest revision once run r has a new one.
NewestLast(r) ==
    LET at == CHOOSE k \in DOMAIN recency : recency[k] = r
    IN  [k \in DOMAIN recency |->
            IF k < at THEN recency[k] ELSE IF k = Len(recency) THEN r ELSE recency[k + 1]]

\* Append a revision of run r.  Any approval of an earlier revision of r is
\* worth nothing from here on: it names the digest of that revision.
Journal(r, m) ==
    /\ StoreAccepts(r, m.state)
    /\ runs' = [runs EXCEPT ![r] = m]
    /\ recency' = NewestLast(r)
    /\ consent' = [c \in Command |->
            IF consent[c].verb = "UNDO" /\ consent[c].subject = r
            THEN [consent[c] EXCEPT !.fresh = FALSE] ELSE consent[c]]

\* The job's action and run take new states.
Record(actState, after, runState) ==
    Journal(job.run,
            [WithAction(Manifest, job.item,
                        [Act EXCEPT !.state = actState, !.after = after])
                EXCEPT !.state = runState])

\* The command ends: the with-statement releases the lock.
Stop == lockHolder' = NoCommand /\ job' = Idle
Goto(step) == job' = [job EXCEPT !.step = step] /\ UNCHANGED lockHolder

\* The outcome is unknown: the action stays in flight, the run is interrupted.
Interrupt == Record(Act.state, Act.after, "interrupted") /\ Stop

-----------------------------------------------------------------------------
(* The host.                                                               *)

\* A service of a formula that is not installed is not listed at all.
Truth(i) == IF Kind[i] = "service" /\ host[Owner[i]] = "absent" THEN Unknown ELSE host[i]

Raised == "raised"

\* A fresh observation of item i yields o: the truth, or at a cost unknown
\* (the collector was incomplete) or an exception.
Sees(i, o) ==
    \/ o = Truth(i) /\ UNCHANGED spent
    \/ o \in {Unknown, Raised} /\ Spend("sights")

\* A path is probed; unreadable metadata makes it unknown.
Probes(origin, trash) ==
    \/ origin = host[job.item] /\ trash = bin[job.item] /\ UNCHANGED spent
    \/ origin = Unknown /\ trash = bin[job.item] /\ Spend("sights")
    \/ origin = host[job.item] /\ trash = Unknown /\ Spend("sights")

\* Homebrew removes a formula together with its service, and restores the
\* formula alone.
HostAfter(i, value) ==
    [j \in Item |->
        IF j = i THEN value
        ELSE IF value = "absent" /\ Kind[j] = "service" /\ Owner[j] = i THEN "absent"
        ELSE host[j]]

-----------------------------------------------------------------------------
(* The plan.                                                               *)

\* What prepare_execution requires of the fresh host.
Revalidates(n) ==
    \A i \in PlanItems(n) :
        CASE Kind[i] = "package" -> host[i] = "present"
          [] Kind[i] = "service" -> Truth(i) = "present"
          [] OTHER -> host[i] # "absent" /\ bin[i] = "absent"

\* "plan add" appends the next revision, under the lock for the append only;
\* items of earlier revisions stay in the plan.
AddPlan ==
    /\ lockHolder = NoCommand
    /\ plan < Len(PlanSize)
    /\ \A i \in PlanItems(plan + 1) :
          (plan = 0 \/ i > PlanSize[plan]) => Truth(i) \in {"present", "changed"}
    /\ plan' = plan + 1
    /\ UNCHANGED <<lockHolder, journal, machine, job, spent>>

-----------------------------------------------------------------------------
(* Apply.                                                                  *)

\* The CLI reads the plan, revalidates it, shows it and takes the phrase.
ReviewApply(c) ==
    /\ consent[c] = NoConsent /\ lockHolder # c
    /\ plan > 0
    /\ Revalidates(plan)
    /\ consent' = [consent EXCEPT ![c] =
            [verb |-> "APPLY", subject |-> plan, items |-> PlanItems(plan), fresh |-> TRUE]]
    /\ UNCHANGED <<plan, lockHolder, runs, recency, machine, job, spent>>

\* The plan has no run of its own that is the latest, and no run is unresolved.
PlanIsNew == Active # 0 => runs[Active].plan # plan
NewRunAllowed == PlanIsNew /\ (Active # 0 => runs[Active].state \in NewRunAllowedAfter)

\* The checks of apply under the lock.
MayApply(c) ==
    /\ lockHolder = NoCommand
    /\ plan = consent[c].subject
    /\ Revalidates(plan)
    /\ NewRunAllowed

\* They pass, and a prepared manifest is journaled.
BeginApply(c) ==
    /\ consent[c].verb = "APPLY"
    /\ MayApply(c)
    /\ Len(runs) < MaxRuns
    /\ lockHolder' = c
    /\ runs' = Append(runs, [plan |-> plan, state |-> "prepared",
                             acts |-> [i \in PlanItems(plan) |->
                                [state |-> "pending", before |-> host[i],
                                 after |-> NoObservation]]])
    /\ recency' = Append(recency, Len(runs) + 1)
    /\ consent' = [consent EXCEPT ![c] = NoConsent]
    /\ job' = [Idle EXCEPT !.mode = "apply", !.step = "start", !.item = 1,
                           !.run = Len(runs) + 1, !.reviewed = consent[c].items]
    /\ UNCHANGED <<plan, machine, spent>>

\* They fail, or another command holds the lock; nothing changes.
RefuseApply(c) ==
    /\ consent[c].verb = "APPLY"
    /\ ~MayApply(c)
    /\ consent' = [consent EXCEPT ![c] = NoConsent]
    /\ UNCHANGED <<plan, lockHolder, runs, recency, machine, job, spent>>

\* Mutant of StartAction: the journal is written only once the action is done.
StartActionUnjournaled ==
    /\ job.mode = "apply" /\ job.step = "start"
    /\ Goto("check")
    /\ UNCHANGED <<plan, journal, machine, spent>>

\* The next action is journaled as in progress, after the plan is read again.
StartAction ==
    /\ job.mode = "apply" /\ job.step = "start"
    /\ plan = Manifest.plan
    /\ Record("in_progress", Act.after, "in_progress")
    /\ Goto("check")
    /\ UNCHANGED <<plan, machine, spent>>

\* Was this the last action?  (And a mutant of that.)
PastLastAction == job.item > Len(Manifest.acts)
IsLastAction == job.item = Len(Manifest.acts)

\* The action is verified: on to the next one, or the run is complete.
Verified(value) ==
    LET acts == [Manifest.acts EXCEPT ![job.item] =
                    [@ EXCEPT !.state = "verified", !.after = value]]
        complete == \A i \in DOMAIN acts : acts[i].state = "verified"
    IN  /\ Journal(job.run, [Manifest EXCEPT !.acts = acts,
                                !.state = IF complete THEN "succeeded" ELSE "in_progress"])
        /\ IF IsLastAction THEN Stop
           ELSE /\ job' = [job EXCEPT !.step = "start", !.item = @ + 1]
                /\ UNCHANGED lockHolder

\* A command action observes its target first and acts only on a match.
CheckBefore ==
    /\ job.mode = "apply" /\ job.step = "check" /\ ~IsTrash(job.item)
    /\ \E o \in Observation \cup {Raised} :
        /\ Sees(job.item, o)
        /\ \/ o = Raised /\ Interrupt
           \/ /\ o # Raised /\ ~Matches(o, Act.before)
              /\ Record("failed", NoObservation, "verification_failed") /\ Stop
           \/ o # Raised /\ Matches(o, Act.before) /\ Goto("act") /\ UNCHANGED journal
    /\ UNCHANGED <<plan, machine>>

\* It observes again and compares; on a command error it only observes.
VerifyAfter ==
    /\ job.mode = "apply" /\ job.step = "verify" /\ ~IsTrash(job.item)
    /\ \E o \in Observation \cup {Raised} :
        /\ Sees(job.item, o)
        /\ \/ o \in {Unknown, Raised} /\ Interrupt
           \/ /\ o \in Value /\ job.ok /\ Matches(o, "absent") /\ Verified(o)
           \/ /\ o \in Value /\ job.ok /\ ~Matches(o, "absent")
              /\ Record("failed", o, "verification_failed") /\ Stop
           \/ o \in Value /\ ~job.ok /\ Record("failed", o, "partial") /\ Stop
    /\ UNCHANGED <<plan, machine>>

-----------------------------------------------------------------------------
(* Undo.                                                                   *)

\* The CLI shows the newest undoable manifest and takes the phrase for it.
ReviewUndo(c) ==
    /\ consent[c] = NoConsent /\ lockHolder # c
    /\ LatestUndoable # 0
    /\ consent' = [consent EXCEPT ![c] =
            [verb |-> "UNDO", subject |-> LatestUndoable, fresh |-> TRUE,
             items |-> RecoverableItems(runs[LatestUndoable])
                            \cup InFlightItems(runs[LatestUndoable])]]
    /\ UNCHANGED <<plan, lockHolder, runs, recency, machine, job, spent>>

NeedsClassification(m) == m.state \in InterruptedState /\ InFlightItems(m) # {}

\* The approval names a digest, so a revision and not only a run.
SameRun(c) == LatestUndoable = consent[c].subject
StillApproved(c) == SameRun(c) /\ consent[c].fresh

\* The checks of undo under the lock: the same manifest is still the newest.
MayUndo(c) ==
    /\ lockHolder = NoCommand
    /\ StillApproved(c)
    /\ \/ NeedsClassification(runs[LatestUndoable])
       \/ RecoverableItems(runs[LatestUndoable]) # {}

BeginUndo(c) ==
    /\ consent[c].verb = "UNDO"
    /\ MayUndo(c)
    /\ lockHolder' = c
    /\ consent' = [consent EXCEPT ![c] = NoConsent]
    /\ LET m == runs[consent[c].subject]
           begun == [Idle EXCEPT !.mode = "undo", !.run = consent[c].subject,
                                 !.reviewed = consent[c].items]
       IN  job' = IF NeedsClassification(m)
                  THEN [begun EXCEPT !.step = "classify", !.item = Lowest(InFlightItems(m))]
                  ELSE [begun EXCEPT !.step = "start", !.todo = RecoverableItems(m)]
    /\ UNCHANGED <<plan, runs, recency, machine, spent>>

RefuseUndo(c) ==
    /\ consent[c].verb = "UNDO"
    /\ ~MayUndo(c)
    /\ consent' = [consent EXCEPT ![c] = NoConsent]
    /\ UNCHANGED <<plan, lockHolder, runs, recency, machine, job, spent>>

\* The interrupted action, given what fresh evidence matches.
Classified(act, beforeMatch, afterMatch, value) ==
    CASE act.state = "in_progress" /\ afterMatch ->
            [act EXCEPT !.state = "verified", !.after = value]
      [] act.state = "in_progress" /\ ~afterMatch /\ beforeMatch ->
            [act EXCEPT !.state = "failed", !.after = value]
      [] act.state = "undo_in_progress" /\ beforeMatch ->
            [act EXCEPT !.state = "undone", !.after = value]
      [] act.state = "undo_in_progress" /\ ~beforeMatch /\ afterMatch ->
            [act EXCEPT !.state = "verified"]
      [] OTHER -> act

\* The manifest with its first interrupted action classified.
ClassifiedManifest(new) ==
    LET acts == [Manifest.acts EXCEPT ![job.item] = new]
        All(state) == \A i \in DOMAIN acts : acts[i].state = state
    IN  [Manifest EXCEPT !.acts = acts,
            !.state = CASE new = Act -> "interrupted"
                        [] new # Act /\ Act.state = "in_progress" ->
                              IF All("verified") THEN "succeeded" ELSE "partial"
                        [] OTHER -> IF All("undone") THEN "undone" ELSE "undo_partial"]

\* After the classification the undo goes on with what manifest m can reverse.
Proceed(m) ==
    IF m.state = "undone" \/ RecoverableItems(m) = {} THEN Stop
    ELSE /\ job' = [job EXCEPT !.step = "start", !.todo = RecoverableItems(m)]
         /\ UNCHANGED lockHolder

JournalClassified(new) ==
    LET m == ClassifiedManifest(new) IN
    \/ /\ new = Act /\ Manifest.state = "interrupted"     \* known to be ambiguous
       /\ Proceed(Manifest)
       /\ UNCHANGED journal
    \/ /\ ~(new = Act /\ Manifest.state = "interrupted")
       /\ Journal(job.run, m)
       /\ Proceed(m)
    \/ /\ ~(new = Act /\ Manifest.state = "interrupted")
       /\ ~StoreAccepts(job.run, m.state)                 \* ExecutionStoreError
       /\ Stop
       /\ UNCHANGED journal

ClassifyCommand ==
    /\ job.step = "classify" /\ ~IsTrash(job.item)
    /\ \E o \in Observation \cup {Raised} :
        /\ Sees(job.item, o)
        /\ \/ o = Raised /\ Stop /\ UNCHANGED journal
           \/ /\ o # Raised
              /\ LET expectedAfter == IF Act.after = NoObservation THEN "absent" ELSE Act.after
                 IN  JournalClassified(Classified(Act, Matches(o, Act.before),
                                                  Matches(o, expectedAfter), o))
    /\ UNCHANGED <<plan, machine>>

ClassifyTrash ==
    /\ job.step = "classify" /\ IsTrash(job.item)
    /\ \E origin, trash \in Observation :
        /\ Probes(origin, trash)
        /\ LET applied == IF Act.after = NoObservation THEN Act.before ELSE Act.after
               beforeMatch == Matches(origin, Act.before) /\ trash = "absent"
               afterMatch == origin = "absent" /\ Matches(trash, applied)
           IN  JournalClassified(Classified(Act, beforeMatch, afterMatch,
                                            IF beforeMatch THEN origin ELSE trash))
    /\ UNCHANGED <<plan, machine>>

\* The latest action not yet reversed is journaled as being undone.
UndoStarted ==
    LET i == Highest(job.todo) IN
    /\ job.mode = "undo" /\ job.step = "start"
    /\ Journal(job.run,
               [WithAction(Manifest, i, [Manifest.acts[i] EXCEPT !.state = "undo_in_progress"])
                   EXCEPT !.state = "undo_in_progress"])
    /\ job' = [job EXCEPT !.step = "check", !.item = i]
    /\ UNCHANGED <<plan, lockHolder, machine, spent>>

\* The journal refuses, with an ExecutionStoreError.
UndoNotStarted ==
    /\ job.mode = "undo" /\ job.step = "start"
    /\ ~StoreAccepts(job.run, "undo_in_progress")
    /\ Stop
    /\ UNCHANGED <<plan, journal, machine, spent>>

StartUndo == UndoStarted \/ UndoNotStarted

\* What makes a run undone.  (And a mutant of that.)
NothingRecoverable(acts) == \A i \in DOMAIN acts : ~Recoverable(acts[i])
AllReversed(acts) == \A i \in DOMAIN acts : acts[i].state \in {"undone", "not_applied"}

\* The action is undone; after the last one the tail that never ran is closed.
Restored(value) ==
    LET undone == [Manifest.acts EXCEPT ![job.item] =
                      [@ EXCEPT !.state = "undone", !.after = value]]
        last == job.todo = {job.item}
        closed == last /\ \A i \in DOMAIN undone :
                              undone[i].state \in {"undone", "pending", "not_applied"}
        acts == [i \in DOMAIN undone |->
                    IF closed /\ undone[i].state = "pending"
                    THEN [undone[i] EXCEPT !.state = "not_applied"] ELSE undone[i]]
    IN  /\ Journal(job.run, [Manifest EXCEPT !.acts = acts,
                                !.state = IF AllReversed(acts) THEN "undone"
                                          ELSE IF last THEN "undo_partial"
                                          ELSE "undo_in_progress"])
        /\ IF last THEN Stop
           ELSE /\ job' = [job EXCEPT !.step = "start", !.todo = @ \ {job.item}]
                /\ UNCHANGED lockHolder

\* A target already back is undone as it is; one that is neither as before
\* nor as applied is left alone, as is any whose after-state was uncertain.
Reversible(o) ==
    Authoritative(Act.after) /\ (Matches(o, Act.before) \/ Matches(o, Act.after))

CheckUndo ==
    /\ job.mode = "undo" /\ job.step = "check" /\ ~IsTrash(job.item)
    /\ \E o \in Observation \cup {Raised} :
        /\ Sees(job.item, o)
        /\ \/ o = Raised /\ Interrupt
           \/ /\ o # Raised /\ ~Reversible(o)
              /\ Record("undo_failed", Act.after, "undo_partial") /\ Stop
           \/ o # Raised /\ Reversible(o) /\ Matches(o, Act.before) /\ Restored(o)
           \/ /\ o # Raised /\ Reversible(o) /\ ~Matches(o, Act.before)
              /\ Goto("act") /\ UNCHANGED journal
    /\ UNCHANGED <<plan, machine>>

VerifyUndo ==
    /\ job.mode = "undo" /\ job.step = "verify" /\ ~IsTrash(job.item)
    /\ \/ ~job.ok /\ Interrupt /\ UNCHANGED spent
       \/ /\ job.ok
          /\ \E o \in Observation \cup {Raised} :
                /\ Sees(job.item, o)
                /\ IF o = "present" THEN Restored(o) ELSE Interrupt
    /\ UNCHANGED <<plan, machine>>

-----------------------------------------------------------------------------
(* The mutations, of apply and of undo.                                    *)

\* What the job's command is to make of its target.
CommandGoal == IF job.mode = "apply" THEN "absent" ELSE "present"

\* A service starts only while its formula is installed.
Works(i, value) ==
    value = "present" /\ Kind[i] = "service" => host[Owner[i]] = "present"

\* A command: uninstall or stop, install or start.  It may fail, or claim to
\* have worked, whatever it did.
RunCommand ==
    /\ job.step = "act" /\ ~IsTrash(job.item)
    /\ \E effect, ok \in BOOLEAN :
        /\ effect => Works(job.item, CommandGoal)
        /\ IF ok = effect /\ (ok \/ ~Works(job.item, CommandGoal))
           THEN UNCHANGED spent ELSE Spend("commands")
        /\ host' = IF effect THEN HostAfter(job.item, CommandGoal) ELSE host
        /\ job' = [job EXCEPT !.step = "verify", !.ok = ok]
    /\ UNCHANGED <<plan, lockHolder, journal, bin, orphan>>

\* A Trash move from source to destination, in the direction of the job.
MoveSource == IF job.mode = "apply" THEN host[job.item] ELSE bin[job.item]
MoveDestination == IF job.mode = "apply" THEN bin[job.item] ELSE host[job.item]
MoveExpects == IF job.mode = "apply" THEN Act.before ELSE Act.after

\* An exclusive rename never replaces what is at the destination.
SourceThere == MoveSource # "absent"
CanRename == SourceThere /\ MoveDestination = "absent"

\* The exact bundle must be at the source and the destination free; any
\* refusal, and a path that cannot be read, counts as a possible mutation.
MayMove == MoveSource = MoveExpects /\ MoveDestination = "absent"
CheckMove ==
    /\ job.mode \in {"apply", "undo"} /\ job.step = "check" /\ IsTrash(job.item)
    /\ \/ MayMove /\ Goto("act") /\ UNCHANGED <<journal, spent>>
       \/ MayMove /\ Interrupt /\ Spend("sights")
       \/ ~MayMove /\ Interrupt /\ UNCHANGED spent
    /\ UNCHANGED <<plan, machine>>

\* It moves whatever is at the source, or fails.
Rename ==
    /\ job.step = "act" /\ IsTrash(job.item)
    /\ \/ /\ CanRename
          /\ host' = [host EXCEPT ![job.item] =
                        IF job.mode = "apply" THEN "absent" ELSE MoveSource]
          /\ bin' = [bin EXCEPT ![job.item] =
                        IF job.mode = "apply" THEN MoveSource ELSE "absent"]
          /\ job' = [job EXCEPT !.step = "verify", !.ok = TRUE]
          /\ UNCHANGED spent
       \/ /\ IF CanRename THEN Spend("commands") ELSE UNCHANGED spent
          /\ job' = [job EXCEPT !.step = "verify", !.ok = FALSE]
          /\ UNCHANGED <<host, bin>>
    /\ UNCHANGED <<plan, lockHolder, journal, orphan>>

\* The same bundle must now be at the destination and nothing at the source;
\* when that cannot be read the bundle has moved and the outcome is unknown.
Moved == job.ok /\ MoveDestination = MoveExpects /\ MoveSource = "absent"
VerifyMove ==
    /\ job.step = "verify" /\ IsTrash(job.item)
    /\ \/ /\ Moved /\ UNCHANGED spent
          /\ IF job.mode = "apply" THEN Verified(MoveDestination) ELSE Restored(MoveDestination)
       \/ Moved /\ Interrupt /\ Spend("sights")
       \/ ~Moved /\ Interrupt /\ UNCHANGED spent
    /\ UNCHANGED <<plan, machine>>

-----------------------------------------------------------------------------
(* What may happen at any time.                                            *)

\* The process dies; the kernel releases its lock.  The journal keeps what
\* was committed and the host what was done.
Crash ==
    /\ lockHolder # NoCommand
    /\ Spend("crashes")
    /\ Stop
    /\ UNCHANGED <<plan, journal, machine>>

\* The process alone is killed while a command runs: the command goes on.
CrashAlone ==
    /\ job.step = "act" /\ ~IsTrash(job.item)
    /\ Spend("orphans")
    /\ orphan' = orphan \cup {[item |-> job.item, value |-> CommandGoal]}
    /\ Stop
    /\ UNCHANGED <<plan, journal, host, bin>>

\* It ends whenever it ends.
OrphanEnds ==
    \E o \in orphan :
        /\ host' = IF Works(o.item, o.value) THEN HostAfter(o.item, o.value) ELSE host
        /\ orphan' = orphan \ {o}
        /\ UNCHANGED <<plan, lockHolder, journal, bin, job, spent>>

\* The user installs or removes software, starts or stops a service, replaces,
\* removes or puts back an application, or empties the Trash.
Drift ==
    /\ Spend("drifts")
    /\ \E i \in Item :
        CASE Kind[i] = "package" ->
                /\ host' = HostAfter(i, IF host[i] = "absent" THEN "present" ELSE "absent")
                /\ UNCHANGED bin
          [] Kind[i] = "service" ->
                /\ host[Owner[i]] = "present"
                /\ host' = HostAfter(i, IF host[i] = "absent" THEN "present" ELSE "absent")
                /\ UNCHANGED bin
          [] OTHER ->
                \/ \E value \in {"absent", "changed"} :
                      host' = HostAfter(i, value) /\ UNCHANGED bin
                \/ bin' = [bin EXCEPT ![i] = "absent"] /\ UNCHANGED host
                \/ /\ host[i] = "absent"
                   /\ host' = [host EXCEPT ![i] = bin[i]]
                   /\ bin' = [bin EXCEPT ![i] = "absent"]
    /\ UNCHANGED <<plan, lockHolder, journal, orphan, job>>

-----------------------------------------------------------------------------
Init ==
    /\ plan = 0
    /\ lockHolder = NoCommand
    /\ consent = [c \in Command |-> NoConsent]
    /\ runs = <<>>
    /\ recency = <<>>
    /\ host = [i \in Item |-> "present"]
    /\ bin = [i \in Item |-> "absent"]
    /\ orphan = {}
    /\ job = Idle
    /\ spent = [kind \in DOMAIN Budget |-> 0]

\* The steps of the job that holds the lock.
JobStep ==
    \/ StartAction \/ CheckBefore \/ VerifyAfter
    \/ ClassifyCommand \/ ClassifyTrash \/ StartUndo \/ CheckUndo \/ VerifyUndo
    \/ RunCommand \/ CheckMove \/ Rename \/ VerifyMove

Next ==
    \/ AddPlan
    \/ \E c \in Command :
          \/ ReviewApply(c) \/ BeginApply(c) \/ RefuseApply(c)
          \/ ReviewUndo(c) \/ BeginUndo(c) \/ RefuseUndo(c)
    \/ JobStep
    \/ Crash \/ CrashAlone \/ OrphanEnds
    \/ Drift

Spec == Init /\ [][Next]_vars
=============================================================================
