------------------------ MODULE CleanupJournalProofs ------------------------
(***************************************************************************)
(* Proofs about what the journal can be believed to say, on top of the     *)
(* invariant of CleanupUndoProofs: that every action's state is backed by  *)
(* evidence, that it tells the truth of the host while nobody else changes *)
(* it, and that all runs but the newest are settled.                       *)
(*                                                                         *)
(* The inductive invariant WInv adds what the record of an action can say  *)
(* (EvidenceInv), which values the host can have (CommandHost), how far an *)
(* apply has come (ApplyInv) and, while only MacWise and the commands it   *)
(* waits for change the host, that the newest run is the only one that can *)
(* be undone and tells the truth of every target (TruthInv).               *)
(***************************************************************************)
EXTENDS CleanupUndoProofs

\* What the record of an action says, whatever its run went through: a target
\* is planned while it is there, an after-state is one its target can have, and
\* none is known before the action has been tried.
Evident(i, act) ==
    /\ IF IsTrash(i)
       THEN act.before # "absent" /\ act.after \in {NoObservation, act.before}
       ELSE act.before = "present" /\ act.after \in {NoObservation, "present", "absent"}
    /\ act.state \in {"pending", "in_progress"} => act.after = NoObservation
    /\ act.state = "verified" => act.after = IF IsTrash(i) THEN act.before ELSE "absent"
    /\ act.state = "undone" => act.after = act.before
EvidenceInv == \A r \in RunIndex : \A i \in DOMAIN ActsOf(r) : Evident(i, ActsOf(r)[i])

\* Packages and services are there or not, and never in the Trash.
CommandHost ==
    /\ \A i \in Item : ~IsTrash(i) => host[i] \in {"present", "absent"} /\ bin[i] = "absent"
    /\ \A o \in orphan : o.value \in {"present", "absent"}

\* An apply has verified the actions before its own and not tried the others.
ApplyInv ==
    job.mode = "apply" =>
        \A j \in DOMAIN Manifest.acts :
            IF j < job.item THEN Manifest.acts[j].state = "verified"
            ELSE Manifest.acts[j].state = "pending" \/ (j = job.item /\ Acting)

\* Nobody but MacWise, and commands it waits for, has changed the host.
Quiet == spent["drifts"] = 0 /\ spent["orphans"] = 0

Telling(i, act) ==
    ~InFlight(act) =>
        IF act.after = NoObservation THEN AsBefore(i, act) ELSE AsRecorded(i, act)

\* Then no other run than the newest can still be undone, ...
SoleRun ==
    orphan = {} /\ \A r \in RunIndex : r # Active => runs[r].state \in {"failed", "undone"}
\* ... what that one says is so, ...
AllTelling ==
    Active # 0 => \A i \in DOMAIN ActsOf(Active) : Telling(i, ActsOf(Active)[i])
\* ... and a command's target is as it was when its action was taken up.
CheckInv ==
    job.step = "check" /\ ~IsTrash(job.item) =>
        host[job.item] = IF job.mode = "apply" THEN Act.before ELSE Act.after
TruthInv == Quiet => SoleRun /\ AllTelling /\ CheckInv

WInv == UInv /\ EvidenceInv /\ CommandHost /\ ApplyInv /\ TruthInv

-----------------------------------------------------------------------------
(* Revisions.                                                              *)

Closed(act) == [act EXCEPT !.state = "not_applied"]

\* The job's run has a new revision, in which action i has become act and all
\* that happened to others is that undo may have closed the tail that never ran.
Revises(i, act) ==
    /\ job.run \in RunIndex /\ i \in DOMAIN Manifest.acts /\ Manifest \in AnyManifest
    /\ Manifest.state \notin {"failed", "undone"}
    /\ RunIndex' = RunIndex /\ Active' = job.run
    /\ \A s \in RunIndex \ {job.run} : runs'[s] = runs[s]
    /\ DOMAIN runs'[job.run].acts = DOMAIN Manifest.acts
    /\ runs'[job.run].acts[i] = act
    /\ \A j \in DOMAIN Manifest.acts \ {i} :
          \/ runs'[job.run].acts[j] = Manifest.acts[j]
          \/ /\ Manifest.acts[j].state = "pending" /\ job.mode = "undo"
             /\ runs'[job.run].acts[j] = Closed(Manifest.acts[j])

\* Every manifest the job journals is such a revision, if it is so by itself.
LEMMA JournalRevises ==
    ASSUME Papers, job.run \in RunIndex, NEW m \in AnyManifest, m.plan = Manifest.plan,
           Len(m.acts) = Len(Manifest.acts), Journal(job.run, m),
           NEW i \in DOMAIN Manifest.acts,
           \A j \in DOMAIN Manifest.acts \ {i} :
              \/ m.acts[j] = Manifest.acts[j]
              \/ /\ Manifest.acts[j].state = "pending" /\ job.mode = "undo"
                 /\ m.acts[j] = Closed(Manifest.acts[j])
    PROVE  Revises(i, m.acts[i])
<1>1. Manifest \in AnyManifest
    BY DEF Papers, JournalOK, Manifest, RunIndex
<1>2. DOMAIN m.acts = DOMAIN Manifest.acts
    BY <1>1 DEF AnyManifest
<1>3. /\ RunIndex' = RunIndex /\ Active' = job.run /\ runs'[job.run] = m
      /\ \A s \in RunIndex \ {job.run} : runs'[s] = runs[s]
    BY JournalEffect DEF Manifest, Papers
<1>4. Manifest.state \notin {"failed", "undone"}
    <2>1. m.state \in AllowedTransitions[Manifest.state] /\ Manifest.state \in RunState
        BY <1>1 DEF Journal, StoreAccepts, Manifest, AnyManifest
    <2> QED
        BY <2>1 DEF AllowedTransitions, RunState
<1> QED
    BY <1>1, <1>2, <1>3, <1>4 DEF Revises

\* Recording a new state of the job's action is one.
LEMMA RecordRevises ==
    ASSUME Papers, Job, job.mode # "none", job.item \in DOMAIN Manifest.acts,
           NEW actState \in ActionState, NEW after \in Observation \cup {NoObservation},
           NEW runState \in RunState, Record(actState, after, runState)
    PROVE  Revises(job.item, [Act EXCEPT !.state = actState, !.after = after])
<1> DEFINE act == [Act EXCEPT !.state = actState, !.after = after]
           m == [WithAction(Manifest, job.item, act) EXCEPT !.state = runState]
<1>1. Manifest \in AnyManifest /\ job.run \in RunIndex /\ Manifest.acts[job.item] \in Action
    BY ManifestTyped DEF Job
<1>2. act \in Action
    BY <1>1 DEF Act, Action
<1>3. Journal(job.run, m)
    BY DEF Record
<1> HIDE DEF act
<1>4. /\ m \in AnyManifest /\ m.plan = Manifest.plan /\ m.acts[job.item] = act
      /\ Len(m.acts) = Len(Manifest.acts)
      /\ \A j \in DOMAIN Manifest.acts \ {job.item} : m.acts[j] = Manifest.acts[j]
    BY <1>1, <1>2, ManifestWith
<1> HIDE DEF m
<1>5. Revises(job.item, m.acts[job.item])
    BY <1>1, <1>3, <1>4, JournalRevises
<1> QED
    BY <1>4, <1>5 DEF act

\* So is a verified action, ...
LEMMA VerifiedRevises ==
    ASSUME Papers, Job, Acting, job.mode = "apply", NEW value \in Value, Verified(value)
    PROVE  Revises(job.item, [Act EXCEPT !.state = "verified", !.after = value])
<1> DEFINE act == [Act EXCEPT !.state = "verified", !.after = value]
           acts == [Manifest.acts EXCEPT ![job.item] = act]
           state == IF \A i \in DOMAIN acts : acts[i].state = "verified"
                    THEN "succeeded" ELSE "in_progress"
           m == [Manifest EXCEPT !.acts = acts, !.state = state]
<1>1. /\ job.item \in DOMAIN Manifest.acts /\ Act \in Action /\ Act = Manifest.acts[job.item]
      /\ Manifest \in AnyManifest /\ job.run \in RunIndex
    BY ActingTyped, ManifestTyped DEF Job, Act
<1>2. act \in Action
    BY <1>1 DEF Action, ActionState, Observation
<1>3. Journal(job.run, m)
    BY <1>1 DEF Verified
<1> HIDE DEF act
<1>4. /\ acts \in Seq(Action) /\ Len(acts) = Len(Manifest.acts) /\ acts[job.item] = act
      /\ \A j \in DOMAIN Manifest.acts \ {job.item} : acts[j] = Manifest.acts[j]
    BY <1>1, <1>2 DEF AnyManifest
<1>5. state \in RunState
    BY DEF RunState
<1> HIDE DEF acts, state
<1>6. m \in AnyManifest /\ m.plan = Manifest.plan /\ m.acts = acts
    BY <1>1, <1>4, <1>5 DEF AnyManifest
<1> HIDE DEF m
<1>7. Revises(job.item, m.acts[job.item])
    BY <1>1, <1>3, <1>4, <1>6, JournalRevises
<1> QED
    BY <1>4, <1>6, <1>7 DEF act

\* ... an undone one, with the tail that never ran, ...
LEMMA RestoredRevises ==
    ASSUME Papers, Job, Acting, job.mode = "undo", NEW value \in Value, Restored(value)
    PROVE  Revises(job.item, [Act EXCEPT !.state = "undone", !.after = value])
<1> DEFINE act == [Act EXCEPT !.state = "undone", !.after = value]
           undone == [Manifest.acts EXCEPT ![job.item] = act]
           last == job.todo = {job.item}
           closed == last /\ \A i \in DOMAIN undone :
                                undone[i].state \in {"undone", "pending", "not_applied"}
           acts == [i \in DOMAIN undone |->
                        IF closed /\ undone[i].state = "pending"
                        THEN [undone[i] EXCEPT !.state = "not_applied"] ELSE undone[i]]
           state == IF AllReversed(acts) THEN "undone"
                    ELSE IF last THEN "undo_partial" ELSE "undo_in_progress"
           m == [Manifest EXCEPT !.acts = acts, !.state = state]
<1>1. /\ job.item \in DOMAIN Manifest.acts /\ Act \in Action /\ Act = Manifest.acts[job.item]
      /\ Manifest \in AnyManifest /\ job.run \in RunIndex
      /\ Len(Manifest.acts) \in Nat /\ DOMAIN Manifest.acts = 1..Len(Manifest.acts)
      /\ Manifest.acts \in [1..Len(Manifest.acts) -> Action]
    BY ActingTyped, ManifestTyped DEF Job, Act
<1>2. act \in Action /\ act.state = "undone"
    BY <1>1 DEF Action, ActionState, Observation
<1>3. Journal(job.run, m)
    BY <1>1 DEF Restored
<1> HIDE DEF act
<1>4. /\ undone \in [1..Len(Manifest.acts) -> Action] /\ undone[job.item] = act
      /\ \A i \in DOMAIN Manifest.acts \ {job.item} : undone[i] = Manifest.acts[i]
    BY <1>1, <1>2
<1>5. \A a \in Action : Closed(a) \in Action
    BY DEF Action, ActionState, Closed
<1> HIDE DEF undone, closed
<1>6. /\ acts \in [1..Len(Manifest.acts) -> Action] /\ acts[job.item] = act
      /\ \A j \in DOMAIN Manifest.acts \ {job.item} :
            \/ acts[j] = Manifest.acts[j]
            \/ Manifest.acts[j].state = "pending" /\ acts[j] = Closed(Manifest.acts[j])
    BY <1>1, <1>2, <1>4, <1>5 DEF Closed
<1> HIDE DEF acts
<1>7. acts \in Seq(Action) /\ Len(acts) = Len(Manifest.acts)
    BY <1>1, <1>6
<1>8. state \in RunState
    BY DEF RunState
<1> HIDE DEF state
<1>9. m \in AnyManifest /\ m.plan = Manifest.plan /\ m.acts = acts
    BY <1>1, <1>7, <1>8 DEF AnyManifest
<1> HIDE DEF m
<1>10. Revises(job.item, m.acts[job.item])
    BY <1>1, <1>3, <1>6, <1>7, <1>9, JournalRevises
<1> QED
    BY <1>6, <1>9, <1>10 DEF act

\* ... one that undo takes up, ...
LEMMA UndoStartedRevises ==
    ASSUME Papers, Job, UndoStarted
    PROVE  LET i == Highest(job.todo)
           IN  /\ Revises(i, [Manifest.acts[i] EXCEPT !.state = "undo_in_progress"])
               /\ i \in job.todo /\ job' = [job EXCEPT !.step = "check", !.item = i]
<1> DEFINE i == Highest(job.todo)
           act == [Manifest.acts[i] EXCEPT !.state = "undo_in_progress"]
           m == [WithAction(Manifest, i, act) EXCEPT !.state = "undo_in_progress"]
<1>1. job.mode = "undo" /\ job.step = "start"
    BY DEF UndoStarted
<1>2. /\ job.run \in RunIndex /\ Manifest \in AnyManifest
      /\ Manifest.acts \in [1..Len(Manifest.acts) -> Action]
      /\ Len(Manifest.acts) \in Nat /\ DOMAIN Manifest.acts = 1..Len(Manifest.acts)
    BY <1>1, ManifestTyped DEF Job
<1>3. job.todo \subseteq DOMAIN Manifest.acts /\ job.todo # {}
    BY <1>1 DEF Job, JobInv
<1>4. i \in job.todo
    BY <1>2, <1>3, HighestIn
<1>5. Journal(job.run, m) /\ job' = [job EXCEPT !.step = "check", !.item = i]
    BY DEF UndoStarted
<1> HIDE DEF i
<1>6. act \in Action /\ "undo_in_progress" \in RunState
    BY <1>2, <1>3, <1>4 DEF Action, ActionState, RunState
<1>7. /\ m \in AnyManifest /\ m.plan = Manifest.plan /\ m.acts[i] = act
      /\ Len(m.acts) = Len(Manifest.acts)
      /\ \A j \in DOMAIN Manifest.acts \ {i} : m.acts[j] = Manifest.acts[j]
    BY <1>2, <1>3, <1>4, <1>6, ManifestWith
<1> HIDE DEF m
<1>8. Revises(i, m.acts[i])
    BY <1>2, <1>3, <1>4, <1>5, <1>7, JournalRevises
<1> QED
    BY <1>4, <1>5, <1>7, <1>8 DEF i

\* ... and one that is classified, unless nothing is journaled.
LEMMA ClassifiedRevises ==
    ASSUME Papers, Job, job.step = "classify", NEW new \in Action, JournalClassified(new)
    PROVE  UNCHANGED journal \/ Revises(job.item, new)
<1> DEFINE acts == [Manifest.acts EXCEPT ![job.item] = new]
           All(name) == \A i \in DOMAIN acts : acts[i].state = name
           state == CASE new = Act -> "interrupted"
                      [] new # Act /\ Act.state = "in_progress" ->
                            IF All("verified") THEN "succeeded" ELSE "partial"
                      [] OTHER -> IF All("undone") THEN "undone" ELSE "undo_partial"
           m == [Manifest EXCEPT !.acts = acts, !.state = state]
<1>1. job.mode = "undo" /\ job.item \in DOMAIN Manifest.acts
    BY DEF Job, JobOK, JobInv, AnyJob, InFlightItems
<1>2. /\ job.run \in RunIndex /\ Manifest \in AnyManifest
      /\ Manifest.acts \in [1..Len(Manifest.acts) -> Action]
      /\ Len(Manifest.acts) \in Nat /\ DOMAIN Manifest.acts = 1..Len(Manifest.acts)
    BY <1>1, ManifestTyped DEF Job
<1>3. /\ acts \in Seq(Action) /\ Len(acts) = Len(Manifest.acts) /\ acts[job.item] = new
      /\ \A j \in DOMAIN Manifest.acts \ {job.item} : acts[j] = Manifest.acts[j]
    BY <1>1, <1>2 DEF AnyManifest
<1>4. UNCHANGED journal \/ Journal(job.run, m)
    BY DEF JournalClassified, ClassifiedManifest
<1> HIDE DEF acts
<1>5. state \in RunState
    BY DEF RunState
<1> HIDE DEF state
<1>6. m \in AnyManifest /\ m.plan = Manifest.plan /\ m.acts = acts
    BY <1>2, <1>3, <1>5 DEF AnyManifest
<1> HIDE DEF m
<1>7. CASE Journal(job.run, m)
    <2>1. Revises(job.item, m.acts[job.item])
        BY <1>1, <1>2, <1>3, <1>6, <1>7, JournalRevises
    <2> QED
        BY <1>3, <1>6, <2>1
<1> QED
    BY <1>4, <1>7

\* A revision whose own action has its evidence keeps that of all others.
LEMMA RevisionKeepsEvidence ==
    ASSUME EvidenceInv, NEW i, NEW act, Revises(i, act), Evident(i, act)
    PROVE  EvidenceInv'
<1> SUFFICES ASSUME NEW r \in RunIndex', NEW j \in DOMAIN runs'[r].acts
             PROVE  Evident(j, runs'[r].acts[j])
    BY DEF EvidenceInv, ActsOf
<1>1. r \in RunIndex
    BY DEF Revises
<1>2. CASE r # job.run
    <2>1. runs'[r] = runs[r]
        BY <1>1, <1>2 DEF Revises
    <2> QED
        BY <1>1, <2>1 DEF EvidenceInv, ActsOf
<1>3. CASE r = job.run /\ j = i
    BY <1>3 DEF Revises
<1>4. CASE r = job.run /\ j # i
    <2>1. j \in DOMAIN Manifest.acts /\ Evident(j, Manifest.acts[j])
        BY <1>1, <1>4 DEF Revises, EvidenceInv, ActsOf, Manifest
    <2>2. Manifest.acts[j] \in Action
        BY <2>1 DEF Revises, AnyManifest
    <2>3. CASE runs'[r].acts[j] = Manifest.acts[j]
        BY <2>1, <2>3
    <2>4. CASE /\ Manifest.acts[j].state = "pending"
               /\ runs'[r].acts[j] = Closed(Manifest.acts[j])
        BY <2>1, <2>2, <2>4 DEF Evident, Closed, Action
    <2> QED
        BY <1>4, <2>1, <2>3, <2>4 DEF Revises
<1> QED
    BY <1>2, <1>3, <1>4

\* One that tells the truth of its own action, while the host stays as it is,
\* is of the only run that could still be undone and keeps the truth of all.
LEMMA RevisionKeepsTruth ==
    ASSUME JournalOK, EvidenceInv, SoleRun, AllTelling, UNCHANGED machine,
           NEW i, NEW act, Revises(i, act), Telling(i, act)
    PROVE  SoleRun' /\ AllTelling'
<1>1. job.run = Active /\ Active' = Active /\ RunIndex' = RunIndex
    BY DEF Revises, SoleRun, Manifest
<1>2. SoleRun'
    BY <1>1 DEF Revises, SoleRun, machine
<1>3. ASSUME NEW j \in DOMAIN runs'[job.run].acts
      PROVE  Telling(j, runs'[job.run].acts[j])
    <2>1. CASE j = i
        BY <2>1 DEF Revises
    <2>2. CASE j # i
        <3>1. Active # 0 /\ j \in DOMAIN Manifest.acts
            BY <1>1, <1>3 DEF Revises, RunIndex, JournalOK
        <3>2. Telling(j, Manifest.acts[j]) /\ Evident(j, Manifest.acts[j])
            BY <1>1, <3>1 DEF AllTelling, EvidenceInv, ActsOf, Manifest, Revises
        <3>3. Manifest.acts[j] \in Action
            BY <3>1 DEF Revises, AnyManifest
        <3>4. CASE runs'[job.run].acts[j] = Manifest.acts[j]
            BY <3>2, <3>4
        <3>5. CASE /\ Manifest.acts[j].state = "pending"
                   /\ runs'[job.run].acts[j] = Closed(Manifest.acts[j])
            BY <3>2, <3>3, <3>5
            DEF Telling, Evident, Closed, Action, InFlight, AsBefore, NoObservation
        <3> QED
            BY <2>2, <3>1, <3>4, <3>5 DEF Revises
    <2> QED
        BY <2>1, <2>2
<1>4. AllTelling'
    BY <1>1, <1>3 DEF AllTelling, ActsOf, Telling, AsBefore, AsRecorded, machine
<1> QED
    BY <1>2, <1>4

-----------------------------------------------------------------------------
(* What a step of a job records.                                           *)

\* What a step that journals may say of the action it is about.
Reports ==
    \/ UNCHANGED <<runs, recency>>
    \/ /\ UNCHANGED machine
       /\ \E i \in Item, act \in Action :
             Revises(i, act) /\ Evident(i, act) /\ (Quiet => Telling(i, act))

\* What a job in the middle of an action has journaled of it.
LEMMA ActingKnows ==
    ASSUME WInv, Acting
    PROVE  /\ Papers /\ Job /\ MachineOK /\ job.mode \in {"apply", "undo"}
           /\ job.item \in DOMAIN Manifest.acts /\ job.item \in Item
           /\ Act \in Action /\ InFlight(Act) /\ Act.state = Mark
           /\ Evident(job.item, Act) /\ SoundAction(Act)
<1>1. Papers /\ Job /\ MachineOK
    BY DEF WInv, UInv, IInv, TypeOK, Papers, Job
<1>2. /\ job.mode # "none" /\ job.item \in DOMAIN Manifest.acts /\ job.item \in Item
      /\ Act \in Action
    BY <1>1, ActingTyped
<1>3. job.mode \in {"apply", "undo"} /\ job.run \in RunIndex
    BY <1>1, <1>2 DEF Job, JobOK, JobInv, AnyJob
<1>4. Act.state = Mark /\ InFlight(Act)
    BY <1>1 DEF Job, MarkInv, Mark, InFlight
<1>5. Evident(job.item, Act) /\ SoundAction(Act)
    BY <1>2, <1>3 DEF WInv, UInv, EvidenceInv, ActsOf, AllSound, Sound, Act, Manifest
<1> QED
    BY <1>1, <1>2, <1>3, <1>4, <1>5

\* An observation of a command's target that is complete is what is there.
LEMMA SeenIsReal ==
    ASSUME MachineOK, CommandHost, NEW i \in Item, ~IsTrash(i), NEW o \in Value, Sees(i, o)
    PROVE  host[i] = o /\ o \in {"present", "absent"} /\ bin[i] = "absent"
BY DEF Sees, Truth, CommandHost, Value, Unknown, Raised

\* An interruption says nothing of the action that is in flight.
LEMMA InterruptReports ==
    ASSUME WInv, Acting, UNCHANGED machine, Interrupt
    PROVE  Reports
<1>1. /\ Papers /\ Job /\ job.mode # "none" /\ job.item \in DOMAIN Manifest.acts
      /\ job.item \in Item /\ Act \in Action /\ InFlight(Act) /\ Evident(job.item, Act)
    BY ActingKnows
<1>2. /\ Act.state \in ActionState /\ Act.after \in Observation \cup {NoObservation}
      /\ "interrupted" \in RunState /\ [Act EXCEPT !.state = Act.state, !.after = Act.after] = Act
    BY <1>1 DEF Action, RunState
<1>3. Revises(job.item, Act)
    BY <1>1, <1>2, RecordRevises DEF Interrupt
<1> QED
    BY <1>1, <1>3 DEF Reports, Telling

\* A recorded outcome reports, if it is evident and true.
LEMMA RecordReports ==
    ASSUME WInv, Acting, UNCHANGED machine,
           NEW actState \in ActionState, NEW after \in Observation \cup {NoObservation},
           NEW runState \in RunState, Record(actState, after, runState),
           Evident(job.item, [Act EXCEPT !.state = actState, !.after = after]),
           Quiet => Telling(job.item, [Act EXCEPT !.state = actState, !.after = after])
    PROVE  Reports
<1>1. /\ Papers /\ Job /\ job.mode # "none" /\ job.item \in DOMAIN Manifest.acts
      /\ job.item \in Item /\ Act \in Action
    BY ActingKnows
<1>2. Revises(job.item, [Act EXCEPT !.state = actState, !.after = after])
    BY <1>1, RecordRevises
<1>3. [Act EXCEPT !.state = actState, !.after = after] \in Action
    BY <1>1 DEF Action
<1> QED
    BY <1>1, <1>2, <1>3 DEF Reports

\* The start of an action: nothing is known yet of what it will do.
LEMMA StartActionReports ==
    ASSUME WInv, StartAction
    PROVE  Reports
<1>1. Papers /\ Job /\ job.mode = "apply" /\ job.run \in RunIndex
    BY DEF WInv, UInv, IInv, TypeOK, Papers, Job, StartAction, JobInv
<1>2. job.item \in DOMAIN Manifest.acts /\ job.item \in Item /\ Act \in Action
    BY <1>1, ManifestTyped DEF Job, JobInv, Act
<1>3. Evident(job.item, Act) /\ Act.after = NoObservation
    <2>1. ~(job.item < job.item)
        BY <1>1, <1>2, ManifestTyped DEF Job
    <2>2. Act.state = "pending"
        BY <1>1, <1>2, <2>1 DEF WInv, ApplyInv, Act, StartAction, Acting
    <2>3. Evident(job.item, Act)
        BY <1>1, <1>2 DEF WInv, EvidenceInv, ActsOf, Act, Manifest
    <2> QED
        BY <2>2, <2>3 DEF Evident
<1> DEFINE act == [Act EXCEPT !.state = "in_progress", !.after = Act.after]
<1>4. act \in Action /\ Evident(job.item, act) /\ InFlight(act)
    BY <1>2, <1>3 DEF Action, ActionState, Evident, InFlight
<1>5. /\ "in_progress" \in ActionState /\ "in_progress" \in RunState
      /\ Act.after \in Observation \cup {NoObservation}
      /\ Record("in_progress", Act.after, "in_progress") /\ UNCHANGED machine
    BY <1>2 DEF Action, ActionState, RunState, StartAction
<1>6. Revises(job.item, act)
    BY <1>1, <1>2, <1>5, RecordRevises
<1> QED
    BY <1>2, <1>4, <1>5, <1>6 DEF Reports, Telling

\* A check that fails leaves its target as it was when the action was started.
LEMMA CheckBeforeReports ==
    ASSUME WInv, CheckBefore
    PROVE  Reports
<1>1. /\ Acting /\ job.mode = "apply" /\ job.step = "check" /\ ~IsTrash(job.item)
      /\ UNCHANGED machine
    BY DEF CheckBefore, Acting
<1>2. /\ MachineOK /\ job.item \in Item /\ Act \in Action /\ Evident(job.item, Act)
    BY <1>1, ActingKnows
<1>3. \/ Interrupt
      \/ Record("failed", NoObservation, "verification_failed")
      \/ UNCHANGED journal
    BY DEF CheckBefore
<1>4. CASE Record("failed", NoObservation, "verification_failed")
    <2> DEFINE act == [Act EXCEPT !.state = "failed", !.after = NoObservation]
    <2>1. "failed" \in ActionState /\ "verification_failed" \in RunState
        BY DEF ActionState, RunState
    <2>2. /\ act.state = "failed" /\ act.after = NoObservation /\ act.before = Act.before
        BY <1>2 DEF Action
    <2>3. Evident(job.item, act)
        BY <1>1, <1>2, <2>2 DEF Evident
    <2>4. Quiet => Telling(job.item, act)
        BY <1>1, <1>2, <2>2 DEF WInv, TruthInv, CheckInv, CommandHost, Telling, AsBefore
    <2> QED
        BY <1>1, <1>4, <2>1, <2>3, <2>4, RecordReports
<1> QED
    BY <1>1, <1>3, <1>4, InterruptReports DEF Reports, journal

\* An action is verified with what is there, ...
LEMMA VerifiedReports ==
    ASSUME WInv, Acting, job.mode = "apply", UNCHANGED machine,
           NEW value \in Value, Verified(value),
           IF IsTrash(job.item)
           THEN host[job.item] = "absent" /\ bin[job.item] = value /\ value = Act.before
           ELSE host[job.item] = value /\ bin[job.item] = "absent" /\ value = "absent"
    PROVE  Reports
<1> DEFINE act == [Act EXCEPT !.state = "verified", !.after = value]
<1>1. /\ Papers /\ Job /\ job.item \in Item /\ Act \in Action /\ Evident(job.item, Act)
    BY ActingKnows
<1>2. Revises(job.item, act)
    BY <1>1, VerifiedRevises
<1>3. /\ act.state = "verified" /\ act.after = value /\ act.before = Act.before /\ act \in Action
    BY <1>1 DEF Action, ActionState, Observation
<1> HIDE DEF act
<1>4. Evident(job.item, act)
    BY <1>1, <1>3 DEF Evident
<1>5. Telling(job.item, act)
    BY <1>3 DEF Telling, AsRecorded, Value, NoObservation
<1> QED
    BY <1>1, <1>2, <1>3, <1>4, <1>5 DEF Reports

\* ... or fails with what is there.
LEMMA VerifyAfterReports ==
    ASSUME WInv, VerifyAfter
    PROVE  Reports
<1>1. Acting /\ job.mode = "apply" /\ ~IsTrash(job.item) /\ UNCHANGED machine
    BY DEF VerifyAfter, Acting
<1>2. MachineOK /\ job.item \in Item /\ Act \in Action /\ Evident(job.item, Act) /\ CommandHost
    BY <1>1, ActingKnows DEF WInv
<1>3. PICK o \in Observation \cup {Raised} :
        /\ Sees(job.item, o)
        /\ \/ Interrupt
           \/ o \in Value /\ Matches(o, "absent") /\ Verified(o)
           \/ o \in Value /\ Record("failed", o, "verification_failed")
           \/ o \in Value /\ Record("failed", o, "partial")
    BY DEF VerifyAfter
<1>4. CASE o \in Value /\ Matches(o, "absent") /\ Verified(o)
    <2>1. host[job.item] = o /\ bin[job.item] = "absent" /\ o = "absent"
        BY <1>1, <1>2, <1>3, <1>4, SeenIsReal DEF Matches, Unknown
    <2> QED
        BY <1>1, <1>4, <2>1, VerifiedReports
<1>5. ASSUME o \in Value, NEW state \in {"verification_failed", "partial"},
             Record("failed", o, state)
      PROVE  Reports
    <2> DEFINE act == [Act EXCEPT !.state = "failed", !.after = o]
    <2>1. host[job.item] = o /\ o \in {"present", "absent"} /\ bin[job.item] = "absent"
        BY <1>1, <1>2, <1>3, <1>5, SeenIsReal
    <2>2. /\ "failed" \in ActionState /\ state \in RunState
          /\ o \in Observation \cup {NoObservation}
        BY <1>5 DEF ActionState, RunState, Observation
    <2>3. act.state = "failed" /\ act.after = o /\ act.before = Act.before
        BY <1>2 DEF Action
    <2>4. Evident(job.item, act)
        BY <1>1, <1>2, <2>1, <2>3 DEF Evident
    <2>5. Telling(job.item, act)
        BY <1>1, <2>1, <2>3 DEF Telling, AsRecorded, NoObservation
    <2> QED
        BY <1>1, <1>5, <2>2, <2>4, <2>5, RecordReports
<1> QED
    BY <1>1, <1>3, <1>4, <1>5, InterruptReports

\* An action that undo takes up is known to have been done, or tried.
LEMMA StartUndoReports ==
    ASSUME WInv, StartUndo
    PROVE  Reports
<1>1. CASE UndoNotStarted
    BY <1>1 DEF UndoNotStarted, Reports, journal
<1>2. CASE UndoStarted
    <2> DEFINE i == Highest(job.todo)
               act == [Manifest.acts[i] EXCEPT !.state = "undo_in_progress"]
    <2>1. /\ Papers /\ Job /\ job.mode = "undo" /\ job.step = "start" /\ job.run \in RunIndex
          /\ UNCHANGED machine
        BY <1>2 DEF WInv, UInv, IInv, TypeOK, Papers, Job, UndoStarted, JobInv
    <2>2. Revises(i, act) /\ i \in job.todo
        BY <1>2, <2>1, UndoStartedRevises
    <2> HIDE DEF i
    <2>3. Recoverable(Manifest.acts[i]) /\ i \in DOMAIN Manifest.acts
        BY <2>1, <2>2 DEF WInv, UInv, TodoInv, RecoverableItems
    <2>4. Manifest.acts[i] \in Action /\ i \in Item /\ Evident(i, Manifest.acts[i])
        BY <2>1, <2>3, ManifestTyped DEF Job, WInv, EvidenceInv, ActsOf, Manifest
    <2>5. act \in Action /\ Evident(i, act) /\ InFlight(act)
        BY <2>4 DEF Action, ActionState, Evident, InFlight
    <2> QED
        BY <2>1, <2>2, <2>4, <2>5 DEF Reports, Telling
<1> QED
    BY <1>1, <1>2 DEF StartUndo

\* What is undone is back as it was before, ...
LEMMA RestoredReports ==
    ASSUME WInv, Acting, job.mode = "undo", UNCHANGED machine,
           NEW value \in Value, Restored(value), value = Act.before,
           host[job.item] = value, bin[job.item] = "absent"
    PROVE  Reports
<1> DEFINE act == [Act EXCEPT !.state = "undone", !.after = value]
<1>1. /\ Papers /\ Job /\ job.item \in Item /\ Act \in Action /\ Evident(job.item, Act)
    BY ActingKnows
<1>2. Revises(job.item, act)
    BY <1>1, RestoredRevises
<1>3. /\ act.state = "undone" /\ act.after = value /\ act.before = Act.before /\ act \in Action
    BY <1>1 DEF Action, ActionState, Observation
<1> HIDE DEF act
<1>4. Evident(job.item, act)
    BY <1>1, <1>3 DEF Evident
<1>5. Telling(job.item, act)
    BY <1>3 DEF Telling, AsRecorded, Value, NoObservation
<1> QED
    BY <1>1, <1>2, <1>3, <1>4, <1>5 DEF Reports

\* ... and what undo leaves alone is as it had been left.
LEMMA CheckUndoReports ==
    ASSUME WInv, CheckUndo
    PROVE  Reports
<1>1. /\ Acting /\ job.mode = "undo" /\ job.step = "check" /\ ~IsTrash(job.item)
      /\ UNCHANGED machine
    BY DEF CheckUndo, Acting
<1>2. /\ MachineOK /\ job.item \in Item /\ Act \in Action /\ Evident(job.item, Act)
      /\ SoundAction(Act) /\ Act.state = "undo_in_progress" /\ CommandHost
    BY <1>1, ActingKnows DEF WInv, Mark
<1>3. PICK o \in Observation \cup {Raised} :
        /\ Sees(job.item, o)
        /\ \/ Interrupt
           \/ Record("undo_failed", Act.after, "undo_partial")
           \/ Matches(o, Act.before) /\ Restored(o)
           \/ UNCHANGED journal
    BY DEF CheckUndo
<1>4. CASE Matches(o, Act.before) /\ Restored(o)
    <2>1. o = Act.before /\ o \in Value
        BY <1>2, <1>4 DEF Matches, Action, Value, Unknown
    <2>2. host[job.item] = o /\ bin[job.item] = "absent"
        BY <1>1, <1>2, <1>3, <2>1, SeenIsReal
    <2> QED
        BY <1>1, <1>4, <2>1, <2>2, RestoredReports
<1>5. CASE Record("undo_failed", Act.after, "undo_partial")
    <2> DEFINE act == [Act EXCEPT !.state = "undo_failed", !.after = Act.after]
    <2>1. /\ "undo_failed" \in ActionState /\ "undo_partial" \in RunState
          /\ Act.after \in Observation \cup {NoObservation}
        BY <1>2 DEF ActionState, RunState, Action
    <2>2. /\ act.state = "undo_failed" /\ act.after = Act.after /\ act.before = Act.before
        BY <1>2 DEF Action
    <2>3. Evident(job.item, act) /\ Act.after # NoObservation
        BY <1>1, <1>2, <2>2 DEF Evident, SoundAction
    <2>4. Quiet => Telling(job.item, act)
        BY <1>1, <1>2, <2>2, <2>3
        DEF WInv, TruthInv, CheckInv, CommandHost, Telling, AsRecorded
    <2> QED
        BY <1>1, <1>5, <2>1, <2>3, <2>4, RecordReports
<1> QED
    BY <1>1, <1>3, <1>4, <1>5, InterruptReports DEF Reports, journal

\* A command that puts its target back is believed once it is seen.
LEMMA VerifyUndoReports ==
    ASSUME WInv, VerifyUndo
    PROVE  Reports
<1>1. Acting /\ job.mode = "undo" /\ ~IsTrash(job.item) /\ UNCHANGED machine
    BY DEF VerifyUndo, Acting
<1>2. MachineOK /\ job.item \in Item /\ Evident(job.item, Act) /\ CommandHost
    BY <1>1, ActingKnows DEF WInv
<1>3. Interrupt \/ (Sees(job.item, "present") /\ Restored("present"))
    BY DEF VerifyUndo
<1>4. CASE Sees(job.item, "present") /\ Restored("present")
    <2>1. host[job.item] = "present" /\ bin[job.item] = "absent" /\ "present" \in Value
        BY <1>1, <1>2, <1>4, SeenIsReal DEF Value
    <2>2. "present" = Act.before
        BY <1>1, <1>2 DEF Evident
    <2> QED
        BY <1>1, <1>4, <2>1, <2>2, RestoredReports
<1> QED
    BY <1>1, <1>3, <1>4, InterruptReports

\* A move is believed once the same bundle is at its destination and nothing
\* at its source.
LEMMA MoveReports ==
    ASSUME WInv, CheckMove \/ VerifyMove
    PROVE  Reports
<1>1. Acting /\ IsTrash(job.item) /\ UNCHANGED machine
    BY DEF CheckMove, VerifyMove, Acting
<1>2. /\ MachineOK /\ job.item \in Item /\ Act \in Action /\ Evident(job.item, Act)
      /\ job.mode \in {"apply", "undo"} /\ SoundAction(Act) /\ Act.state = Mark
    BY <1>1, ActingKnows
<1>3. \/ Interrupt
      \/ UNCHANGED journal
      \/ /\ MoveDestination = MoveExpects /\ MoveSource = "absent"
         /\ IF job.mode = "apply" THEN Verified(MoveDestination) ELSE Restored(MoveDestination)
    BY DEF CheckMove, VerifyMove, Moved
<1>4. ASSUME MoveDestination = MoveExpects, MoveSource = "absent",
             job.mode = "apply", Verified(MoveDestination)
      PROVE  Reports
    <2>1. /\ bin[job.item] = Act.before /\ host[job.item] = "absent" /\ Act.before \in Value
          /\ Verified(Act.before)
        BY <1>2, <1>4 DEF MoveDestination, MoveSource, MoveExpects, Action
    <2> QED
        BY <1>1, <1>4, <2>1, VerifiedReports
<1>5. ASSUME MoveDestination = MoveExpects, MoveSource = "absent",
             job.mode = "undo", Restored(MoveDestination)
      PROVE  Reports
    <2>1. /\ host[job.item] = Act.after /\ bin[job.item] = "absent" /\ Restored(Act.after)
        BY <1>2, <1>5 DEF MoveDestination, MoveSource, MoveExpects
    <2>2. Act.after = Act.before /\ Act.before \in Value
        BY <1>1, <1>2, <1>5 DEF Mark, Evident, SoundAction, Action
    <2> QED
        BY <1>1, <1>5, <2>1, <2>2, RestoredReports
<1> QED
    BY <1>1, <1>2, <1>3, <1>4, <1>5, InterruptReports DEF Reports, journal

-----------------------------------------------------------------------------
(* What a classification records.                                          *)

\* What a job that classifies knows of the action in flight.
LEMMA ClassifyKnows ==
    ASSUME WInv, job.step = "classify"
    PROVE  /\ Papers /\ Job /\ MachineOK /\ job.item \in Item /\ Act \in Action
           /\ InFlight(Act) /\ Evident(job.item, Act) /\ SoundAction(Act)
<1>1. Papers /\ Job /\ MachineOK
    BY DEF WInv, UInv, IInv, TypeOK, Papers, Job
<1>2. job.mode = "undo"
    BY <1>1 DEF Job, JobOK, JobInv, AnyJob
<1>3. job.item \in DOMAIN Manifest.acts /\ InFlight(Act) /\ job.run \in RunIndex
    BY <1>1, <1>2 DEF Job, JobInv, InFlightItems, Act
<1>4. Act \in Action /\ job.item \in Item
    BY <1>1, <1>2, <1>3, ManifestTyped DEF Job, Act
<1>5. Evident(job.item, Act) /\ SoundAction(Act)
    BY <1>3 DEF WInv, UInv, EvidenceInv, ActsOf, AllSound, Sound, Act, Manifest
<1> QED
    BY <1>1, <1>3, <1>4, <1>5

\* A classification reports, if it is evident and true.
LEMMA ClassifiedReports ==
    ASSUME WInv, job.step = "classify", UNCHANGED machine, NEW new \in Action,
           JournalClassified(new), Evident(job.item, new), Telling(job.item, new)
    PROVE  Reports
<1>1. Papers /\ Job /\ job.item \in Item
    BY ClassifyKnows
<1>2. UNCHANGED journal \/ Revises(job.item, new)
    BY <1>1, ClassifiedRevises
<1> QED
    BY <1>1, <1>2 DEF Reports, journal

\* Of a package or service: whether it is there.
LEMMA ClassifyCommandReports ==
    ASSUME WInv, ClassifyCommand
    PROVE  Reports
<1>1. job.step = "classify" /\ ~IsTrash(job.item) /\ UNCHANGED machine
    BY DEF ClassifyCommand
<1>2. /\ MachineOK /\ job.item \in Item /\ Act \in Action /\ InFlight(Act)
      /\ Evident(job.item, Act) /\ SoundAction(Act) /\ CommandHost
    BY <1>1, ClassifyKnows DEF WInv
<1> DEFINE expected == IF Act.after = NoObservation THEN "absent" ELSE Act.after
<1>3. PICK o \in Observation \cup {Raised} :
        /\ Sees(job.item, o)
        /\ \/ UNCHANGED journal
           \/ /\ o # Raised
              /\ JournalClassified(Classified(Act, Matches(o, Act.before),
                                              Matches(o, expected), o))
    BY DEF ClassifyCommand
<1> DEFINE b == Matches(o, Act.before)
           a == Matches(o, expected)
           new == Classified(Act, b, a, o)
<1>4. CASE o # Raised /\ JournalClassified(new)
    <2>1. o \in Observation /\ b \in BOOLEAN /\ a \in BOOLEAN
        BY <1>4 DEF Matches
    <2>2. new \in Action
        BY <1>2, <2>1, ClassifiedTyped
    <2>3. /\ b <=> o = Act.before
          /\ a <=> o = expected
          /\ Act.before = "present" /\ expected \in {"present", "absent"}
        BY <1>1, <1>2 DEF Evident, Matches, Unknown
    <2>4. o \in {"present", "absent"} => host[job.item] = o /\ bin[job.item] = "absent"
        BY <1>1, <1>2, <1>3, SeenIsReal DEF Value
    <2>5. /\ Act.state = "in_progress" => expected = "absent"
          /\ Act.state = "undo_in_progress" => expected = Act.after
        BY <1>2 DEF Evident, SoundAction
    <2> HIDE DEF b, a, expected
    <2>6. Evident(job.item, new) /\ Telling(job.item, new)
        <3>1. CASE Act.state = "in_progress" /\ a
            BY <1>1, <1>2, <2>3, <2>4, <2>5, <3>1
            DEF Classified, Action, Evident, Telling, AsRecorded, NoObservation
        <3>2. CASE Act.state = "in_progress" /\ ~a /\ b
            BY <1>1, <1>2, <2>3, <2>4, <2>5, <3>2
            DEF Classified, Action, Evident, Telling, AsRecorded, NoObservation
        <3>3. CASE Act.state = "undo_in_progress" /\ b
            BY <1>1, <1>2, <2>3, <2>4, <2>5, <3>3
            DEF Classified, Action, Evident, Telling, AsRecorded, NoObservation
        <3>4. CASE Act.state = "undo_in_progress" /\ ~b /\ a
            BY <1>1, <1>2, <2>3, <2>4, <2>5, <3>4
            DEF Classified, Action, Evident, Telling, AsRecorded, NoObservation
        <3>5. CASE ~a /\ ~b
            BY <1>2, <3>5 DEF Classified, Telling, InFlight
        <3> QED
            BY <1>2, <3>1, <3>2, <3>3, <3>4, <3>5 DEF InFlight
    <2> QED
        BY <1>1, <1>4, <2>2, <2>6, ClassifiedReports
<1> QED
    BY <1>3, <1>4 DEF Reports, journal

\* Of an application: at which of its two paths the bundle is.
LEMMA ClassifyTrashReports ==
    ASSUME WInv, ClassifyTrash
    PROVE  Reports
<1>1. job.step = "classify" /\ IsTrash(job.item) /\ UNCHANGED machine
    BY DEF ClassifyTrash
<1>2. /\ MachineOK /\ job.item \in Item /\ Act \in Action /\ InFlight(Act)
      /\ Evident(job.item, Act) /\ SoundAction(Act)
    BY <1>1, ClassifyKnows
<1> DEFINE applied == IF Act.after = NoObservation THEN Act.before ELSE Act.after
<1>3. PICK origin \in Observation, trash \in Observation :
        /\ Probes(origin, trash)
        /\ LET b == Matches(origin, Act.before) /\ trash = "absent"
               a == origin = "absent" /\ Matches(trash, applied)
           IN  JournalClassified(Classified(Act, b, a, IF b THEN origin ELSE trash))
    BY DEF ClassifyTrash
<1> DEFINE b == Matches(origin, Act.before) /\ trash = "absent"
           a == origin = "absent" /\ Matches(trash, applied)
           value == IF b THEN origin ELSE trash
           new == Classified(Act, b, a, value)
<1>4. applied = Act.before /\ Act.before \in Value /\ Act.before # "absent"
    BY <1>1, <1>2 DEF Evident, Action
<1>5. /\ b <=> origin = Act.before /\ trash = "absent"
      /\ a <=> origin = "absent" /\ trash = Act.before
    BY <1>4 DEF Matches, Value, Unknown
<1>6. /\ origin # Unknown => origin = host[job.item]
      /\ trash # Unknown => trash = bin[job.item]
    BY <1>3 DEF Probes
<1>7. value \in Observation /\ b \in BOOLEAN /\ a \in BOOLEAN
    BY <1>5
<1>8. /\ b => value = Act.before /\ host[job.item] = Act.before /\ bin[job.item] = "absent"
      /\ ~b /\ a => value = Act.before /\ host[job.item] = "absent" /\ bin[job.item] = Act.before
      /\ a => ~b
    BY <1>4, <1>5, <1>6 DEF Value, Unknown
<1>9. Act.state = "undo_in_progress" => Act.after = Act.before
    BY <1>1, <1>2 DEF Evident, SoundAction
<1>10. JournalClassified(new)
    BY <1>3
<1> HIDE DEF b, a, value
<1>11. new \in Action
    BY <1>2, <1>7, ClassifiedTyped
<1>12. Evident(job.item, new) /\ Telling(job.item, new)
    <2>1. CASE Act.state = "in_progress" /\ a
        BY <1>1, <1>2, <1>4, <1>8, <2>1
        DEF Classified, Action, Evident, Telling, AsRecorded, Value, NoObservation
    <2>2. CASE Act.state = "in_progress" /\ ~a /\ b
        BY <1>1, <1>2, <1>4, <1>8, <2>2
        DEF Classified, Action, Evident, Telling, AsRecorded, Value, NoObservation
    <2>3. CASE Act.state = "undo_in_progress" /\ b
        BY <1>1, <1>2, <1>4, <1>8, <1>9, <2>3
        DEF Classified, Action, Evident, Telling, AsRecorded, Value, NoObservation
    <2>4. CASE Act.state = "undo_in_progress" /\ ~b /\ a
        BY <1>1, <1>2, <1>4, <1>8, <1>9, <2>4
        DEF Classified, Action, Evident, Telling, AsRecorded, Value, NoObservation
    <2>5. CASE ~a /\ ~b
        BY <1>2, <2>5 DEF Classified, Telling, InFlight
    <2> QED
        BY <1>2, <2>1, <2>2, <2>3, <2>4, <2>5 DEF InFlight
<1> QED
    BY <1>1, <1>10, <1>11, <1>12, ClassifiedReports

\* Every step of a job reports, if it journals at all.
LEMMA JobStepReports ==
    ASSUME WInv, JobStep
    PROVE  Reports
<1>1. CASE RunCommand \/ Rename
    BY <1>1 DEF RunCommand, Rename, Reports, journal
<1> QED
    BY <1>1, StartActionReports, CheckBeforeReports, VerifyAfterReports, StartUndoReports,
       CheckUndoReports, VerifyUndoReports, MoveReports, ClassifyCommandReports,
       ClassifyTrashReports DEF JobStep

-----------------------------------------------------------------------------
(* New runs.                                                               *)

\* A new run is of the reviewed plan, whose items it finds as the host has them.
LEMMA BeginApplyEffect ==
    ASSUME WInv, NEW c \in Command, BeginApply(c)
    PROVE  LET new == Len(runs) + 1
           IN  /\ RunIndex' = RunIndex \cup {new} /\ new \notin RunIndex /\ Active' = new
               /\ \A r \in RunIndex : runs'[r] = runs[r]
               /\ DOMAIN runs'[new].acts = PlanItems(plan)
               /\ plan \in 1..Len(PlanSize) /\ PlanItems(plan) \subseteq Item
               /\ 1 \in PlanItems(plan)
               /\ \A i \in PlanItems(plan) :
                     runs'[new].acts[i] = [state |-> "pending", before |-> host[i],
                                           after |-> NoObservation]
               /\ job' = [Idle EXCEPT !.mode = "apply", !.step = "start", !.item = 1,
                                      !.run = new, !.reviewed = consent[c].items]
<1> DEFINE new == Len(runs) + 1
           acts == [i \in PlanItems(plan) |-> [state |-> "pending", before |-> host[i],
                                               after |-> NoObservation]]
           m == [plan |-> plan, state |-> "prepared", acts |-> acts]
<1>1. /\ runs' = Append(runs, m) /\ recency' = Append(recency, new)
      /\ plan = consent[c].subject
      /\ job' = [Idle EXCEPT !.mode = "apply", !.step = "start", !.item = 1,
                             !.run = new, !.reviewed = consent[c].items]
    BY DEF BeginApply, MayApply
<1>2. /\ runs \in Seq(AnyManifest) /\ Len(runs) \in Nat /\ RunIndex = 1..Len(runs)
      /\ recency \in Seq(RunIndex)
    BY DEF WInv, UInv, IInv, TypeOK, JournalOK, RunIndex
<1>3. plan \in 1..Len(PlanSize)
    BY <1>1 DEF BeginApply, WInv, UInv, IInv, ConsentInv
<1>4. PlanItems(plan) \subseteq Item /\ 1 \in PlanItems(plan)
    BY <1>3, PlanSizeAssumption, KindAssumption DEF PlanItems, Item
<1>5. /\ RunIndex' = 1..new /\ runs'[new] = m /\ \A r \in RunIndex : runs'[r] = runs[r]
    <2>1. runs \in Seq(AnyManifest \cup {m}) /\ m \in AnyManifest \cup {m}
        BY <1>2
    <2> HIDE DEF m
    <2> QED
        BY <1>1, <1>2, <2>1 DEF RunIndex
<1>6. Active' = new
    <2>1. recency \in Seq(1..new) /\ new \in 1..new
        BY <1>2
    <2>2. recency' # <<>> /\ recency'[Len(recency')] = new
        BY <1>1, <2>1
    <2> QED
        BY <2>2 DEF Active
<1>7. RunIndex' = RunIndex \cup {new} /\ new \notin RunIndex
    BY <1>2, <1>5
<1>8. /\ DOMAIN runs'[new].acts = PlanItems(plan)
      /\ \A i \in PlanItems(plan) : runs'[new].acts[i] = acts[i]
    BY <1>5
<1> HIDE DEF new
<1> QED
    BY <1>1, <1>3, <1>4, <1>5, <1>6, <1>7, <1>8 DEF new

\* What it finds is evident: revalidation saw every target there.
LEMMA BeginApplyEvident ==
    ASSUME WInv, NEW c \in Command, BeginApply(c), NEW i \in PlanItems(plan)
    PROVE  LET act == [state |-> "pending", before |-> host[i], after |-> NoObservation]
           IN  Evident(i, act) /\ Telling(i, act)
<1>1. i \in Item /\ MachineOK /\ CommandHost
    BY BeginApplyEffect DEF WInv, UInv, IInv, TypeOK
<1>2. (CASE Kind[i] = "package" -> host[i] = "present"
         [] Kind[i] = "service" -> Truth(i) = "present"
         [] OTHER -> host[i] # "absent" /\ bin[i] = "absent")
    BY DEF BeginApply, MayApply, Revalidates
<1>3. Kind[i] \in {"trash", "package", "service"}
    BY <1>1, KindAssumption DEF Item
<1>4. IF IsTrash(i) THEN host[i] # "absent" /\ bin[i] = "absent"
      ELSE host[i] = "present" /\ bin[i] = "absent"
    BY <1>1, <1>2, <1>3 DEF IsTrash, Truth, Unknown, CommandHost
<1> QED
    BY <1>4 DEF Evident, Telling, AsBefore, NoObservation

-----------------------------------------------------------------------------
(* The host.                                                               *)

\* Whatever a command does, packages and services are there or not.
LEMMA CommandHostAfter ==
    ASSUME CommandHost, NEW i \in Item, NEW value \in {"present", "absent"},
           NEW j \in Item, ~IsTrash(j)
    PROVE  HostAfter(i, value)[j] \in {"present", "absent"}
BY DEF CommandHost, HostAfter

\* And whatever the user or MacWise does.
LEMMA NextKeepsCommandHost ==
    ASSUME WInv, [Next]_vars
    PROVE  CommandHost'
<1>1. CommandHost /\ MachineOK /\ Papers /\ Job
    BY DEF WInv, UInv, IInv, TypeOK, Papers, Job
<1>2. CASE UNCHANGED machine
    BY <1>1, <1>2 DEF machine, CommandHost
<1>3. CASE RunCommand
    <2>1. job.item \in Item
        BY <1>1, <1>3, ActingTyped DEF RunCommand, Acting
    <2>2. \/ host' = host
          \/ host' = HostAfter(job.item, CommandGoal)
        BY <1>3 DEF RunCommand
    <2>3. CommandGoal \in {"present", "absent"} /\ UNCHANGED <<bin, orphan>>
        BY <1>3 DEF RunCommand, CommandGoal
    <2> QED
        BY <1>1, <2>1, <2>2, <2>3, CommandHostAfter DEF CommandHost
<1>4. CASE Rename
    <2>1. IsTrash(job.item) /\ UNCHANGED orphan
        BY <1>4 DEF Rename
    <2>2. \A j \in Item \ {job.item} : host'[j] = host[j] /\ bin'[j] = bin[j]
        BY <1>1, <1>4 DEF Rename, MachineOK
    <2> QED
        BY <1>1, <2>1, <2>2 DEF CommandHost
<1>5. CASE CrashAlone
    BY <1>1, <1>5 DEF CrashAlone, CommandGoal, CommandHost
<1>6. CASE OrphanEnds
    <2>1. PICK o \in orphan : /\ host' = IF Works(o.item, o.value)
                                         THEN HostAfter(o.item, o.value) ELSE host
                              /\ orphan' = orphan \ {o} /\ UNCHANGED bin
        BY <1>6 DEF OrphanEnds, journal
    <2>2. o.item \in Item /\ o.value \in {"present", "absent"}
        BY <1>1, <2>1 DEF MachineOK, CommandHost
    <2> QED
        BY <1>1, <2>1, <2>2, CommandHostAfter DEF CommandHost
<1>7. CASE Drift
    <2>1. PICK i \in Item :
            \/ \E value \in {"present", "absent"} : host' = HostAfter(i, value) /\ UNCHANGED bin
            \/ /\ IsTrash(i)
               /\ \/ \E value : host' = HostAfter(i, value) /\ UNCHANGED bin
                  \/ bin' = [bin EXCEPT ![i] = "absent"] /\ UNCHANGED host
                  \/ host' = [host EXCEPT ![i] = bin[i]] /\ bin' = [bin EXCEPT ![i] = "absent"]
        <3>1. \A i \in Item : Kind[i] \in {"trash", "package", "service"}
            BY KindAssumption DEF Item
        <3> QED
            BY <1>7, <3>1 DEF Drift, IsTrash
    <2>2. UNCHANGED orphan
        BY <1>7 DEF Drift
    <2>3. CASE \E value \in {"present", "absent"} :
                    host' = HostAfter(i, value) /\ UNCHANGED bin
        BY <1>1, <2>2, <2>3, CommandHostAfter DEF CommandHost
    <2>4. CASE IsTrash(i) /\ \E value : host' = HostAfter(i, value) /\ UNCHANGED bin
        BY <1>1, <2>2, <2>4 DEF CommandHost, HostAfter
    <2>5. CASE /\ IsTrash(i)
               /\ \/ bin' = [bin EXCEPT ![i] = "absent"] /\ UNCHANGED host
                  \/ host' = [host EXCEPT ![i] = bin[i]] /\ bin' = [bin EXCEPT ![i] = "absent"]
        BY <1>1, <2>2, <2>5 DEF CommandHost, MachineOK
    <2> QED
        BY <2>1, <2>3, <2>4, <2>5
<1> QED
    BY <1>2, <1>3, <1>4, <1>5, <1>6, <1>7
    DEF Next, vars, JobStep, AddPlan, ReviewApply, BeginApply, RefuseApply, ReviewUndo,
        BeginUndo, RefuseUndo, StartAction, CheckBefore, VerifyAfter, ClassifyCommand,
        ClassifyTrash, StartUndo, UndoStarted, UndoNotStarted, CheckUndo, VerifyUndo,
        CheckMove, VerifyMove, Crash

-----------------------------------------------------------------------------
(* The evidence.                                                           *)

\* Every revision that is journaled, and every new run, is backed by evidence.
LEMMA NextKeepsEvidence ==
    ASSUME WInv, [Next]_vars
    PROVE  EvidenceInv'
<1>1. CASE UNCHANGED runs
    BY <1>1 DEF WInv, EvidenceInv, RunIndex, ActsOf
<1>2. CASE JobStep
    <2>1. UNCHANGED runs \/ \E i \in Item, act \in Action : Revises(i, act) /\ Evident(i, act)
        BY <1>2, JobStepReports DEF Reports
    <2> QED
        BY <1>1, <2>1, RevisionKeepsEvidence DEF WInv
<1>3. ASSUME NEW c \in Command, BeginApply(c) PROVE EvidenceInv'
    <2> DEFINE new == Len(runs) + 1
    <2>1. /\ RunIndex' = RunIndex \cup {new} /\ \A r \in RunIndex : runs'[r] = runs[r]
          /\ DOMAIN runs'[new].acts = PlanItems(plan)
          /\ \A i \in PlanItems(plan) :
                runs'[new].acts[i] = [state |-> "pending", before |-> host[i],
                                      after |-> NoObservation]
        BY <1>3, BeginApplyEffect
    <2> HIDE DEF new
    <2>2. \A i \in PlanItems(plan) : Evident(i, runs'[new].acts[i])
        BY <1>3, <2>1, BeginApplyEvident
    <2>3. \A r \in RunIndex : \A i \in DOMAIN runs[r].acts : Evident(i, runs[r].acts[i])
        BY DEF WInv, EvidenceInv, ActsOf
    <2> QED
        BY <2>1, <2>2, <2>3 DEF EvidenceInv, ActsOf
<1> QED
    BY <1>1, <1>2, <1>3
    DEF Next, vars, journal, AddPlan, ReviewApply, RefuseApply, ReviewUndo, BeginUndo,
        RefuseUndo, Crash, CrashAlone, OrphanEnds, Drift

\* Apply goes through its actions in order, and tries none before its turn.
LEMMA NextKeepsApply ==
    ASSUME WInv, [Next]_vars
    PROVE  ApplyInv'
<1>1. Papers /\ Job /\ ApplyInv /\ job \in AnyJob
    BY DEF WInv, UInv, IInv, TypeOK, Papers, Job, JobOK
<1>2. CASE job'.mode # "apply"
    BY <1>2 DEF ApplyInv
<1>3. CASE UNCHANGED <<runs, job>>
    BY <1>1, <1>3 DEF ApplyInv, Manifest, Acting
<1>4. CASE /\ UNCHANGED runs
           /\ \E step \in {"act", "verify"}, ok \in BOOLEAN :
                 job' = [job EXCEPT !.step = step, !.ok = ok]
    <2>1. job'.mode = job.mode /\ job'.run = job.run /\ job'.item = job.item /\ Acting'
        BY <1>1, <1>4 DEF AnyJob, Acting
    <2> QED
        BY <1>1, <1>4, <2>1 DEF ApplyInv, Manifest
<1>5. CASE StartAction
    <2>1. job.mode = "apply" /\ job.item \in DOMAIN Manifest.acts /\ job.run \in RunIndex
        BY <1>1, <1>5 DEF StartAction, Job, JobInv
    <2>2. /\ Act \in Action /\ Manifest.acts \in [1..Len(Manifest.acts) -> Action]
          /\ DOMAIN Manifest.acts = 1..Len(Manifest.acts) /\ Len(Manifest.acts) \in Nat
        BY <1>1, <2>1, ManifestTyped DEF Job, Act
    <2>3. Act.after \in Observation \cup {NoObservation}
        BY <2>2 DEF Action
    <2>4. /\ "in_progress" \in ActionState /\ "in_progress" \in RunState
          /\ Record("in_progress", Act.after, "in_progress")
        BY <1>5 DEF ActionState, RunState, StartAction
    <2>5. Revises(job.item, [Act EXCEPT !.state = "in_progress", !.after = Act.after])
        BY <1>1, <2>1, <2>3, <2>4, RecordRevises
    <2>6. /\ job'.mode = "apply" /\ job'.run = job.run /\ job'.item = job.item
          /\ Acting'
        BY <1>1, <1>5, <2>1 DEF StartAction, Goto, AnyJob, Acting
    <2>7. ~Acting
        BY <1>5 DEF StartAction, Acting
    <2>8. ASSUME NEW j \in DOMAIN Manifest.acts
          PROVE  IF j < job.item THEN runs'[job.run].acts[j].state = "verified"
                 ELSE runs'[job.run].acts[j].state = "pending" \/ j = job.item
        <3> DEFINE old == Manifest.acts[j]
                   new == runs'[job.run].acts[j]
        <3>1. old \in Action /\ j \in Nat /\ job.item \in Nat
            BY <2>1, <2>2
        <3>2. IF j < job.item THEN old.state = "verified" ELSE old.state = "pending"
            BY <1>1, <2>1, <2>7 DEF ApplyInv
        <3>3. CASE j = job.item
            BY <3>1, <3>3
        <3>4. CASE j # job.item
            <4>1. new = old
                BY <2>1, <2>5, <3>4 DEF Revises
            <4> QED
                BY <3>2, <4>1
        <3> QED
            BY <3>3, <3>4
    <2> QED
        BY <2>5, <2>6, <2>8 DEF ApplyInv, Manifest, Revises
<1>6. ASSUME Acting, job.mode = "apply", NEW value \in Value, Verified(value), ~Stop
      PROVE  ApplyInv'
    <2>1. /\ Act \in Action /\ job.item \in DOMAIN Manifest.acts /\ job.run \in RunIndex
          /\ Manifest.acts \in [1..Len(Manifest.acts) -> Action]
          /\ DOMAIN Manifest.acts = 1..Len(Manifest.acts) /\ Len(Manifest.acts) \in Nat
        BY <1>1, <1>6, ActingTyped, ManifestTyped DEF Job
    <2>2. Revises(job.item, [Act EXCEPT !.state = "verified", !.after = value])
        BY <1>1, <1>6, VerifiedRevises
    <2>3. job' = [job EXCEPT !.step = "start", !.item = @ + 1]
        BY <1>6 DEF Verified
    <2>4. job'.run = job.run /\ job'.item = job.item + 1
        BY <1>1, <2>3 DEF AnyJob
    <2>5. ASSUME NEW j \in DOMAIN Manifest.acts
          PROVE  IF j < job.item + 1 THEN runs'[job.run].acts[j].state = "verified"
                 ELSE runs'[job.run].acts[j].state = "pending"
        <3> DEFINE old == Manifest.acts[j]
                   new == runs'[job.run].acts[j]
        <3>1. old \in Action /\ j \in Nat /\ job.item \in Nat
            BY <2>1
        <3>2. IF j < job.item THEN old.state = "verified"
              ELSE old.state = "pending" \/ j = job.item
            BY <1>1, <1>6 DEF ApplyInv
        <3>3. CASE j = job.item
            <4>1. new.state = "verified"
                BY <2>1, <2>2, <3>3 DEF Revises, Action
            <4> QED
                BY <3>1, <3>3, <4>1
        <3>4. CASE j # job.item
            <4>1. new = old
                BY <1>6, <2>2, <3>4 DEF Revises
            <4>2. j < job.item + 1 <=> j < job.item
                BY <3>1, <3>4
            <4> QED
                BY <3>2, <3>4, <4>1, <4>2
        <3> QED
            BY <3>3, <3>4
    <2> QED
        BY <2>2, <2>4, <2>5 DEF ApplyInv, Manifest, Revises
<1>7. ASSUME NEW c \in Command, BeginApply(c) PROVE ApplyInv'
    <2> DEFINE new == Len(runs) + 1
    <2>1. /\ DOMAIN runs'[new].acts = PlanItems(plan)
          /\ \A i \in PlanItems(plan) :
                runs'[new].acts[i] = [state |-> "pending", before |-> host[i],
                                      after |-> NoObservation]
          /\ job'.item = 1 /\ job'.run = new
        BY <1>7, BeginApplyEffect DEF Idle
    <2> HIDE DEF new
    <2>2. \A i \in PlanItems(plan) : ~(i < 1)
        <3>1. PlanItems(plan) \subseteq Item
            BY <1>7, BeginApplyEffect
        <3>2. Item = 1..Len(Kind) /\ Len(Kind) \in Nat
            BY KindAssumption DEF Item
        <3> QED
            BY <3>1, <3>2
    <2>3. ASSUME NEW i \in PlanItems(plan) PROVE runs'[new].acts[i].state = "pending"
        <3>1. runs'[new].acts[i] = [state |-> "pending", before |-> host[i],
                                    after |-> NoObservation]
            BY <2>1
        <3> QED
            BY <3>1
    <2>4. Manifest' = runs'[new]
        BY <2>1 DEF Manifest
    <2> QED
        BY <2>1, <2>2, <2>3, <2>4 DEF ApplyInv
<1>8. CASE Stop
    BY <1>8 DEF Stop, Idle, ApplyInv
<1>9. CASE JobStep
    <2>1. CASE CheckBefore \/ CheckMove \/ RunCommand \/ Rename
        <3> DEFINE GoesOn == /\ UNCHANGED runs
                             /\ \E step \in {"act", "verify"}, ok \in BOOLEAN :
                                   job' = [job EXCEPT !.step = step, !.ok = ok]
        <3>1. Goto("act") /\ UNCHANGED journal => GoesOn
            <4>1. Goto("act") => job' = [job EXCEPT !.step = "act", !.ok = job.ok]
                BY <1>1 DEF Goto, AnyJob
            <4> QED
                BY <1>1, <4>1 DEF AnyJob, journal
        <3>2. RunCommand \/ Rename => GoesOn
            BY DEF RunCommand, Rename, journal
        <3> HIDE DEF GoesOn
        <3>3. Stop \/ GoesOn
            BY <2>1, <3>1, <3>2 DEF CheckBefore, CheckMove, Interrupt
        <3> QED
            BY <1>4, <1>8, <3>3 DEF GoesOn
    <2>2. CASE VerifyAfter
        <3>1. Acting /\ job.mode = "apply"
            BY <2>2 DEF VerifyAfter, Acting
        <3>2. Stop \/ \E value \in Value : Verified(value)
            BY <2>2 DEF VerifyAfter, Interrupt
        <3> QED
            BY <1>6, <1>8, <3>1, <3>2
    <2>3. CASE VerifyMove /\ job.mode = "apply"
        <3>1. Acting /\ bin[job.item] \in Value
            BY <1>1, <2>3, ActingTyped
            DEF VerifyMove, Acting, WInv, UInv, IInv, TypeOK, MachineOK
        <3>2. Stop \/ Verified(bin[job.item])
            BY <2>3 DEF VerifyMove, Interrupt, MoveDestination
        <3> QED
            BY <1>6, <1>8, <2>3, <3>1, <3>2
    <2>4. CASE job.mode # "apply"
        <3>1. job'.mode = job.mode \/ Stop
            <4>1. \A step : Goto(step) => job'.mode = job.mode
                BY <1>1 DEF Goto, AnyJob
            <4>2. \A v : Restored(v) => job'.mode = job.mode \/ Stop
                BY <1>1 DEF Restored, AnyJob
            <4>3. \A m : Proceed(m) => job'.mode = job.mode \/ Stop
                BY <1>1 DEF Proceed, AnyJob
            <4>4. \A new : JournalClassified(new) => job'.mode = job.mode \/ Stop
                BY <4>3 DEF JournalClassified
            <4>5. UndoStarted \/ RunCommand \/ Rename => job'.mode = job.mode
                BY <1>1 DEF UndoStarted, RunCommand, Rename, AnyJob
            <4> QED
                BY <1>9, <2>4, <4>1, <4>2, <4>4, <4>5
                DEF JobStep, StartAction, CheckBefore, VerifyAfter, ClassifyCommand,
                    ClassifyTrash, StartUndo, UndoNotStarted, CheckUndo, VerifyUndo, CheckMove,
                    VerifyMove, Interrupt
        <3> QED
            BY <1>2, <1>8, <2>4, <3>1
    <2>5. ~(job.mode = "apply" /\ (ClassifyCommand \/ ClassifyTrash \/ StartUndo
                                   \/ CheckUndo \/ VerifyUndo))
        BY <1>1 DEF ClassifyCommand, ClassifyTrash, StartUndo, UndoStarted, UndoNotStarted,
                    CheckUndo, VerifyUndo, Job, JobInv
    <2> QED
        BY <1>5, <1>9, <2>1, <2>2, <2>3, <2>4, <2>5 DEF JobStep
<1>10. CASE \E c \in Command : BeginUndo(c)
    <2>1. job'.mode = "undo"
        BY <1>10 DEF BeginUndo, Idle
    <2> QED
        BY <1>2, <2>1
<1> QED
    BY <1>3, <1>7, <1>8, <1>9, <1>10
    DEF Next, vars, journal, AddPlan, ReviewApply, RefuseApply, ReviewUndo,
        RefuseUndo, Crash, CrashAlone, OrphanEnds, Drift

-----------------------------------------------------------------------------
(* The truth, as long as only MacWise changes the host.                    *)

\* What has been quiet until now was quiet before, and this step is not the
\* user's, nor does it leave a command behind.
LEMMA QuietBefore ==
    ASSUME WInv, [Next]_vars, Quiet'
    PROVE  Quiet /\ ~Drift /\ ~CrashAlone
<1> DEFINE Kinds == {"crashes", "sights", "commands", "drifts", "orphans"}
<1>1. spent \in [Kinds -> Nat]
    BY BudgetAssumption DEF WInv, UInv, IInv, TypeOK
<1>2. ASSUME NEW kind \in Kinds, Spend(kind)
      PROVE  Quiet /\ kind # "drifts" /\ kind # "orphans"
    <2>1. spent' = [spent EXCEPT ![kind] = @ + 1]
        BY <1>2 DEF Spend
    <2>2. /\ spent'[kind] = spent[kind] + 1 /\ spent[kind] \in Nat
          /\ \A other \in Kinds \ {kind} : spent'[other] = spent[other]
        BY <1>1, <2>1
    <2>3. kind # "drifts" /\ kind # "orphans"
        BY <2>2 DEF Quiet
    <2> QED
        BY <2>2, <2>3 DEF Quiet
<1>3. UNCHANGED spent => Quiet
    BY DEF Quiet
<1>4. ~Drift /\ ~CrashAlone
    BY <1>2 DEF Drift, CrashAlone
<1>5. \A i, o : Sees(i, o) => UNCHANGED spent \/ Spend("sights")
    BY DEF Sees
<1>6. \A o, t : Probes(o, t) => UNCHANGED spent \/ Spend("sights")
    BY DEF Probes
<1>7. UNCHANGED spent \/ \E kind \in Kinds : Spend(kind)
    BY <1>4, <1>5, <1>6
    DEF Next, vars, JobStep, AddPlan, ReviewApply, BeginApply, RefuseApply, ReviewUndo,
        BeginUndo, RefuseUndo, StartAction, CheckBefore, VerifyAfter, ClassifyCommand,
        ClassifyTrash, StartUndo, UndoStarted, UndoNotStarted, CheckUndo, VerifyUndo,
        CheckMove, VerifyMove, Crash, OrphanEnds, RunCommand, Rename
<1> QED
    BY <1>2, <1>3, <1>4, <1>7

\* The job acts on the newest run, and on an action that it says is in flight.
LEMMA ActsOnActive ==
    ASSUME WInv, Quiet, Acting
    PROVE  /\ job.run = Active /\ ActsOf(Active) = Manifest.acts /\ Active # 0
           /\ \A j \in DOMAIN Manifest.acts : Telling(j, Manifest.acts[j])
<1>1. job.run = Active /\ job.run \in RunIndex
    BY ActingKnows DEF Job, JobInv, MarkInv
<1>2. ActsOf(Active) = Manifest.acts /\ Active # 0
    BY <1>1 DEF ActsOf, Manifest, RunIndex, WInv, UInv, IInv, TypeOK, JournalOK
<1> QED
    BY <1>1, <1>2 DEF WInv, TruthInv, AllTelling

\* A command changes its own target, of which nothing is claimed, and stops the
\* service of a formula it removes, which had been stopped before.
LEMMA RunCommandTruth ==
    ASSUME WInv, Quiet, RunCommand
    PROVE  SoleRun' /\ AllTelling'
<1>1. /\ Acting /\ ~IsTrash(job.item)
      /\ UNCHANGED <<runs, recency, bin, orphan>>
      /\ host' = host \/ host' = HostAfter(job.item, CommandGoal)
    BY DEF RunCommand, Acting, journal
<1>2. Active' = Active /\ RunIndex' = RunIndex
    BY <1>1 DEF Active, RunIndex
<1>3. SoleRun'
    BY <1>1, <1>2 DEF WInv, TruthInv, SoleRun
<1>4. /\ ActsOf(Active) = Manifest.acts
      /\ \A j \in DOMAIN Manifest.acts : Telling(j, Manifest.acts[j])
    BY <1>1, ActsOnActive
<1>5. /\ job.item \in DOMAIN Manifest.acts /\ InFlight(Act) /\ job.item \in Item
      /\ Papers /\ Job /\ job.mode \in {"apply", "undo"} /\ job.run \in RunIndex
    BY <1>1, ActingKnows DEF Job, JobInv
<1>6. ASSUME NEW j \in DOMAIN Manifest.acts, j # job.item PROVE host'[j] = host[j]
    <2>1. j \in Item
        BY <1>5, ManifestTyped DEF Job
    <2>2. CASE host' = host
        BY <2>2
    <2>3. CASE /\ host' = HostAfter(job.item, CommandGoal)
               /\ ~(CommandGoal = "absent" /\ Kind[j] = "service" /\ Owner[j] = job.item)
        BY <1>6, <2>1, <2>3 DEF HostAfter
    <2>4. CASE /\ host' = HostAfter(job.item, CommandGoal)
               /\ CommandGoal = "absent" /\ Kind[j] = "service" /\ Owner[j] = job.item
        <3>1. job.mode = "apply" /\ ~IsTrash(j) /\ job.item > j
            BY <2>1, <2>4, OwnerAssumption DEF CommandGoal, IsTrash
        <3>2. j \in Nat /\ job.item \in Nat
            BY <1>5, ManifestTyped DEF Job
        <3>3. Manifest.acts[j].state = "verified"
            BY <3>1, <3>2 DEF WInv, ApplyInv
        <3>4. Manifest.acts[j].after = "absent"
            BY <1>5, <3>1, <3>3 DEF WInv, EvidenceInv, Evident, ActsOf, Manifest
        <3>5. host[j] = "absent"
            BY <1>4, <3>1, <3>3, <3>4 DEF Telling, InFlight, AsRecorded, NoObservation
        <3>6. host'[j] = "absent"
            BY <1>6, <2>1, <2>4 DEF HostAfter
        <3> QED
            BY <3>5, <3>6
    <2> QED
        BY <1>1, <2>2, <2>3, <2>4
<1>7. \A j \in DOMAIN Manifest.acts :
        ~InFlight(Manifest.acts[j]) =>
            host'[j] = host[j] /\ bin'[j] = bin[j] /\ Telling(j, Manifest.acts[j])
    BY <1>1, <1>4, <1>5, <1>6 DEF Act
<1>8. ActsOf(Active)' = Manifest.acts
    BY <1>1, <1>2, <1>4 DEF ActsOf
<1> QED
    BY <1>3, <1>7, <1>8 DEF AllTelling, Telling, AsBefore, AsRecorded

\* A move changes its own bundle, of which nothing is claimed.
LEMMA RenameTruth ==
    ASSUME WInv, Quiet, Rename
    PROVE  SoleRun' /\ AllTelling'
<1>1. Acting /\ UNCHANGED <<runs, recency, orphan>>
    BY DEF Rename, Acting, journal
<1>2. Active' = Active /\ RunIndex' = RunIndex
    BY <1>1 DEF Active, RunIndex
<1>3. SoleRun'
    BY <1>1, <1>2 DEF WInv, TruthInv, SoleRun
<1>4. /\ ActsOf(Active) = Manifest.acts
      /\ \A j \in DOMAIN Manifest.acts : Telling(j, Manifest.acts[j])
    BY <1>1, ActsOnActive
<1>5. InFlight(Act) /\ MachineOK /\ Papers /\ Job /\ job.mode # "none"
    BY <1>1, ActingKnows
<1>6. \A j \in DOMAIN Manifest.acts : j # job.item => host'[j] = host[j] /\ bin'[j] = bin[j]
    <2>1. DOMAIN Manifest.acts \subseteq Item
        BY <1>5, ManifestTyped DEF Job
    <2> QED
        BY <1>5, <2>1 DEF Rename, MachineOK
<1>7. \A j \in DOMAIN Manifest.acts :
        ~InFlight(Manifest.acts[j]) =>
            host'[j] = host[j] /\ bin'[j] = bin[j] /\ Telling(j, Manifest.acts[j])
    BY <1>4, <1>5, <1>6 DEF Act
<1>8. ActsOf(Active)' = Manifest.acts
    BY <1>1, <1>2, <1>4 DEF ActsOf
<1> QED
    BY <1>3, <1>7, <1>8 DEF AllTelling, Telling, AsBefore, AsRecorded

\* In quiet, a run begins only where nothing is left of another: had the last
\* one succeeded, the first target of the plan would be gone.
LEMMA BeginApplyTruth ==
    ASSUME WInv, Quiet, NEW c \in Command, BeginApply(c)
    PROVE  SoleRun' /\ AllTelling'
<1> DEFINE new == Len(runs) + 1
<1>1. /\ RunIndex' = RunIndex \cup {new} /\ new \notin RunIndex /\ Active' = new
      /\ \A r \in RunIndex : runs'[r] = runs[r]
      /\ DOMAIN runs'[new].acts = PlanItems(plan)
      /\ \A i \in PlanItems(plan) :
            runs'[new].acts[i] = [state |-> "pending", before |-> host[i],
                                  after |-> NoObservation]
      /\ 1 \in PlanItems(plan) /\ PlanItems(plan) \subseteq Item
    BY BeginApplyEffect
<1> HIDE DEF new
<1>2. UNCHANGED machine
    BY DEF BeginApply
<1>3. JournalOK /\ AllSound /\ MachineOK
    BY DEF WInv, UInv, IInv, TypeOK
<1>4. ASSUME recency # <<>> PROVE runs[Active].state \in {"failed", "undone"}
    <2>1. Active \in RunIndex /\ Active # 0
        BY <1>3, <1>4, ActiveIsRun DEF JournalOK, RunIndex
    <2>2. runs[Active].state \in NewRunAllowedAfter
        BY <2>1 DEF BeginApply, MayApply, NewRunAllowed
    <2>3. ASSUME runs[Active].state = "succeeded" PROVE FALSE
        <3>1. ValidManifest(runs[Active]) /\ runs[Active] \in AnyManifest
            BY <1>3, <2>1 DEF AllSound, Sound, JournalOK, RunIndex
        <3>2. 1 \in DOMAIN ActsOf(Active)
            BY <3>1 DEF ValidManifest, AnyManifest, ActsOf
        <3> DEFINE act == ActsOf(Active)[1]
        <3>3. act.state = "verified"
            BY <2>3, <3>1, <3>2 DEF ValidManifest, ActsOf
        <3>4. Evident(1, act) /\ Telling(1, act)
            BY <2>1, <3>2 DEF WInv, EvidenceInv, TruthInv, AllTelling
        <3>5. act \in Action
            BY <3>1, <3>2 DEF AnyManifest, ActsOf
        <3> HIDE DEF act
        <3>6. host[1] = "absent"
            BY <3>3, <3>4, <3>5
            DEF Evident, Telling, InFlight, AsRecorded, Action, Value, NoObservation
        <3>7. Evident(1, [state |-> "pending", before |-> host[1], after |-> NoObservation])
            BY <1>1, BeginApplyEvident
        <3> QED
            BY <3>6, <3>7 DEF Evident
    <2> QED
        BY <2>2, <2>3 DEF NewRunAllowedAfter
<1>5. \A r \in RunIndex : runs[r].state \in {"failed", "undone"}
    <2>1. CASE recency = <<>>
        BY <1>3, <2>1 DEF JournalOK, RunIndex
    <2>2. CASE recency # <<>>
        BY <1>4, <2>2 DEF WInv, TruthInv, SoleRun
    <2> QED
        BY <2>1, <2>2
<1>6. SoleRun'
    BY <1>1, <1>2, <1>5 DEF SoleRun, WInv, TruthInv, machine
<1>7. \A i \in PlanItems(plan) : Telling(i, runs'[new].acts[i])
    BY <1>1, BeginApplyEvident
<1>8. AllTelling'
    BY <1>1, <1>2, <1>7 DEF AllTelling, ActsOf, Telling, AsBefore, AsRecorded, machine
<1> QED
    BY <1>6, <1>8

\* An action is taken up with its target as the journal last knew it.
LEMMA NextKeepsCheck ==
    ASSUME WInv, [Next]_vars, Quiet'
    PROVE  CheckInv'
<1>1. /\ Papers /\ Job /\ MachineOK /\ job \in AnyJob
      /\ Quiet /\ ~Drift /\ ~CrashAlone /\ SoleRun /\ AllTelling /\ CheckInv /\ CommandHost
    BY QuietBefore DEF WInv, UInv, IInv, TypeOK, Papers, Job, JobOK, TruthInv
<1>2. CASE job'.step # "check"
    BY <1>2 DEF CheckInv
<1>3. CASE Stop
    BY <1>3 DEF Stop, Idle, CheckInv
<1>4. CASE UNCHANGED <<job, runs, host>>
    BY <1>1, <1>4 DEF CheckInv, Act, Manifest
<1>5. ASSUME NEW i, NEW act, Revises(i, act)
      PROVE  /\ i \in DOMAIN Manifest.acts /\ Manifest.acts[i] \in Action
             /\ Telling(i, Manifest.acts[i]) /\ runs'[job.run].acts[i] = act
    <2>1. job.run = Active /\ i \in DOMAIN Manifest.acts /\ Manifest \in AnyManifest
        BY <1>1, <1>5 DEF Revises, SoleRun, Manifest
    <2>2. Active # 0
        BY <1>5, <2>1 DEF Revises, RunIndex, WInv, UInv, IInv, TypeOK, JournalOK
    <2> QED
        BY <1>1, <1>5, <2>1, <2>2 DEF AllTelling, ActsOf, Manifest, Revises, AnyManifest
<1>6. CASE StartAction
    <2>1. job.mode = "apply" /\ job.item \in DOMAIN Manifest.acts /\ job.run \in RunIndex
        BY <1>1, <1>6 DEF StartAction, Job, JobInv
    <2>2. Act \in Action /\ job.item \in Nat
        BY <1>1, <2>1, ManifestTyped DEF Job, Act
    <2>3. Act.after \in Observation \cup {NoObservation}
        BY <2>2 DEF Action
    <2>4. /\ "in_progress" \in ActionState /\ "in_progress" \in RunState
          /\ Record("in_progress", Act.after, "in_progress") /\ UNCHANGED host
        BY <1>6 DEF ActionState, RunState, StartAction, machine
    <2> DEFINE act == [Act EXCEPT !.state = "in_progress", !.after = Act.after]
    <2>5. Revises(job.item, act)
        BY <1>1, <2>1, <2>3, <2>4, RecordRevises
    <2>6. Act.state = "pending" /\ Act.after = NoObservation
        <3>1. ~(job.item < job.item) /\ ~Acting
            BY <1>6, <2>2 DEF StartAction, Acting
        <3>2. Act.state = "pending"
            BY <2>1, <3>1 DEF WInv, ApplyInv, Act
        <3>3. Evident(job.item, Act)
            BY <2>1 DEF WInv, EvidenceInv, ActsOf, Act, Manifest
        <3> QED
            BY <3>2, <3>3 DEF Evident
    <2>7. host[job.item] = Act.before
        BY <1>5, <2>5, <2>6 DEF Telling, InFlight, AsBefore, Act
    <2>8. job'.mode = "apply" /\ job'.run = job.run /\ job'.item = job.item
        BY <1>1, <1>6, <2>1 DEF StartAction, Goto, AnyJob
    <2>9. act.before = Act.before
        BY <2>2 DEF Action
    <2>10. Act' = act
        BY <2>5, <2>8 DEF Revises, Act, Manifest
    <2> QED
        BY <2>4, <2>7, <2>8, <2>9, <2>10 DEF CheckInv
<1>7. CASE UndoStarted
    <2> DEFINE i == Highest(job.todo)
               act == [Manifest.acts[i] EXCEPT !.state = "undo_in_progress"]
    <2>1. Revises(i, act) /\ i \in job.todo /\ job' = [job EXCEPT !.step = "check", !.item = i]
        BY <1>1, <1>7, UndoStartedRevises
    <2>2. job.mode = "undo" /\ job.step = "start" /\ UNCHANGED host
        BY <1>7 DEF UndoStarted, machine
    <2> HIDE DEF i
    <2>3. Recoverable(Manifest.acts[i]) /\ i \in DOMAIN Manifest.acts /\ Manifest.acts[i] \in Action
        BY <1>5, <2>1, <2>2 DEF WInv, UInv, TodoInv, RecoverableItems
    <2>4. ~IsTrash(i) => host[i] = Manifest.acts[i].after
        BY <1>5, <2>1, <2>3 DEF Telling, InFlight, Recoverable, AsRecorded
    <2>5. job'.mode = "undo" /\ job'.run = job.run /\ job'.item = i
        BY <1>1, <2>1, <2>2 DEF AnyJob
    <2>6. act.after = Manifest.acts[i].after
        BY <2>3 DEF Action
    <2>7. Act' = act
        BY <2>1, <2>5 DEF Revises, Act, Manifest
    <2> QED
        BY <2>2, <2>4, <2>5, <2>6, <2>7 DEF CheckInv
<1>8. CASE JobStep /\ ~StartAction /\ ~UndoStarted
    <2>1. \A v : Verified(v) \/ Restored(v) => job'.step # "check" \/ Stop
        BY <1>1 DEF Verified, Restored, AnyJob
    <2>2. \A m : Proceed(m) => job'.step # "check" \/ Stop
        BY <1>1 DEF Proceed, AnyJob
    <2>3. \A new : JournalClassified(new) => job'.step # "check" \/ Stop
        BY <2>2 DEF JournalClassified
    <2>4. Goto("act") => job'.step # "check"
        BY <1>1 DEF Goto, AnyJob
    <2>5. RunCommand \/ Rename => job'.step # "check"
        BY <1>1 DEF RunCommand, Rename, AnyJob
    <2>6. job'.step # "check" \/ Stop
        BY <1>8, <2>1, <2>3, <2>4, <2>5
        DEF JobStep, CheckBefore, VerifyAfter, ClassifyCommand, ClassifyTrash, StartUndo,
            UndoNotStarted, CheckUndo, VerifyUndo, CheckMove, VerifyMove, Interrupt
    <2> QED
        BY <1>2, <1>3, <2>6
<1>9. CASE \E c \in Command : BeginApply(c) \/ BeginUndo(c)
    <2>1. job'.step # "check"
        BY <1>9 DEF BeginApply, BeginUndo, Idle
    <2> QED
        BY <1>2, <2>1
<1>10. ~OrphanEnds
    BY <1>1 DEF OrphanEnds, SoleRun
<1> QED
    BY <1>1, <1>3, <1>4, <1>6, <1>7, <1>8, <1>9, <1>10
    DEF Next, vars, journal, machine, AddPlan, ReviewApply, RefuseApply, ReviewUndo,
        RefuseUndo, Crash

\* No step of MacWise makes the journal tell anything but the truth.
LEMMA NextKeepsTruth ==
    ASSUME WInv, [Next]_vars
    PROVE  TruthInv'
<1> SUFFICES ASSUME Quiet' PROVE SoleRun' /\ AllTelling'
    BY NextKeepsCheck DEF TruthInv
<1>1. Quiet /\ ~Drift /\ ~CrashAlone /\ SoleRun /\ AllTelling /\ JournalOK /\ EvidenceInv
    BY QuietBefore DEF WInv, TruthInv, UInv, IInv, TypeOK
<1>2. CASE UNCHANGED <<runs, recency, machine>>
    BY <1>1, <1>2
    DEF SoleRun, AllTelling, Telling, AsBefore, AsRecorded, Active, ActsOf, RunIndex, machine
<1>3. CASE JobStep /\ ~RunCommand /\ ~Rename
    <2>1. UNCHANGED machine
        BY <1>3 DEF JobStep, StartAction, CheckBefore, VerifyAfter, ClassifyCommand,
           ClassifyTrash, StartUndo, UndoStarted, UndoNotStarted, CheckUndo, VerifyUndo,
           CheckMove, VerifyMove
    <2>2. \/ UNCHANGED <<runs, recency>>
          \/ \E i \in Item, act \in Action : Revises(i, act) /\ Telling(i, act)
        BY <1>1, <1>3, JobStepReports DEF Reports
    <2> QED
        BY <1>1, <1>2, <2>1, <2>2, RevisionKeepsTruth
<1>4. CASE RunCommand \/ Rename
    BY <1>1, <1>4, RunCommandTruth, RenameTruth
<1>5. CASE \E c \in Command : BeginApply(c)
    BY <1>1, <1>5, BeginApplyTruth
<1>6. ~OrphanEnds
    BY <1>1 DEF OrphanEnds, SoleRun
<1> QED
    BY <1>1, <1>2, <1>3, <1>4, <1>5, <1>6
    DEF Next, vars, journal, AddPlan, ReviewApply, RefuseApply, ReviewUndo, BeginUndo,
        RefuseUndo, Crash

-----------------------------------------------------------------------------
(* The invariant and what follows from it.                                 *)

\* No run, no job and a host as it was found are the start of WInv.
LEMMA InitIsTrue == Init => WInv
<1> SUFFICES ASSUME Init PROVE EvidenceInv /\ CommandHost /\ ApplyInv /\ TruthInv
    BY InitIsSound DEF WInv
<1>1. /\ runs = <<>> /\ recency = <<>> /\ job = Idle /\ orphan = {}
      /\ host = [i \in Item |-> "present"] /\ bin = [i \in Item |-> "absent"]
    BY DEF Init
<1>2. EvidenceInv /\ CommandHost /\ ApplyInv
    BY <1>1 DEF EvidenceInv, RunIndex, CommandHost, ApplyInv, Idle
<1>3. TruthInv
    BY <1>1 DEF TruthInv, SoleRun, RunIndex, AllTelling, Active, CheckInv, Idle
<1> QED
    BY <1>2, <1>3

\* WInv is an invariant of the specification.
LEMMA TruthInvariant == Spec => []WInv
<1>1. WInv /\ [Next]_vars => WInv'
    <2> SUFFICES ASSUME WInv, [Next]_vars PROVE WInv'
        OBVIOUS
    <2>1. UInv'
        BY NextKeepsUInv DEF WInv
    <2> QED
        BY <2>1, NextKeepsEvidence, NextKeepsCommandHost, NextKeepsApply, NextKeepsTruth
        DEF WInv
<1> QED
    BY <1>1, InitIsTrue, PTL DEF Spec

\* Whatever the user changes meanwhile, what is journaled as verified was seen
\* gone, or in the Trash as the same bundle, what is journaled as undone was seen
\* as it was before, and no after-state comes from incomplete evidence.
THEOREM EvidenceIsReal == Spec => []EvidenceBacksClaims
<1>1. WInv => EvidenceBacksClaims
    <2> SUFFICES ASSUME WInv, NEW r \in RunIndex, NEW i \in DOMAIN ActsOf(r)
                 PROVE  LET act == ActsOf(r)[i] IN
                        /\ act.state = "verified" =>
                              act.after = IF IsTrash(i) THEN act.before ELSE "absent"
                        /\ act.state = "undone" => act.after = act.before
                        /\ act.after # NoObservation => Authoritative(act.after)
        BY DEF EvidenceBacksClaims
    <2> DEFINE act == ActsOf(r)[i]
    <2>1. Evident(i, act)
        BY DEF WInv, EvidenceInv
    <2>2. act \in Action
        <3>1. runs[r] \in AnyManifest
            BY DEF WInv, UInv, IInv, TypeOK, JournalOK, RunIndex
        <3> QED
            BY <3>1 DEF AnyManifest, ActsOf
    <2>3. act.before # Unknown
        BY <2>2 DEF Action, Value, Unknown
    <2> QED
        BY <2>1, <2>3 DEF Evident, Authoritative, Unknown
<1> QED
    BY <1>1, TruthInvariant, PTL

\* As long as only MacWise changes the host, through crashes, lying commands and
\* failed observations, what the newest run says of an action that is not in
\* flight is where its target is: no change can be forgotten.
THEOREM JournalIsTruthful == Spec => []JournalTellsTheTruth
<1>1. WInv => JournalTellsTheTruth
    BY DEF WInv, TruthInv, AllTelling, Telling, Quiet, JournalTellsTheTruth
<1> QED
    BY <1>1, TruthInvariant, PTL

-----------------------------------------------------------------------------
(* The other runs: the execution of cleanup plans implements RunLedger.    *)
(* What apply and undo check under the lock speaks of the newest run only. *)
(* That it suffices is the invariant OneOpen: every other run is settled.  *)

Settled(r) == runs[r].state \in NewRunAllowedAfter
OneOpen == Len(runs) <= MaxRuns /\ \A r \in RunIndex : r # Active => Settled(r)
LInv == IInv /\ OneOpen

outcomes == [r \in 1..MaxRuns |-> OutcomeOf(r)]

\* How the outcome of a run follows from its latest manifest.
LEMMA OutcomeIs ==
    ASSUME IInv, NEW r \in RunIndex
    PROVE  OutcomeOf(r) = IF Settled(r) THEN runs[r].state ELSE "open"
BY DEF OutcomeOf, Settled

\* Of the transitions the journal allows, those that change an outcome settle
\* an open run, or open one that had succeeded.
LEMMA Transitions ==
    ASSUME NEW s \in RunState, NEW t \in AllowedTransitions[s]
    PROVE  /\ s \in NewRunAllowedAfter => s = "succeeded" /\ t \notin NewRunAllowedAfter
           /\ NewRunAllowedAfter = {"succeeded", "failed", "undone"}
BY DEF AllowedTransitions, RunState, NewRunAllowedAfter

\* A revision of a run, seen from the ledger.
LEMMA RevisionRefines ==
    ASSUME LInv, NEW r \in RunIndex, NEW m, Journal(r, m)
    PROVE  OneOpen' /\ [Ledger!Next]_outcomes
<1> DEFINE s == runs[r].state
           t == m.state
<1>1. /\ runs \in [1..Len(runs) -> AnyManifest] /\ Len(runs) \in Nat /\ RunIndex = 1..Len(runs)
      /\ JournalOK
    BY DEF LInv, IInv, TypeOK, JournalOK, RunIndex
<1>2. runs' = [runs EXCEPT ![r] = m] /\ recency' = NewestLast(r)
    BY DEF Journal
<1>3. /\ RunIndex' = RunIndex /\ Len(runs') = Len(runs) /\ runs'[r] = m
      /\ \A q \in RunIndex \ {r} : runs'[q] = runs[q]
    BY <1>1, <1>2 DEF RunIndex
<1>4. Active' = r
    <2>1. /\ recency' \in Seq(RunIndex) /\ Len(recency') = Len(recency)
          /\ recency'[Len(recency)] = r /\ recency # <<>> /\ recency \in Seq(RunIndex)
        BY <1>1, <1>2, NewestLastPermutes DEF JournalOK
    <2>2. recency' # <<>>
        BY <2>1
    <2> QED
        BY <2>1, <2>2 DEF Active
<1>5. /\ s \in RunState /\ t \in AllowedTransitions[s]
      /\ r = Active \/ runs[Active].state = "undone"
    BY <1>1 DEF Journal, StoreAccepts, AnyManifest
<1>6. \A q \in RunIndex : q # r => Settled(q)
    BY <1>5 DEF LInv, OneOpen, Settled, NewRunAllowedAfter
<1>7. OneOpen'
    BY <1>3, <1>4, <1>6 DEF LInv, OneOpen, Settled
<1>8. /\ s \in NewRunAllowedAfter => s = "succeeded" /\ t \notin NewRunAllowedAfter
      /\ NewRunAllowedAfter = {"succeeded", "failed", "undone"}
    BY <1>5, Transitions
<1>9. /\ \A q \in 1..MaxRuns : q # r => OutcomeOf(q)' = OutcomeOf(q) /\ OutcomeOf(q) # "open"
      /\ OutcomeOf(r) = IF s \in NewRunAllowedAfter THEN s ELSE "open"
      /\ OutcomeOf(r)' = IF t \in NewRunAllowedAfter THEN t ELSE "open"
      /\ r \in 1..MaxRuns
    <2>1. OutcomeOf(r) = IF s \in NewRunAllowedAfter THEN s ELSE "open"
        BY DEF OutcomeOf
    <2>2. OutcomeOf(r)' = IF t \in NewRunAllowedAfter THEN t ELSE "open"
        BY <1>3 DEF OutcomeOf
    <2>3. \A q \in 1..MaxRuns : q # r => OutcomeOf(q)' = OutcomeOf(q) /\ OutcomeOf(q) # "open"
        BY <1>3, <1>6, <1>8 DEF OutcomeOf, Settled
    <2>4. r \in 1..MaxRuns
        BY <1>1, MaxRunsAssumption DEF LInv, OneOpen
    <2> QED
        BY <2>1, <2>2, <2>3, <2>4
<1>0. r \in 1..MaxRuns
    BY <1>9
<1>10. outcomes' = [outcomes EXCEPT ![r] = OutcomeOf(r)']
    BY <1>9 DEF outcomes
<1> HIDE DEF s, t
<1>11. CASE s \in NewRunAllowedAfter
    <2>1. outcomes[r] = "succeeded" /\ OutcomeOf(r)' = "open"
        BY <1>8, <1>9, <1>11 DEF outcomes
    <2>2. \A q \in 1..MaxRuns : outcomes[q] # "open"
        BY <1>9, <2>1 DEF outcomes
    <2>3. Ledger!Reopen(r)
        BY <1>10, <2>1, <2>2 DEF Ledger!Reopen, Ledger!AllSettled, outcomes
    <2> QED
        BY <1>0, <1>7, <2>3 DEF Ledger!Next
<1>12. CASE s \notin NewRunAllowedAfter /\ t \in NewRunAllowedAfter
    <2>1. outcomes[r] = "open" /\ OutcomeOf(r)' \in {"succeeded", "failed", "undone"}
        BY <1>8, <1>9, <1>12 DEF outcomes
    <2>2. PICK o \in {"succeeded", "failed", "undone"} : outcomes' = [outcomes EXCEPT ![r] = o]
        BY <1>10, <2>1
    <2>3. Ledger!Settle(r)
        BY <2>1, <2>2 DEF Ledger!Settle, outcomes
    <2> QED
        BY <1>0, <1>7, <2>3 DEF Ledger!Next
<1>13. CASE s \notin NewRunAllowedAfter /\ t \notin NewRunAllowedAfter
    BY <1>7, <1>9, <1>10, <1>13 DEF outcomes
<1> QED
    BY <1>11, <1>12, <1>13

\* A new run, seen from the ledger: all others are settled.
LEMMA NewRunRefines ==
    ASSUME LInv, NEW c \in Command, BeginApply(c)
    PROVE  OneOpen' /\ [Ledger!Next]_outcomes
<1> DEFINE new == Len(runs) + 1
<1>1. /\ runs \in Seq(AnyManifest) /\ Len(runs) \in Nat /\ RunIndex = 1..Len(runs)
      /\ recency \in Seq(RunIndex) /\ Len(recency) = Len(runs) /\ JournalOK
    BY DEF LInv, IInv, TypeOK, JournalOK, RunIndex
<1>2. PICK m : /\ m.state = "prepared" /\ runs' = Append(runs, m)
               /\ recency' = Append(recency, new)
    BY DEF BeginApply
<1>3. Len(runs) < MaxRuns /\ (Active # 0 => Settled(Active))
    BY DEF BeginApply, MayApply, NewRunAllowed, Settled
<1>4. /\ RunIndex' = 1..new /\ Len(runs') = new /\ runs'[new] = m
      /\ \A q \in RunIndex : runs'[q] = runs[q]
    <2>1. runs \in Seq(AnyManifest \cup {m}) /\ m \in AnyManifest \cup {m}
        BY <1>1
    <2> QED
        BY <1>1, <1>2, <2>1 DEF RunIndex
<1>5. Active' = new
    <2>1. recency \in Seq(1..new) /\ new \in 1..new
        BY <1>1
    <2>2. recency' # <<>> /\ recency'[Len(recency')] = new
        BY <1>2, <2>1
    <2> QED
        BY <2>2 DEF Active
<1>6. \A q \in RunIndex : Settled(q)
    <2>1. CASE recency = <<>>
        BY <1>1, <2>1
    <2>2. CASE recency # <<>>
        BY <1>1, <1>3, <2>2, ActiveIsRun DEF LInv, OneOpen
    <2> QED
        BY <2>1, <2>2
<1>7. new \in 1..MaxRuns /\ new \notin RunIndex /\ RunIndex' = RunIndex \cup {new}
    BY <1>1, <1>3, <1>4, MaxRunsAssumption
<1> HIDE DEF new
<1>8. OneOpen'
    <2>1. Len(runs') <= MaxRuns
        BY <1>4, <1>7, MaxRunsAssumption
    <2>2. ASSUME NEW q \in RunIndex', q # new PROVE Settled(q)'
        BY <1>4, <1>6, <1>7, <2>2 DEF Settled
    <2> QED
        BY <1>5, <2>1, <2>2 DEF OneOpen
<1>9. /\ \A q \in 1..MaxRuns : q # new => OutcomeOf(q)' = OutcomeOf(q)
      /\ \A q \in 1..MaxRuns : OutcomeOf(q) # "open"
    <2>1. ASSUME NEW q \in 1..MaxRuns, q # new PROVE OutcomeOf(q)' = OutcomeOf(q)
        BY <1>4, <1>7, <2>1 DEF OutcomeOf
    <2>2. ASSUME NEW q \in 1..MaxRuns PROVE OutcomeOf(q) # "open"
        BY <1>6 DEF OutcomeOf, Settled, NewRunAllowedAfter
    <2> QED
        BY <2>1, <2>2
<1>10. OutcomeOf(new) = "unborn"
    BY <1>7 DEF OutcomeOf
<1>11. outcomes' = [outcomes EXCEPT ![new] = "open"]
    <2>1. new \in RunIndex' /\ runs'[new].state \notin NewRunAllowedAfter
        BY <1>2, <1>4, <1>7 DEF NewRunAllowedAfter
    <2>2. \A q \in 1..MaxRuns : outcomes'[q] = IF q = new THEN "open" ELSE outcomes[q]
        BY <1>7, <1>9, <2>1 DEF outcomes, OutcomeOf
    <2> QED
        BY <1>7, <2>2 DEF outcomes
<1>12. outcomes[new] = "unborn" /\ \A q \in 1..MaxRuns : outcomes[q] # "open"
    BY <1>7, <1>9, <1>10 DEF outcomes
<1>13. Ledger!Begin(new)
    BY <1>11, <1>12 DEF Ledger!Begin, Ledger!AllSettled, outcomes
<1> QED
    BY <1>8, <1>7, <1>13 DEF Ledger!Next

\* Every step leaves the journal alone, revises the run of the job, or begins a
\* new one.
LEMMA StepsOfTheJournal ==
    ASSUME [Next]_vars
    PROVE  \/ UNCHANGED <<runs, recency>>
           \/ job.step # "none" /\ \E m : Journal(job.run, m)
           \/ \E c \in Command : BeginApply(c)
<1> DEFINE Revised == \E m : Journal(job.run, m)
<1>1. \A s, a, t : Record(s, a, t) => Revised
    BY DEF Record
<1>2. Interrupt => Revised
    BY <1>1 DEF Interrupt
<1>3. \A v : (Verified(v) => Revised) /\ (Restored(v) => Revised)
    BY DEF Verified, Restored
<1>4. \A new : JournalClassified(new) => Revised \/ UNCHANGED journal
    BY DEF JournalClassified
<1>5. UndoStarted => Revised
    BY DEF UndoStarted
<1> HIDE DEF Revised
<1>6. JobStep => UNCHANGED journal \/ Revised
    BY <1>1, <1>2, <1>3, <1>4, <1>5
    DEF JobStep, StartAction, CheckBefore, VerifyAfter, ClassifyCommand, ClassifyTrash,
        StartUndo, UndoNotStarted, CheckUndo, VerifyUndo, RunCommand, CheckMove, Rename, VerifyMove
<1>7. JobStep => job.step # "none"
    BY DEF JobStep, StartAction, CheckBefore, VerifyAfter, ClassifyCommand, ClassifyTrash,
           StartUndo, UndoStarted, UndoNotStarted, CheckUndo, VerifyUndo, RunCommand,
           CheckMove, Rename, VerifyMove
<1>8. \/ JobStep \/ UNCHANGED <<runs, recency>>
      \/ \E c \in Command : BeginApply(c)
    BY DEF Next, vars, journal, AddPlan, ReviewApply, RefuseApply, ReviewUndo, BeginUndo,
           RefuseUndo, Crash, CrashAlone, OrphanEnds, Drift
<1> QED
    BY <1>6, <1>7, <1>8 DEF Revised, journal

\* Every step of the program is one of the ledger, or none, and leaves at most
\* one run open.
LEMMA NextRefines ==
    ASSUME LInv, [Next]_vars
    PROVE  OneOpen' /\ [Ledger!Next]_outcomes
<1>1. CASE UNCHANGED <<runs, recency>>
    BY <1>1 DEF LInv, OneOpen, RunIndex, Active, Settled, outcomes, OutcomeOf
<1>2. CASE job.step # "none" /\ \E m : Journal(job.run, m)
    <2>1. job.run \in RunIndex
        BY <1>2 DEF LInv, IInv, JobInv
    <2> QED
        BY <1>2, <2>1, RevisionRefines
<1>3. CASE \E c \in Command : BeginApply(c)
    BY <1>3, NewRunRefines
<1> QED
    BY <1>1, <1>2, <1>3, StepsOfTheJournal

\* However many commands race, crash and retry, runs are taken one at a time:
\* one is opened, or a succeeded one reopened, only when all others have
\* succeeded, failed or been undone.
THEOREM CleanupImplementsLedger == Spec => KeepsLedger
<1>1. Init => LInv /\ Ledger!Init
    <2> SUFFICES ASSUME Init PROVE OneOpen /\ Ledger!Init
        BY InitHolds DEF LInv
    <2>1. runs = <<>> /\ RunIndex = {}
        BY DEF Init, RunIndex
    <2>2. OneOpen
        BY <2>1, MaxRunsAssumption DEF OneOpen
    <2> QED
        BY <2>1, <2>2 DEF Ledger!Init, OutcomeOf
<1>2. LInv /\ [Next]_vars => LInv' /\ [Ledger!Next]_outcomes
    BY NextRefines, NextKeepsIInv DEF LInv
<1> QED
    BY <1>1, <1>2, PTL DEF Spec, KeepsLedger, Ledger!Spec, outcomes

=============================================================================
