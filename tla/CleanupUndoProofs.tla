-------------------------- MODULE CleanupUndoProofs --------------------------
(***************************************************************************)
(* Proofs about what undo does, on top of the invariant of CleanupProofs:  *)
(* actions are undone latest first, and every manifest that is journaled,  *)
(* by apply, undo or classification, passes the validators of the model.   *)
(*                                                                         *)
(* Neither is inductive.  The order needs to know that what undo has still *)
(* to do is exactly what can still be reversed; the validators, that a     *)
(* pending action has no after-state yet and one being undone has one.     *)
(***************************************************************************)
EXTENDS CleanupProofs

SoundAction(act) ==
    /\ ValidAction(act)
    /\ act.state = "pending" => act.after = NoObservation
    /\ act.state = "undo_in_progress" => act.after # NoObservation

Sound(m) == ValidManifest(m) /\ \A i \in DOMAIN m.acts : SoundAction(m.acts[i])

AllSound == \A r \in RunIndex : Sound(runs[r])

TodoInv ==
    /\ job.mode = "undo" /\ job.step = "start" => RecoverableItems(Manifest) = job.todo
    /\ job.mode = "undo" /\ Acting =>
          /\ job.item = Highest(job.todo)
          /\ RecoverableItems(Manifest) = job.todo \ {job.item}

UInv == IInv /\ AllSound /\ TodoInv

\* A sound revision keeps the journal sound.
LEMMA JournalSound ==
    ASSUME Papers, AllSound, NEW r \in RunIndex, NEW m \in AnyManifest,
           m.plan = runs[r].plan, Len(m.acts) = Len(runs[r].acts), Journal(r, m), Sound(m)
    PROVE  AllSound'
BY JournalEffect DEF AllSound, Papers

\* One sound action replaced, and the run neither succeeded nor undone.
LEMMA SoundWith ==
    ASSUME NEW m \in AnyManifest, Sound(m), NEW i \in DOMAIN m.acts, NEW act \in Action,
           SoundAction(act), NEW state \in RunState \ {"succeeded", "undone"}
    PROVE  Sound([WithAction(m, i, act) EXCEPT !.state = state])
<1> DEFINE acts == [m.acts EXCEPT ![i] = act]
           new == [WithAction(m, i, act) EXCEPT !.state = state]
<1>1. m.acts \in Seq(Action)
    BY DEF AnyManifest
<1>2. new = [plan |-> m.plan, state |-> state, acts |-> acts]
    <2>1. m = [plan |-> m.plan, state |-> m.state, acts |-> m.acts]
        BY DEF AnyManifest
    <2>2. WithAction(m, i, act) = [plan |-> m.plan, state |-> m.state, acts |-> acts]
        BY <2>1 DEF WithAction
    <2> QED
        BY <2>2
<1>3. DOMAIN acts = DOMAIN m.acts /\ acts # <<>>
    BY <1>1
<1>4. \A j \in DOMAIN acts : SoundAction(acts[j])
    BY <1>1 DEF Sound
<1> HIDE DEF acts
<1> QED
    BY <1>2, <1>3, <1>4 DEF Sound, ValidManifest, SoundAction

\* Recording a sound outcome.
LEMMA RecordSound ==
    ASSUME Papers, Job, AllSound, Acting \/ job.mode = "apply",
           NEW actState \in ActionState, NEW after \in Observation \cup {NoObservation},
           SoundAction([Act EXCEPT !.state = actState, !.after = after]),
           NEW runState \in RunState \ {"succeeded", "undone"},
           Record(actState, after, runState)
    PROVE  AllSound'
<1> DEFINE act == [Act EXCEPT !.state = actState, !.after = after]
           m == [WithAction(Manifest, job.item, act) EXCEPT !.state = runState]
<1>1. job.mode # "none" /\ job.item \in DOMAIN Manifest.acts
    BY ActingTyped DEF Job, JobInv
<1>2. Manifest \in AnyManifest /\ job.run \in RunIndex /\ Manifest.acts[job.item] \in Action
    BY <1>1, ManifestTyped DEF Job
<1>3. act \in Action
    BY <1>2 DEF Act, Action
<1>4. m \in AnyManifest /\ m.plan = Manifest.plan /\ Len(m.acts) = Len(Manifest.acts)
    BY <1>1, <1>2, <1>3, ManifestWith
<1>5. Sound(m)
    BY <1>1, <1>2, <1>3, SoundWith DEF AllSound, Manifest
<1>6. Journal(job.run, m)
    BY DEF Record
<1> HIDE DEF m
<1> QED
    BY <1>2, <1>4, <1>5, <1>6, JournalSound DEF Manifest

\* A job that stops has nothing left to undo.
LEMMA StopHasNoTodo == Stop => TodoInv'
BY DEF Stop, TodoInv, Idle, Acting

\* A recorded failure, whatever is known of it, keeps the journal sound.
LEMMA RecordAndStopSound ==
    ASSUME Papers, Job, AllSound, Acting,
           NEW actState \in {"failed", "undo_failed"},
           NEW after \in Observation \cup {NoObservation},
           NEW runState \in RunState \ {"succeeded", "undone"},
           Record(actState, after, runState), Stop
    PROVE  AllSound' /\ TodoInv'
<1>1. actState \in ActionState /\ Act \in Action
    BY ActingTyped DEF ActionState
<1>2. SoundAction([Act EXCEPT !.state = actState, !.after = after])
    BY <1>1 DEF SoundAction, ValidAction, Action
<1> QED
    BY <1>1, <1>2, RecordSound, StopHasNoTodo

\* An interruption leaves the action as it was.
LEMMA InterruptSound ==
    ASSUME Papers, Job, AllSound, Acting, Interrupt
    PROVE  AllSound' /\ TodoInv'
<1>1. Act \in Action /\ job.item \in DOMAIN Manifest.acts /\ job.run \in RunIndex
    BY ActingTyped DEF Job, JobInv
<1>2. [Act EXCEPT !.state = Act.state, !.after = Act.after] = Act
    BY <1>1 DEF Action
<1>3. SoundAction(Act)
    BY <1>1 DEF AllSound, Sound, Act, Manifest
<1>4. "interrupted" \in RunState \ {"succeeded", "undone"}
    BY DEF RunState
<1>5. Act.state \in ActionState /\ Act.after \in Observation \cup {NoObservation}
    BY <1>1 DEF Action
<1> QED
    BY <1>2, <1>3, <1>4, <1>5, RecordSound, StopHasNoTodo DEF Interrupt

\* A job that goes on acting without journaling.
LEMMA GoesOnSound ==
    ASSUME Papers, Job, AllSound, TodoInv, Acting, UNCHANGED runs,
           NEW step \in {"check", "act", "verify"}, NEW ok \in BOOLEAN,
           job' = [job EXCEPT !.step = step, !.ok = ok]
    PROVE  AllSound' /\ TodoInv'
<1>1. job \in AnyJob
    BY DEF Job, JobOK
<1>2. /\ job'.step = step /\ job'.mode = job.mode /\ job'.run = job.run /\ job'.item = job.item
      /\ job'.todo = job.todo
    BY <1>1 DEF AnyJob
<1>3. Manifest' = Manifest /\ RecoverableItems(Manifest') = RecoverableItems(Manifest)
    BY <1>2 DEF Manifest
<1> QED
    BY <1>2, <1>3 DEF AllSound, TodoInv, Acting, RunIndex

\* A job that goes on to act.
LEMMA GotoSound ==
    ASSUME Papers, Job, AllSound, TodoInv, Acting, UNCHANGED journal, Goto("act")
    PROVE  AllSound' /\ TodoInv'
<1>1. job.ok \in BOOLEAN /\ job' = [job EXCEPT !.step = "act", !.ok = job.ok]
    BY DEF Goto, Job, JobOK, AnyJob
<1> QED
    BY <1>1, GoesOnSound DEF journal

-----------------------------------------------------------------------------
(* The steps of a job.                                                     *)

\* Nothing of an apply job concerns what undo has still to do.
LEMMA ApplyHasNoTodo ==
    ASSUME job'.mode = "apply" \/ Stop
    PROVE  TodoInv'
BY StopHasNoTodo DEF TodoInv

\* A verified action has its after-state; a run succeeds when all have.
LEMMA VerifiedSound ==
    ASSUME Papers, Job, AllSound, Acting, job.mode = "apply", NEW value \in Value,
           Verified(value)
    PROVE  AllSound' /\ TodoInv'
<1> DEFINE acts == [Manifest.acts EXCEPT ![job.item] =
                        [@ EXCEPT !.state = "verified", !.after = value]]
           complete == \A i \in DOMAIN acts : acts[i].state = "verified"
           state == IF complete THEN "succeeded" ELSE "in_progress"
           m == [Manifest EXCEPT !.acts = acts, !.state = state]
<1>1. /\ job.item \in DOMAIN Manifest.acts /\ Act \in Action /\ Act = Manifest.acts[job.item]
      /\ Manifest \in AnyManifest /\ job.run \in RunIndex
      /\ Len(Manifest.acts) \in Nat /\ DOMAIN Manifest.acts = 1..Len(Manifest.acts)
    BY ActingTyped, ManifestTyped DEF Job, Act
<1>2. /\ [Act EXCEPT !.state = "verified", !.after = value] \in Action
      /\ SoundAction([Act EXCEPT !.state = "verified", !.after = value])
    BY <1>1 DEF Action, ActionState, Observation, SoundAction, ValidAction, NoObservation, Value
<1>3. /\ acts \in Seq(Action) /\ Len(acts) = Len(Manifest.acts) /\ acts # <<>>
    BY <1>1, <1>2 DEF AnyManifest
<1>4. \A i \in DOMAIN acts : SoundAction(acts[i])
    BY <1>1, <1>2 DEF AllSound, Sound, Manifest
<1>5. Journal(job.run, m)
    BY DEF Verified
<1> HIDE DEF acts
<1>6. state \in RunState /\ state # "undone" /\ (state = "succeeded" => complete)
    BY DEF RunState
<1> HIDE DEF complete, state
<1>7. /\ m \in AnyManifest /\ m.plan = Manifest.plan /\ m.acts = acts /\ m.state = state
    BY <1>1, <1>3, <1>6 DEF AnyManifest
<1>8. Sound(m)
    BY <1>3, <1>4, <1>6, <1>7 DEF Sound, ValidManifest, SoundAction, complete
<1> HIDE DEF m
<1>9. AllSound'
    BY <1>1, <1>3, <1>5, <1>7, <1>8, JournalSound DEF Manifest
<1>10. job'.mode = "apply" \/ Stop
    BY DEF Verified, Job, JobOK, AnyJob
<1> QED
    BY <1>9, <1>10, ApplyHasNoTodo

\* An undone action is no longer to do; a run is undone when all are.
LEMMA RestoredSound ==
    ASSUME Papers, Job, AllSound, TodoInv, Acting, job.mode = "undo", NEW value \in Value,
           Restored(value)
    PROVE  AllSound' /\ TodoInv'
<1> DEFINE undone == [Manifest.acts EXCEPT ![job.item] =
                        [@ EXCEPT !.state = "undone", !.after = value]]
           last == job.todo = {job.item}
           closed == last /\ \A i \in DOMAIN undone :
                                undone[i].state \in {"undone", "pending", "not_applied"}
           acts == [i \in DOMAIN undone |->
                        IF closed /\ undone[i].state = "pending"
                        THEN [undone[i] EXCEPT !.state = "not_applied"] ELSE undone[i]]
           state == IF AllReversed(acts) THEN "undone"
                    ELSE IF last THEN "undo_partial" ELSE "undo_in_progress"
           m == [Manifest EXCEPT !.acts = acts, !.state = state]
<1>1. /\ job.item \in DOMAIN Manifest.acts /\ Act \in Action /\ Act = Manifest.acts[job.item]
      /\ Manifest \in AnyManifest /\ job.run \in RunIndex
      /\ Len(Manifest.acts) \in Nat /\ DOMAIN Manifest.acts = 1..Len(Manifest.acts)
      /\ Manifest.acts \in [1..Len(Manifest.acts) -> Action]
    BY ActingTyped, ManifestTyped DEF Job, Act
<1>2. /\ [Act EXCEPT !.state = "undone", !.after = value] \in Action
      /\ [Act EXCEPT !.state = "undone", !.after = value].state = "undone"
    BY <1>1 DEF Action, ActionState, Observation
<1>3. /\ undone \in [1..Len(Manifest.acts) -> Action]
      /\ undone[job.item].state = "undone"
      /\ \A i \in DOMAIN Manifest.acts \ {job.item} : undone[i] = Manifest.acts[i]
    BY <1>1, <1>2
<1>4. \A i \in DOMAIN undone : SoundAction(undone[i])
    <2>1. \A a : a.state = "undone" => SoundAction(a)
        BY DEF SoundAction, ValidAction
    <2> QED
        BY <1>1, <1>3, <2>1 DEF AllSound, Sound, Manifest
<1>5. \A a \in Action : SoundAction(a) /\ a.state = "pending" =>
            /\ [a EXCEPT !.state = "not_applied"] \in Action
            /\ [a EXCEPT !.state = "not_applied"].state = "not_applied"
            /\ SoundAction([a EXCEPT !.state = "not_applied"])
    BY DEF Action, ActionState, SoundAction, ValidAction
<1>6. Journal(job.run, m)
    BY DEF Restored
<1> HIDE DEF undone, closed
<1>7. /\ acts \in [1..Len(Manifest.acts) -> Action]
      /\ \A i \in DOMAIN acts : SoundAction(acts[i])
      /\ \A i \in DOMAIN acts : acts[i] = undone[i] \/ acts[i].state = "not_applied"
      /\ ~last => acts = undone
    <2>1. \A i \in 1..Len(Manifest.acts) :
            acts[i] \in Action /\ SoundAction(acts[i])
            /\ (acts[i] = undone[i] \/ acts[i].state = "not_applied")
        BY <1>3, <1>4, <1>5
    <2>2. ~last => acts = undone
        BY <1>3 DEF closed
    <2> QED
        BY <1>3, <2>1, <2>2
<1> HIDE DEF acts
<1>8. /\ acts \in Seq(Action) /\ Len(acts) = Len(Manifest.acts) /\ acts # <<>>
      /\ DOMAIN acts = DOMAIN Manifest.acts
    BY <1>1, <1>7
<1>9. state \in RunState /\ state # "succeeded" /\ (state = "undone" => AllReversed(acts))
    BY DEF RunState
<1> HIDE DEF state
<1>10. m \in AnyManifest /\ m.plan = Manifest.plan /\ m.acts = acts /\ m.state = state
    BY <1>1, <1>8, <1>9 DEF AnyManifest
<1>11. Sound(m)
    BY <1>7, <1>8, <1>9, <1>10 DEF Sound, ValidManifest, SoundAction, AllReversed
<1> HIDE DEF m
<1>12. AllSound' /\ runs'[job.run] = m
    BY <1>1, <1>6, <1>8, <1>10, <1>11, JournalSound, JournalEffect DEF Manifest, Papers
<1>13. CASE last
    BY <1>12, <1>13, StopHasNoTodo DEF Restored
<1>14. CASE ~last
    <2>1. job' = [job EXCEPT !.step = "start", !.todo = @ \ {job.item}]
        BY <1>14 DEF Restored
    <2>2. job \in AnyJob /\ RecoverableItems(Manifest) = job.todo \ {job.item}
        BY DEF Job, JobOK, TodoInv
    <2>3. /\ job'.step = "start" /\ job'.mode = "undo" /\ job'.run = job.run
          /\ job'.todo = job.todo \ {job.item}
        BY <2>1, <2>2 DEF AnyJob
    <2>4. Manifest' = m /\ m.acts = undone
        BY <1>7, <1>10, <1>12, <1>14, <2>3 DEF Manifest
    <2>5. RecoverableItems(Manifest') = RecoverableItems(Manifest) \ {job.item}
        BY <1>1, <1>3, <2>4 DEF RecoverableItems, Recoverable
    <2> QED
        BY <1>12, <2>2, <2>3, <2>5 DEF TodoInv, Acting
<1> QED
    BY <1>13, <1>14

\* Undo takes up the latest action there is to reverse; the others stay to do.
LEMMA UndoStartedSound ==
    ASSUME Papers, Job, AllSound, TodoInv, UndoStarted
    PROVE  AllSound' /\ TodoInv'
<1> DEFINE i == Highest(job.todo)
           act == [Manifest.acts[i] EXCEPT !.state = "undo_in_progress"]
           m == [WithAction(Manifest, i, act) EXCEPT !.state = "undo_in_progress"]
<1>1. job.mode = "undo" /\ job.step = "start"
    BY DEF UndoStarted
<1>2. /\ job.run \in RunIndex /\ Manifest \in AnyManifest
      /\ Manifest.acts \in [1..Len(Manifest.acts) -> Action]
      /\ Len(Manifest.acts) \in Nat /\ DOMAIN Manifest.acts = 1..Len(Manifest.acts)
    BY <1>1, ManifestTyped DEF Job
<1>3. job.todo \subseteq DOMAIN Manifest.acts /\ job.todo # {}
    BY <1>1 DEF Job, JobInv
<1>4. i \in job.todo
    BY <1>2, <1>3, HighestIn
<1>5. RecoverableItems(Manifest) = job.todo
    BY <1>1 DEF TodoInv
<1>6. /\ Journal(job.run, m) /\ job' = [job EXCEPT !.step = "check", !.item = i]
      /\ i = Highest(job.todo)
    BY DEF UndoStarted
<1> HIDE DEF i
<1>7. Manifest.acts[i] \in Action /\ Manifest.acts[i].after # NoObservation
    BY <1>2, <1>3, <1>4, <1>5 DEF RecoverableItems, Recoverable
<1>8. /\ act \in Action /\ act.state = "undo_in_progress"
      /\ SoundAction(act) /\ ~Recoverable(act)
    BY <1>7 DEF Action, ActionState, SoundAction, ValidAction, Recoverable
<1>9. /\ "undo_in_progress" \in RunState /\ i \in DOMAIN Manifest.acts
      /\ "undo_in_progress" \in RunState \ {"succeeded", "undone"}
    BY <1>3, <1>4 DEF RunState
<1> HIDE DEF act
<1>10. /\ m \in AnyManifest /\ m.plan = Manifest.plan
       /\ Len(m.acts) = Len(Manifest.acts) /\ DOMAIN m.acts = DOMAIN Manifest.acts
       /\ m.acts[i] = act /\ \A j \in DOMAIN Manifest.acts \ {i} : m.acts[j] = Manifest.acts[j]
    <2> DEFINE acts == [Manifest.acts EXCEPT ![i] = act]
    <2>1. Manifest = [plan |-> Manifest.plan, state |-> Manifest.state, acts |-> Manifest.acts]
        BY <1>2 DEF AnyManifest
    <2>2. m = [plan |-> Manifest.plan, state |-> "undo_in_progress", acts |-> acts]
        <3>1. WithAction(Manifest, i, act)
                = [plan |-> Manifest.plan, state |-> Manifest.state, acts |-> acts]
            BY <2>1 DEF WithAction
        <3> QED
            BY <3>1
    <2>3. /\ acts \in [1..Len(Manifest.acts) -> Action] /\ acts[i] = act
          /\ \A j \in DOMAIN Manifest.acts \ {i} : acts[j] = Manifest.acts[j]
        BY <1>2, <1>8, <1>9
    <2> HIDE DEF acts
    <2>4. acts \in Seq(Action) /\ Len(acts) = Len(Manifest.acts)
        BY <1>2, <2>3
    <2> QED
        BY <1>2, <1>9, <2>2, <2>3, <2>4 DEF AnyManifest
<1>11. Sound(m)
    BY <1>2, <1>8, <1>9, SoundWith DEF AllSound, Manifest
<1> HIDE DEF m
<1>12. AllSound' /\ runs'[job.run] = m
    BY <1>2, <1>6, <1>10, <1>11, JournalSound, JournalEffect DEF Manifest, Papers
<1>13. job \in AnyJob
    BY DEF Job, JobOK
<1>14. /\ job'.mode = "undo" /\ job'.step = "check" /\ job'.run = job.run /\ job'.item = i
       /\ job'.todo = job.todo
    BY <1>1, <1>6, <1>13 DEF AnyJob
<1>15. Manifest' = m
    BY <1>12, <1>14 DEF Manifest
<1>16. RecoverableItems(m) = RecoverableItems(Manifest) \ {i}
    BY <1>8, <1>9, <1>10 DEF RecoverableItems
<1>17. TodoInv'
    BY <1>5, <1>6, <1>14, <1>15, <1>16 DEF TodoInv, Acting
<1> QED
    BY <1>12, <1>17

\* After a classification undo sets out to reverse all that can be.
LEMMA ProceedSound ==
    ASSUME Job, NEW m, runs'[job.run] = m, Proceed(m)
    PROVE  TodoInv'
<1>1. CASE Stop
    BY <1>1, StopHasNoTodo
<1>2. CASE job' = [job EXCEPT !.step = "start", !.todo = RecoverableItems(m)]
    <2>1. job \in AnyJob
        BY DEF Job, JobOK
    <2>2. /\ job'.step = "start" /\ job'.run = job.run /\ job'.todo = RecoverableItems(m)
        BY <1>2, <2>1 DEF AnyJob
    <2>3. Manifest' = m
        BY <2>2 DEF Manifest
    <2> QED
        BY <2>2, <2>3 DEF TodoInv, Acting
<1> QED
    BY <1>1, <1>2 DEF Proceed

\* The state classification gives an action is one its evidence supports.
LEMMA ClassifiedSound ==
    ASSUME NEW act \in Action, SoundAction(act), InFlight(act),
           NEW before \in BOOLEAN, NEW after \in BOOLEAN, NEW value \in Observation
    PROVE  SoundAction(Classified(act, before, after, value))
<1>1. value # NoObservation
    BY DEF Observation, Value, Unknown, NoObservation
<1> QED
    BY <1>1 DEF Classified, Action, ActionState, SoundAction, ValidAction, InFlight

\* A classified manifest is sound, journaled or not.
LEMMA JournalClassifiedSound ==
    ASSUME Papers, Job, AllSound, job.step = "classify", NEW new \in Action, SoundAction(new),
           JournalClassified(new)
    PROVE  AllSound' /\ TodoInv'
<1> DEFINE acts == [Manifest.acts EXCEPT ![job.item] = new]
           All(name) == \A i \in DOMAIN acts : acts[i].state = name
           state == CASE new = Act -> "interrupted"
                      [] new # Act /\ Act.state = "in_progress" ->
                            IF All("verified") THEN "succeeded" ELSE "partial"
                      [] OTHER -> IF All("undone") THEN "undone" ELSE "undo_partial"
           m == [Manifest EXCEPT !.acts = acts, !.state = state]
<1>1. /\ job.mode = "undo" /\ job.item \in DOMAIN Manifest.acts
    BY DEF Job, JobOK, JobInv, AnyJob, InFlightItems
<1>2. /\ job.run \in RunIndex /\ Manifest \in AnyManifest
      /\ Manifest.acts \in [1..Len(Manifest.acts) -> Action]
      /\ Len(Manifest.acts) \in Nat /\ DOMAIN Manifest.acts = 1..Len(Manifest.acts)
    BY <1>1, ManifestTyped DEF Job
<1>3. Sound(Manifest)
    BY <1>2 DEF AllSound, Manifest
<1>4. /\ acts \in [1..Len(Manifest.acts) -> Action]
      /\ \A i \in DOMAIN acts : SoundAction(acts[i])
    BY <1>1, <1>2, <1>3 DEF Sound
<1>5. m = ClassifiedManifest(new)
    BY DEF ClassifiedManifest
<1> HIDE DEF acts
<1>6. acts \in Seq(Action) /\ Len(acts) = Len(Manifest.acts) /\ acts # <<>>
    BY <1>1, <1>2, <1>4
<1>7. /\ state \in RunState /\ (state = "succeeded" => All("verified"))
      /\ state = "undone" => All("undone")
    BY DEF RunState
<1> HIDE DEF state
<1>8. m \in AnyManifest /\ m.plan = Manifest.plan /\ m.acts = acts /\ m.state = state
    BY <1>2, <1>6, <1>7 DEF AnyManifest
<1>9. Sound(m)
    BY <1>4, <1>6, <1>7, <1>8 DEF Sound, ValidManifest, SoundAction
<1> HIDE DEF m
<1>10. CASE UNCHANGED journal /\ (Proceed(Manifest) \/ Stop)
    <2>1. RunIndex' = RunIndex /\ UNCHANGED runs
        BY <1>10, PapersUnchanged
    <2>2. AllSound' /\ runs'[job.run] = Manifest
        BY <2>1 DEF AllSound, Manifest
    <2>3. TodoInv'
        BY <1>10, <2>2, ProceedSound, StopHasNoTodo
    <2> QED
        BY <2>2, <2>3
<1>11. CASE Journal(job.run, m) /\ Proceed(m)
    <2>1. AllSound' /\ runs'[job.run] = m
        BY <1>2, <1>6, <1>8, <1>9, <1>11, JournalSound, JournalEffect DEF Manifest, Papers
    <2> QED
        BY <1>11, <2>1, ProceedSound
<1> QED
    BY <1>5, <1>10, <1>11 DEF JournalClassified

\* Either kind of classification keeps the journal sound.
LEMMA ClassifySound ==
    ASSUME Papers, Job, AllSound, ClassifyCommand \/ ClassifyTrash
    PROVE  AllSound' /\ TodoInv'
<1>1. job.step = "classify" /\ job.mode # "none"
    BY DEF ClassifyCommand, ClassifyTrash, Job, JobInv
<1>2. Act \in Action /\ SoundAction(Act) /\ InFlight(Act)
    <2>1. job.item \in InFlightItems(Manifest) /\ job.item \in DOMAIN Manifest.acts
        BY <1>1 DEF Job, JobInv, JobOK, AnyJob, InFlightItems
    <2>2. job.run \in RunIndex /\ Sound(Manifest)
        BY <1>1, ManifestTyped DEF Job, AllSound, Manifest
    <2>3. Act \in Action
        BY <1>1, <2>1, ManifestTyped DEF Job, Act
    <2> QED
        BY <2>1, <2>2, <2>3 DEF Sound, Act, InFlightItems
<1>3. \A before, after \in BOOLEAN : \A value \in Observation :
        LET new == Classified(Act, before, after, value)
        IN  new \in Action /\ SoundAction(new)
    BY <1>2, ClassifiedTyped, ClassifiedSound
<1>4. (\E before, after \in BOOLEAN : \E value \in Observation :
            JournalClassified(Classified(Act, before, after, value)))
        => AllSound' /\ TodoInv'
    BY <1>1, <1>3, JournalClassifiedSound
<1>5. \A x, y : Matches(x, y) \in BOOLEAN
    BY DEF Matches
<1>6. CASE ClassifyCommand
    <2>1. \/ Stop /\ UNCHANGED journal
          \/ \E o, expected \in Observation :
                JournalClassified(Classified(Act, Matches(o, Act.before),
                                             Matches(o, expected), o))
        <3>1. (IF Act.after = NoObservation THEN "absent" ELSE Act.after) \in Observation
            BY <1>2 DEF Action, Observation, Value
        <3> QED
            BY <1>6, <3>1 DEF ClassifyCommand
    <2>2. CASE Stop /\ UNCHANGED journal
        BY <2>2, PapersUnchanged, StopHasNoTodo DEF AllSound
    <2> QED
        BY <1>4, <1>5, <2>1, <2>2
<1>7. CASE ClassifyTrash
    <2>1. PICK origin \in Observation, trash \in Observation :
            LET applied == IF Act.after = NoObservation THEN Act.before ELSE Act.after
                beforeMatch == Matches(origin, Act.before) /\ trash = "absent"
                afterMatch == origin = "absent" /\ Matches(trash, applied)
            IN  JournalClassified(Classified(Act, beforeMatch, afterMatch,
                                             IF beforeMatch THEN origin ELSE trash))
        BY <1>7 DEF ClassifyTrash
    <2>2. \A b : (IF b THEN origin ELSE trash) \in Observation
        OBVIOUS
    <2>3. \A b \in BOOLEAN : \A x, y :
            /\ (b /\ trash = "absent") \in BOOLEAN
            /\ (origin = "absent" /\ Matches(x, y)) \in BOOLEAN
        BY <1>5
    <2> QED
        BY <1>4, <1>5, <2>1, <2>2, <2>3, Zenon
<1> QED
    BY <1>6, <1>7

\* The steps of an apply job.
LEMMA ApplyStepSound ==
    ASSUME Papers, Job, AllSound, TodoInv, StartAction \/ CheckBefore \/ VerifyAfter
    PROVE  AllSound' /\ TodoInv'
<1>1. /\ {"verification_failed", "partial", "in_progress"} \subseteq
                RunState \ {"succeeded", "undone"}
      /\ Value \subseteq Observation \cup {NoObservation}
      /\ NoObservation \in Observation \cup {NoObservation}
    BY DEF RunState, Observation
<1>2. CASE StartAction
    <2>1. job.mode = "apply" /\ job.item \in DOMAIN Manifest.acts /\ job \in AnyJob
        BY <1>2 DEF StartAction, Job, JobOK, JobInv
    <2>2. Act \in Action /\ "in_progress" \in ActionState
        BY <2>1, ManifestTyped DEF Job, Act, ActionState
    <2>3. /\ SoundAction([Act EXCEPT !.state = "in_progress", !.after = Act.after])
          /\ Act.after \in Observation \cup {NoObservation}
        BY <2>2 DEF Action, SoundAction, ValidAction
    <2>4. Record("in_progress", Act.after, "in_progress") /\ job' = [job EXCEPT !.step = "check"]
        BY <1>2 DEF StartAction, Goto
    <2>5. AllSound'
        BY <1>1, <2>1, <2>2, <2>3, <2>4, RecordSound
    <2>6. job'.mode = "apply"
        BY <2>1, <2>4 DEF AnyJob
    <2> QED
        BY <2>5, <2>6, ApplyHasNoTodo
<1>3. CASE CheckBefore
    <2>1. Acting
        BY <1>3 DEF CheckBefore, Acting
    <2>2. \/ Interrupt
          \/ Record("failed", NoObservation, "verification_failed") /\ Stop
          \/ Goto("act") /\ UNCHANGED journal
        BY <1>3 DEF CheckBefore
    <2> QED
        BY <1>1, <2>1, <2>2, InterruptSound, RecordAndStopSound, GotoSound
<1>4. CASE VerifyAfter
    <2>1. Acting /\ job.mode = "apply"
        BY <1>4 DEF VerifyAfter, Acting
    <2>2. PICK o \in Observation \cup {Raised} :
            \/ Interrupt
            \/ o \in Value /\ Verified(o)
            \/ o \in Value /\ Record("failed", o, "verification_failed") /\ Stop
            \/ o \in Value /\ Record("failed", o, "partial") /\ Stop
        BY <1>4 DEF VerifyAfter
    <2>3. CASE Interrupt
        BY <2>1, <2>3, InterruptSound
    <2>4. CASE o \in Value /\ Verified(o)
        BY <2>1, <2>4, VerifiedSound
    <2>5. CASE o \in Value /\ Record("failed", o, "verification_failed") /\ Stop
        BY <1>1, <2>1, <2>5, RecordAndStopSound
    <2>6. CASE o \in Value /\ Record("failed", o, "partial") /\ Stop
        BY <1>1, <2>1, <2>6, RecordAndStopSound
    <2> QED
        BY <2>2, <2>3, <2>4, <2>5, <2>6
<1> QED
    BY <1>2, <1>3, <1>4

\* The steps of an undo job.
LEMMA UndoStepSound ==
    ASSUME Papers, Job, AllSound, TodoInv, StartUndo \/ CheckUndo \/ VerifyUndo
    PROVE  AllSound' /\ TodoInv'
<1>1. CASE UndoStarted
    BY <1>1, UndoStartedSound
<1>2. CASE UndoNotStarted
    BY <1>2, PapersUnchanged, StopHasNoTodo DEF UndoNotStarted, AllSound
<1>3. CASE CheckUndo
    <2>1. Acting /\ job.mode = "undo"
        BY <1>3 DEF CheckUndo, Acting
    <2>2. PICK o \in Observation \cup {Raised} :
            \/ Interrupt
            \/ Record("undo_failed", Act.after, "undo_partial") /\ Stop
            \/ o # Raised /\ Matches(o, Act.before) /\ Restored(o)
            \/ Goto("act") /\ UNCHANGED journal
        BY <1>3 DEF CheckUndo
    <2>3. /\ "undo_partial" \in RunState \ {"succeeded", "undone"}
          /\ Act.after \in Observation \cup {NoObservation} /\ Act.before \in Value
        BY <2>1, ActingTyped DEF RunState, Action
    <2>4. CASE o # Raised /\ Matches(o, Act.before) /\ Restored(o)
        <3>1. o \in Value
            BY <2>3, <2>4 DEF Matches, Unknown, Value
        <3> QED
            BY <2>1, <2>4, <3>1, RestoredSound
    <2> QED
        BY <2>1, <2>2, <2>3, <2>4, InterruptSound, RecordAndStopSound, GotoSound
<1>4. CASE VerifyUndo
    <2>1. Acting /\ job.mode = "undo" /\ "present" \in Value
        BY <1>4 DEF VerifyUndo, Acting, Value
    <2>2. Interrupt \/ Restored("present")
        BY <1>4 DEF VerifyUndo
    <2> QED
        BY <2>1, <2>2, InterruptSound, RestoredSound
<1> QED
    BY <1>1, <1>2, <1>3, <1>4 DEF StartUndo

\* The steps of either that change the host.
LEMMA MutationSound ==
    ASSUME Papers, Job, MachineOK, AllSound, TodoInv,
           RunCommand \/ CheckMove \/ Rename \/ VerifyMove
    PROVE  AllSound' /\ TodoInv'
<1>1. CASE RunCommand \/ Rename
    <2>1. Acting /\ UNCHANGED runs
        BY <1>1 DEF RunCommand, Rename, Acting, journal
    <2>2. PICK ok \in BOOLEAN : job' = [job EXCEPT !.step = "verify", !.ok = ok]
        BY <1>1 DEF RunCommand, Rename
    <2> QED
        BY <2>1, <2>2, GoesOnSound
<1>2. CASE CheckMove
    <2>1. Acting /\ (Interrupt \/ (Goto("act") /\ UNCHANGED journal))
        BY <1>2 DEF CheckMove, Acting
    <2> QED
        BY <2>1, InterruptSound, GotoSound
<1>3. CASE VerifyMove
    <2>1. Acting /\ job.mode \in {"apply", "undo"}
        BY <1>3 DEF VerifyMove, Acting, Job, JobOK, JobInv, AnyJob
    <2>2. MoveDestination \in Value
        BY <2>1, ActingTyped DEF MachineOK, MoveDestination
    <2>3. \/ Interrupt
          \/ job.mode = "apply" /\ Verified(MoveDestination)
          \/ job.mode = "undo" /\ Restored(MoveDestination)
        BY <1>3, <2>1 DEF VerifyMove
    <2> QED
        BY <2>1, <2>2, <2>3, InterruptSound, VerifiedSound, RestoredSound
<1> QED
    BY <1>1, <1>2, <1>3

-----------------------------------------------------------------------------
(* The beginning of a job.                                                 *)

\* A new run is journaled with its actions pending.
LEMMA BeginApplySound ==
    ASSUME IInv, AllSound, NEW c \in Command, BeginApply(c)
    PROVE  AllSound' /\ TodoInv'
<1> DEFINE acts == [i \in PlanItems(plan) |->
                        [state |-> "pending", before |-> host[i], after |-> NoObservation]]
           m == [plan |-> plan, state |-> "prepared", acts |-> acts]
<1>1. consent[c].verb = "APPLY" /\ plan = consent[c].subject /\ runs' = Append(runs, m)
    BY DEF BeginApply, MayApply
<1>2. plan \in 1..Len(PlanSize)
    BY <1>1 DEF IInv, ConsentInv
<1>3. DOMAIN acts = 1..PlanSize[plan] /\ PlanSize[plan] \in Nat \ {0}
    BY <1>2, PlanItemsTyped
<1>4. \A i \in DOMAIN acts : SoundAction(acts[i])
    BY DEF SoundAction, ValidAction
<1> HIDE DEF acts
<1>5. acts # <<>>
    BY <1>3
<1>6. Sound(m)
    BY <1>4, <1>5 DEF Sound, ValidManifest, SoundAction
<1> HIDE DEF m
<1>7. runs \in Seq(AnyManifest) /\ RunIndex = 1..Len(runs) /\ Len(runs) \in Nat
    BY DEF IInv, TypeOK, JournalOK, RunIndex
<1>8. DOMAIN runs' = RunIndex \cup {Len(runs) + 1} /\ runs'[Len(runs) + 1] = m
      /\ \A r \in RunIndex : runs'[r] = runs[r]
    <2>1. runs \in Seq(AnyManifest \cup {m}) /\ m \in AnyManifest \cup {m}
        BY <1>7
    <2> QED
        BY <1>1, <1>7, <2>1
<1>9. AllSound'
    BY <1>6, <1>8 DEF AllSound, RunIndex
<1>10. job'.mode = "apply"
    BY DEF BeginApply, Idle
<1> QED
    BY <1>9, <1>10, ApplyHasNoTodo

\* Undo sets out to classify, or to reverse all that can be.
LEMMA BeginUndoSound ==
    ASSUME IInv, AllSound, NEW c \in Command, BeginUndo(c)
    PROVE  AllSound' /\ TodoInv'
<1> DEFINE run == consent[c].subject
           m == runs[run]
<1>1. UNCHANGED runs
    BY DEF BeginUndo
<1>2. AllSound'
    BY <1>1 DEF AllSound, RunIndex
<1>3. CASE NeedsClassification(m)
    <2>1. job'.step = "classify"
        BY <1>3 DEF BeginUndo, Idle
    <2> QED
        BY <1>2, <2>1 DEF TodoInv, Acting
<1>4. CASE ~NeedsClassification(m)
    <2>1. job' = [Idle EXCEPT !.mode = "undo", !.run = run, !.reviewed = consent[c].items,
                              !.step = "start", !.todo = RecoverableItems(m)]
        BY <1>4 DEF BeginUndo
    <2>2. job'.step = "start" /\ job'.todo = RecoverableItems(m) /\ job'.run = run
        BY <2>1 DEF Idle
    <2>3. Manifest' = m
        BY <1>1, <2>2 DEF Manifest
    <2> QED
        BY <1>2, <2>2, <2>3 DEF TodoInv, Acting
<1> QED
    BY <1>3, <1>4

-----------------------------------------------------------------------------
(* The invariant and what follows from it.                                 *)

\* No run and no job is the start of UInv.
LEMMA InitIsSound == Init => UInv
<1> SUFFICES ASSUME Init PROVE AllSound /\ TodoInv
    BY InitHolds DEF UInv
<1>1. AllSound
    BY DEF Init, AllSound, RunIndex
<1>2. TodoInv
    BY DEF Init, TodoInv, Idle, Acting
<1> QED
    BY <1>1, <1>2

\* Every step of a job, and every other step.
LEMMA NextKeepsUInv == UInv /\ [Next]_vars => UInv'
<1> SUFFICES ASSUME UInv, [Next]_vars PROVE UInv'
    OBVIOUS
<1>1. IInv' /\ IInv /\ AllSound /\ TodoInv
    BY NextKeepsIInv DEF UInv
<1>2. Papers /\ Job /\ MachineOK
    BY <1>1 DEF IInv, TypeOK, Papers, Job
<1>3. CASE UNCHANGED <<runs, job>>
    BY <1>1, <1>3 DEF UInv, AllSound, TodoInv, RunIndex, Manifest, Acting
<1>4. CASE JobStep
    BY <1>1, <1>2, <1>4, ApplyStepSound, ClassifySound, UndoStepSound, MutationSound
    DEF JobStep, UInv
<1>5. CASE \E c \in Command : BeginApply(c)
    BY <1>1, <1>5, BeginApplySound DEF UInv
<1>6. CASE \E c \in Command : BeginUndo(c)
    BY <1>1, <1>6, BeginUndoSound DEF UInv
<1>7. CASE Crash \/ CrashAlone
    <2>1. Stop /\ UNCHANGED runs
        BY <1>7 DEF Crash, CrashAlone, journal
    <2> QED
        BY <1>1, <2>1, StopHasNoTodo DEF UInv, AllSound, RunIndex
<1> QED
    BY <1>3, <1>4, <1>5, <1>6, <1>7
    DEF Next, vars, journal, AddPlan, ReviewApply, ReviewUndo, RefuseApply, RefuseUndo,
        OrphanEnds, Drift

\* UInv is an invariant of the specification.
LEMMA UndoInvariant == Spec => []UInv
BY InitIsSound, NextKeepsUInv, PTL DEF Spec

\* Every manifest that is journaled passes the validators of the model, so none
\* raises in the middle of a run, after the host has been changed.
THEOREM ManifestsStayValid == Spec => []ManifestsAreValid
<1>1. UInv => ManifestsAreValid
    BY DEF UInv, AllSound, Sound, ManifestsAreValid
<1> QED
    BY <1>1, UndoInvariant, PTL

\* Whatever was interrupted, classified or retried, an action is undone only
\* once no later action of its run can still be reversed.
THEOREM UndoneLatestFirst == Spec => []UndoneInReverse
<1>1. UInv => UndoneInReverse
    <2> SUFFICES ASSUME UInv, job.mode = "undo", Acting,
                        NEW j \in DOMAIN Manifest.acts, j > job.item,
                        Recoverable(Manifest.acts[j])
                 PROVE  FALSE
        BY DEF UndoneInReverse, Acting
    <2>1. Papers /\ Job /\ job.item \in job.todo /\ job.todo \subseteq DOMAIN Manifest.acts
        BY DEF UInv, IInv, TypeOK, Papers, Job, JobInv
    <2>2. Len(Manifest.acts) \in Nat /\ DOMAIN Manifest.acts = 1..Len(Manifest.acts)
        BY <2>1, ManifestTyped DEF Job
    <2>3. \A i \in job.todo : i <= job.item
        <3>1. job.item = Highest(job.todo)
            BY DEF UInv, TodoInv
        <3> QED
            BY <2>1, <2>2, <3>1, HighestIn
    <2>4. j \in job.todo
        BY DEF UInv, TodoInv, RecoverableItems
    <2> QED
        BY <2>1, <2>2, <2>3, <2>4
<1> QED
    BY <1>1, UndoInvariant, PTL

=============================================================================
