---------------------------- MODULE CleanupProofs ----------------------------
(***************************************************************************)
(* Proofs about the execution of cleanup plans, for any commands, plans,   *)
(* kinds of items and budgets of failures.                                 *)
(*                                                                         *)
(* The inductive invariant IInv adds to the types what a job in progress   *)
(* knows: that its run and item exist and are the ones the journal names   *)
(* last (JobInv, MarkInv), and that what it has been approved for covers   *)
(* what it is still going to do (ConsentInv, ReviewInv).                   *)
(***************************************************************************)
EXTENDS CleanupProperties, FiniteSetTheorems, TLAPS

Acting == job.step \in {"check", "act", "verify"}
Mark == IF job.mode = "apply" THEN "in_progress" ELSE "undo_in_progress"

\* A command that works holds the lock, and has a run and items to work on.
JobInv ==
    /\ lockHolder = NoCommand => job = Idle
    /\ job.mode = "none" <=> job.step = "none"
    /\ job.mode # "none" => job.run \in RunIndex
    /\ job.mode = "apply" =>
          job.step # "classify" /\ job.item \in DOMAIN Manifest.acts
    /\ job.mode = "undo" =>
          /\ job.todo \subseteq DOMAIN Manifest.acts
          /\ job.step = "start" => job.todo # {}
          /\ Acting => job.item \in job.todo
          /\ job.step = "classify" => job.item \in InFlightItems(Manifest)

\* While it acts, the newest revision of the journal marks its action.
MarkInv ==
    Acting => job.run = Active /\ Act.state = Mark /\ Manifest.state = Mark

\* An approval covers the plan revision it names; while its manifest is the
\* newest of its run, it covers what undo could reverse or classify.
ConsentInv ==
    \A c \in Command :
        /\ consent[c].verb = "APPLY" =>
              /\ consent[c].subject \in 1..Len(PlanSize)
              /\ consent[c].items = PlanItems(consent[c].subject)
        /\ consent[c].verb = "UNDO" =>
              /\ consent[c].subject \in RunIndex
              /\ consent[c].fresh =>
                    consent[c].items = RecoverableItems(runs[consent[c].subject])
                                         \cup InFlightItems(runs[consent[c].subject])

\* What a job may still do has been approved.
ReviewInv ==
    /\ job.mode = "apply" => job.reviewed = DOMAIN Manifest.acts
    /\ job.mode = "undo" =>
          /\ job.todo \subseteq job.reviewed
          /\ job.step = "classify" =>
                RecoverableItems(Manifest) \cup InFlightItems(Manifest) \subseteq job.reviewed

Papers == JournalOK /\ ConsentInv
Job == JobOK /\ JobInv /\ MarkInv /\ ReviewInv
IInv == TypeOK /\ JobInv /\ MarkInv /\ ConsentInv /\ ReviewInv

-----------------------------------------------------------------------------
(* Least and greatest items.                                               *)

\* A set of positions of a sequence has a lowest member, if it has any.
LEMMA LowestIn ==
    ASSUME NEW n \in Nat, NEW S \in SUBSET (1..n), S # {}
    PROVE  Lowest(S) \in S /\ \A j \in S : Lowest(S) <= j
<1> DEFINE Below == {1..i : i \in S}
<1>1. Below \in SUBSET FiniteSubsetsOf(1..n) /\ Below # {}
    <2>1. \A i \in S : 1..i \subseteq 1..n /\ IsFiniteSet(1..i)
        BY FS_Interval
    <2> QED
        BY <2>1 DEF FiniteSubsetsOf
<1>2. PICK B \in Below : \A C \in Below : ~(<<C, B>> \in StrictSubsetOrdering(1..n))
    BY <1>1, FS_StrictSubsetOrderingWellFounded, WFMin
<1>3. PICK i \in S : B = 1..i
    OBVIOUS
<1>4. \A j \in S : i <= j
    <2> SUFFICES ASSUME NEW j \in S, j < i PROVE FALSE
        OBVIOUS
    <2>1. 1..j \subseteq 1..i /\ i \in 1..i /\ i \notin 1..j /\ 1..i \subseteq 1..n
        OBVIOUS
    <2>2. 1..j \in Below
        OBVIOUS
    <2> QED
        BY <1>2, <1>3, <2>1, <2>2 DEF StrictSubsetOrdering
<1> QED
    BY <1>4 DEF Lowest

\* And a highest one.
LEMMA HighestIn ==
    ASSUME NEW n \in Nat, NEW S \in SUBSET (1..n), S # {}
    PROVE  Highest(S) \in S /\ \A j \in S : j <= Highest(S)
<1> DEFINE Mirror == {n + 1 - i : i \in S}
<1>1. Mirror \in SUBSET (1..n) /\ Mirror # {}
    <2>1. \A i \in S : n + 1 - i \in 1..n
        OBVIOUS
    <2> QED
        BY <2>1
<1>2. PICK m \in Mirror : \A k \in Mirror : m <= k
    BY <1>1, LowestIn
<1>3. PICK i \in S : m = n + 1 - i
    OBVIOUS
<1>4. \A j \in S : j <= i
    <2> TAKE j \in S
    <2>1. n + 1 - j \in Mirror
        OBVIOUS
    <2>2. n + 1 - i <= n + 1 - j
        BY <1>2, <1>3, <2>1
    <2> QED
        BY <2>2
<1> QED
    BY <1>3, <1>4 DEF Highest

-----------------------------------------------------------------------------
(* The journal.                                                            *)

\* The newest run, if there is one, is a run.
LEMMA ActiveIsRun ==
    ASSUME JournalOK, recency # <<>>
    PROVE  Active \in RunIndex
BY DEF JournalOK, Active

\* What undo is offered is a run.
LEMMA LatestUndoableIsRun ==
    ASSUME JournalOK, LatestUndoable # 0
    PROVE  LatestUndoable \in RunIndex
<1> DEFINE found == {k \in DOMAIN recency : Undoable(runs[recency[k]])}
<1>1. found \in SUBSET (1..Len(recency)) /\ Len(recency) \in Nat
    BY DEF JournalOK
<1>2. found # {}
    BY DEF LatestUndoable
<1>3. Highest(found) \in DOMAIN recency
    BY <1>1, <1>2, HighestIn
<1>4. LatestUndoable = recency[Highest(found)]
    BY <1>2 DEF LatestUndoable
<1> QED
    BY <1>3, <1>4 DEF JournalOK

\* Journaling a run moves it to the end of recency and loses no other.
LEMMA NewestLastPermutes ==
    ASSUME JournalOK, NEW r \in RunIndex
    PROVE  /\ NewestLast(r) \in Seq(RunIndex) /\ Len(NewestLast(r)) = Len(recency)
           /\ NewestLast(r)[Len(recency)] = r /\ recency # <<>>
           /\ \A s \in RunIndex : \E k \in DOMAIN recency : NewestLast(r)[k] = s
<1> DEFINE n == Len(recency)
           at == CHOOSE k \in DOMAIN recency : recency[k] = r
           new == [k \in 1..n |-> IF k < at THEN recency[k]
                                  ELSE IF k = n THEN r ELSE recency[k + 1]]
<1>1. at \in 1..n /\ recency[at] = r /\ n \in Nat /\ recency \in [1..n -> RunIndex]
    BY DEF JournalOK
<1>2. NewestLast(r) = new
    BY <1>1 DEF NewestLast
<1> HIDE DEF n, at
<1>3. new \in [1..n -> RunIndex]
    BY <1>1
<1>4. new \in Seq(RunIndex) /\ Len(new) = n
    BY <1>1, <1>3
<1>5. new[n] = r
    BY <1>1
<1>6. ASSUME NEW s \in RunIndex PROVE \E k \in 1..n : new[k] = s
    <2>1. PICK k \in 1..n : recency[k] = s
        BY <1>1 DEF JournalOK, n
    <2>2. CASE k < at
        BY <1>1, <2>1, <2>2
    <2>3. CASE k = at
        BY <1>1, <1>5, <2>1, <2>3
    <2>4. CASE k > at
        <3>1. k - 1 \in 1..n /\ ~(k - 1 < at) /\ k - 1 # n
            BY <1>1, <2>4
        <3>2. new[k - 1] = recency[k]
            BY <1>1, <3>1
        <3> QED
            BY <2>1, <3>1, <3>2
    <2> QED
        BY <1>1, <2>2, <2>3, <2>4
<1>7. recency # <<>> /\ DOMAIN recency = 1..n
    BY <1>1
<1> HIDE DEF new
<1> QED
    BY <1>2, <1>4, <1>5, <1>6, <1>7 DEF n

\* What a new revision of a run changes: it becomes the newest run, keeps its
\* plan and the number of its actions, and approvals of it are void.
LEMMA JournalEffect ==
    ASSUME JournalOK, ConsentInv, NEW r \in RunIndex, NEW m \in AnyManifest,
           m.plan = runs[r].plan, Len(m.acts) = Len(runs[r].acts), Journal(r, m)
    PROVE  /\ Papers' /\ RunIndex' = RunIndex /\ Active' = r
           /\ runs'[r] = m /\ \A s \in RunIndex \ {r} : runs'[s] = runs[s]
<1>1. runs' = [runs EXCEPT ![r] = m] /\ recency' = NewestLast(r)
    BY DEF Journal
<1>2. runs \in [1..Len(runs) -> AnyManifest] /\ Len(runs) \in Nat
    BY DEF JournalOK
<1>3. /\ runs' \in Seq(AnyManifest) /\ RunIndex' = RunIndex /\ Len(runs') = Len(runs)
      /\ runs'[r] = m /\ \A s \in RunIndex \ {r} : runs'[s] = runs[s]
    BY <1>1, <1>2 DEF RunIndex
<1>4. \A s \in RunIndex : Len(runs'[s].acts) = PlanSize[runs'[s].plan]
    BY <1>3 DEF JournalOK, ActsOf
<1>5. consent' \in [Command -> AnyConsent]
    <2>1. \A c \in Command : consent[c] \in AnyConsent
        BY DEF JournalOK
    <2>2. \A a \in AnyConsent : [a EXCEPT !.fresh = FALSE] \in AnyConsent
        BY DEF AnyConsent
    <2> QED
        BY <2>1, <2>2 DEF Journal
<1>6. JournalOK'
    <2>1. /\ recency' \in Seq(RunIndex) /\ Len(recency') = Len(recency)
          /\ \A s \in RunIndex : \E k \in DOMAIN recency : recency'[k] = s
        BY <1>1, NewestLastPermutes
    <2>2. DOMAIN recency' = DOMAIN recency
        BY <2>1 DEF JournalOK
    <2> QED
        BY <1>3, <1>4, <1>5, <2>1, <2>2 DEF JournalOK, ActsOf
<1>7. Active' = r
    <2>1. /\ recency' \in Seq(RunIndex) /\ Len(recency') = Len(recency)
          /\ recency'[Len(recency)] = r /\ recency # <<>> /\ recency \in Seq(RunIndex)
        BY <1>1, NewestLastPermutes DEF JournalOK
    <2>2. recency' # <<>>
        BY <2>1
    <2> QED
        BY <2>1, <2>2 DEF Active
<1>8. ConsentInv'
    <2> SUFFICES ASSUME NEW c \in Command
                 PROVE  /\ consent'[c].verb = "APPLY" =>
                              /\ consent'[c].subject \in 1..Len(PlanSize)
                              /\ consent'[c].items = PlanItems(consent'[c].subject)
                        /\ consent'[c].verb = "UNDO" =>
                              /\ consent'[c].subject \in RunIndex'
                              /\ consent'[c].fresh =>
                                    consent'[c].items =
                                        RecoverableItems(runs'[consent'[c].subject])
                                        \cup InFlightItems(runs'[consent'[c].subject])
        BY DEF ConsentInv
    <2>1. consent[c] \in AnyConsent
        BY DEF JournalOK
    <2>2. CASE consent[c].verb = "UNDO" /\ consent[c].subject = r
        <3>1. consent'[c] = [consent[c] EXCEPT !.fresh = FALSE]
            BY <2>2 DEF Journal
        <3> QED
            BY <1>3, <2>1, <2>2, <3>1 DEF AnyConsent
    <2>3. CASE ~(consent[c].verb = "UNDO" /\ consent[c].subject = r)
        <3>1. consent'[c] = consent[c]
            BY <2>3 DEF Journal
        <3> QED
            BY <1>3, <2>1, <2>3, <3>1 DEF ConsentInv
    <2> QED
        BY <2>2, <2>3
<1> QED
    BY <1>3, <1>6, <1>7, <1>8 DEF Papers

-----------------------------------------------------------------------------
(* The steps of a job.                                                     *)

\* The manifest of a job in progress, and its actions.
LEMMA ManifestTyped ==
    ASSUME Papers, JobOK, JobInv, job.mode # "none"
    PROVE  /\ job.run \in RunIndex /\ Manifest \in AnyManifest
           /\ Manifest.acts \in [1..Len(Manifest.acts) -> Action]
           /\ Len(Manifest.acts) \in Nat /\ Len(Manifest.acts) = PlanSize[Manifest.plan]
           /\ DOMAIN Manifest.acts = 1..Len(Manifest.acts)
           /\ DOMAIN Manifest.acts \subseteq Item
<1>1. job.run \in RunIndex
    BY DEF JobInv
<1>2. Manifest \in AnyManifest /\ Len(Manifest.acts) = PlanSize[Manifest.plan]
    BY <1>1 DEF Manifest, Papers, JournalOK, RunIndex, ActsOf
<1>3. Manifest.acts \in Seq(Action) /\ Manifest.plan \in 1..Len(PlanSize)
    BY <1>2 DEF AnyManifest
<1>4. Len(Manifest.acts) \in 1..Len(Kind) /\ Item = 1..Len(Kind) /\ Len(Kind) \in Nat
    BY <1>2, <1>3, PlanSizeAssumption, KindAssumption DEF Item
<1> QED
    BY <1>1, <1>2, <1>3, <1>4

\* A manifest with one action and its state replaced.
LEMMA ManifestWith ==
    ASSUME NEW m \in AnyManifest, NEW i \in DOMAIN m.acts, NEW act \in Action,
           NEW state \in RunState
    PROVE  LET new == [WithAction(m, i, act) EXCEPT !.state = state]
           IN  /\ new \in AnyManifest /\ new.plan = m.plan /\ new.state = state
               /\ Len(new.acts) = Len(m.acts) /\ DOMAIN new.acts = DOMAIN m.acts
               /\ new.acts[i] = act
               /\ \A j \in DOMAIN m.acts \ {i} : new.acts[j] = m.acts[j]
<1>1. [m.acts EXCEPT ![i] = act] \in Seq(Action) /\ m.acts \in Seq(Action)
    BY DEF AnyManifest
<1>2. [WithAction(m, i, act) EXCEPT !.state = state]
        = [plan |-> m.plan, state |-> state, acts |-> [m.acts EXCEPT ![i] = act]]
    <2>1. m = [plan |-> m.plan, state |-> m.state, acts |-> m.acts]
        BY DEF AnyManifest
    <2>2. WithAction(m, i, act)
            = [plan |-> m.plan, state |-> m.state, acts |-> [m.acts EXCEPT ![i] = act]]
        BY <2>1 DEF WithAction
    <2> QED
        BY <2>2
<1> QED
    BY <1>1, <1>2 DEF AnyManifest

\* Recording a new state of the job's action and run.
LEMMA RecordEffect ==
    ASSUME Papers, Job, job.mode # "none", job.item \in DOMAIN Manifest.acts,
           NEW actState \in ActionState, NEW after \in Observation \cup {NoObservation},
           NEW runState \in RunState, Record(actState, after, runState)
    PROVE  /\ Papers' /\ RunIndex' = RunIndex /\ Active' = job.run
           /\ runs'[job.run].state = runState
           /\ runs'[job.run].acts[job.item].state = actState
           /\ DOMAIN runs'[job.run].acts = DOMAIN Manifest.acts
<1> DEFINE act == [Act EXCEPT !.state = actState, !.after = after]
           m == [WithAction(Manifest, job.item, act) EXCEPT !.state = runState]
<1>1. Manifest \in AnyManifest /\ job.run \in RunIndex /\ Manifest.acts[job.item] \in Action
    BY ManifestTyped DEF Job
<1>2. act \in Action /\ act.state = actState
    BY <1>1 DEF Act, Action
<1>3. /\ m \in AnyManifest /\ m.plan = Manifest.plan /\ m.state = runState
      /\ Len(m.acts) = Len(Manifest.acts) /\ DOMAIN m.acts = DOMAIN Manifest.acts
      /\ m.acts[job.item] = act
    BY <1>1, <1>2, ManifestWith
<1>4. Journal(job.run, m)
    BY DEF Record
<1> HIDE DEF m
<1>5. Papers' /\ RunIndex' = RunIndex /\ runs'[job.run] = m /\ Active' = job.run
    BY <1>1, <1>3, <1>4, JournalEffect DEF Manifest, Papers
<1> QED
    BY <1>2, <1>3, <1>5

\* A job that stops leaves nothing behind.
LEMMA StopEndsJob ==
    ASSUME Stop
    PROVE  Job'
BY DEF Stop, Job, JobOK, JobInv, MarkInv, ReviewInv, Idle, AnyJob, Acting

\* A job that goes on acting on the same item, without journaling.
LEMMA StillActing ==
    ASSUME Papers, Job, Acting, UNCHANGED <<lockHolder, journal>>,
           NEW step \in {"check", "act", "verify"}, NEW ok \in BOOLEAN,
           job' = [job EXCEPT !.step = step, !.ok = ok]
    PROVE  Papers' /\ Job'
<1>1. job \in AnyJob
    BY DEF Job, JobOK
<1>2. /\ job'.step = step /\ job'.mode = job.mode /\ job'.run = job.run /\ job'.item = job.item
      /\ job'.todo = job.todo /\ job'.reviewed = job.reviewed
    BY <1>1 DEF AnyJob
<1>3. job' \in AnyJob
    BY <1>1 DEF AnyJob
<1>4. UNCHANGED <<runs, recency, consent>>
    BY DEF journal
<1>5. Papers'
    BY <1>4 DEF Papers, JournalOK, ConsentInv, RunIndex, ActsOf
<1>6. Acting'
    BY <1>2 DEF Acting
<1>7. Manifest' = Manifest /\ Act' = Act /\ Active' = Active /\ RunIndex' = RunIndex /\ Mark' = Mark
    BY <1>2, <1>4 DEF Manifest, Act, Active, RunIndex, Mark
<1>8. job # Idle /\ lockHolder # NoCommand /\ job.mode # "none" /\ job'.step # "none"
    BY <1>2 DEF Job, JobInv, Acting, Idle
<1>9. JobOK' /\ MarkInv' /\ ReviewInv'
    BY <1>1, <1>2, <1>3, <1>6, <1>7 DEF Job, JobOK, MarkInv, ReviewInv, Acting
<1>10. JobInv'
    BY <1>2, <1>6, <1>7, <1>8 DEF Job, JobInv, Acting
<1> QED
    BY <1>5, <1>9, <1>10 DEF Job

\* A job that marks an action of its run in the journal goes on to act on it.
LEMMA NowActing ==
    ASSUME Papers', Job, job.mode # "none", UNCHANGED lockHolder, RunIndex' = RunIndex,
           NEW i \in DOMAIN Manifest.acts,
           job' = [job EXCEPT !.step = "check", !.item = i],
           job.mode = "undo" => i \in job.todo,
           DOMAIN runs'[job.run].acts = DOMAIN Manifest.acts,
           Active' = job.run, runs'[job.run].state = Mark, runs'[job.run].acts[i].state = Mark,
           DOMAIN Manifest.acts \subseteq Item
    PROVE  Job'
<1>1. job \in AnyJob
    BY DEF Job, JobOK
<1>2. /\ job'.step = "check" /\ job'.mode = job.mode /\ job'.run = job.run /\ job'.item = i
      /\ job'.todo = job.todo /\ job'.reviewed = job.reviewed
    BY <1>1 DEF AnyJob
<1>3. job' \in AnyJob
    BY <1>1 DEF AnyJob
<1>4. /\ Manifest'.state = Mark' /\ Act'.state = Mark'
      /\ DOMAIN Manifest'.acts = DOMAIN Manifest.acts
    BY <1>2 DEF Manifest, Act, Mark
<1>5. job # Idle /\ lockHolder # NoCommand
    BY DEF Job, JobInv, Idle
<1>6. JobOK' /\ MarkInv' /\ ReviewInv'
    BY <1>2, <1>3, <1>4 DEF Job, JobOK, MarkInv, ReviewInv
<1>7. JobInv'
    BY <1>2, <1>4, <1>5 DEF Job, JobInv, Acting
<1> QED
    BY <1>6, <1>7 DEF Job

\* The start of an action marks it in the journal.
LEMMA StartActionKeeps ==
    ASSUME Papers, Job, StartAction
    PROVE  Papers' /\ Job'
<1>1. job.mode = "apply" /\ job.step = "start" /\ job.item \in DOMAIN Manifest.acts
    BY DEF StartAction, Job, JobInv
<1>2. Act \in Action /\ DOMAIN Manifest.acts \subseteq Item
    BY <1>1, ManifestTyped DEF Job, Act
<1>3. "in_progress" \in ActionState /\ "in_progress" \in RunState
    BY DEF ActionState, RunState
<1>4. Act.after \in Observation \cup {NoObservation}
    BY <1>2 DEF Action
<1>5. Record("in_progress", Act.after, "in_progress")
    BY DEF StartAction
<1>6. /\ Papers' /\ RunIndex' = RunIndex /\ Active' = job.run
      /\ runs'[job.run].state = "in_progress"
      /\ runs'[job.run].acts[job.item].state = "in_progress"
      /\ DOMAIN runs'[job.run].acts = DOMAIN Manifest.acts
    BY <1>1, <1>3, <1>4, <1>5, RecordEffect
<1>7. job' = [job EXCEPT !.step = "check", !.item = job.item] /\ UNCHANGED lockHolder
    BY DEF StartAction, Goto, Job, JobOK, AnyJob
<1> QED
    BY <1>1, <1>2, <1>6, <1>7, NowActing DEF Mark

\* Recording an outcome and stopping, as every failure does.
LEMMA RecordAndStopKeeps ==
    ASSUME Papers, Job, Acting,
           NEW actState \in ActionState, NEW after \in Observation \cup {NoObservation},
           NEW runState \in RunState, Record(actState, after, runState), Stop
    PROVE  Papers' /\ Job'
<1>1. job.mode # "none" /\ job.item \in DOMAIN Manifest.acts
    BY DEF Job, JobInv, JobOK, AnyJob, Acting
<1>2. Papers'
    BY <1>1, RecordEffect
<1> QED
    BY <1>2, StopEndsJob

\* What a job in the middle of an action knows of it.
LEMMA ActingTyped ==
    ASSUME Papers, Job, Acting
    PROVE  /\ job.mode # "none" /\ job.item \in DOMAIN Manifest.acts /\ job.item \in Item
           /\ Act \in Action /\ Manifest \in AnyManifest
<1>1. job.mode # "none" /\ job.item \in DOMAIN Manifest.acts
    BY DEF Job, JobInv, JobOK, AnyJob, Acting
<1> QED
    BY <1>1, ManifestTyped DEF Job, Act

\* An interruption journals the run as interrupted and ends the job.
LEMMA InterruptKeeps ==
    ASSUME Papers, Job, Acting, Interrupt
    PROVE  Papers' /\ Job'
<1>1. Act.state \in ActionState /\ Act.after \in Observation \cup {NoObservation}
    BY ActingTyped DEF Action
<1>2. "interrupted" \in RunState /\ Record(Act.state, Act.after, "interrupted") /\ Stop
    BY DEF RunState, Interrupt
<1> QED
    BY <1>1, <1>2, RecordAndStopKeeps

\* A verified action: on to the next one, which exists, or to the end.
LEMMA VerifiedKeeps ==
    ASSUME Papers, Job, Acting, job.mode = "apply", NEW value \in Value, Verified(value)
    PROVE  Papers' /\ Job'
<1> DEFINE acts == [Manifest.acts EXCEPT ![job.item] =
                        [@ EXCEPT !.state = "verified", !.after = value]]
           state == IF \A i \in DOMAIN acts : acts[i].state = "verified"
                    THEN "succeeded" ELSE "in_progress"
           m == [Manifest EXCEPT !.acts = acts, !.state = state]
<1>1. /\ job.item \in DOMAIN Manifest.acts /\ Act \in Action /\ Act = Manifest.acts[job.item]
      /\ Manifest \in AnyManifest /\ job.run \in RunIndex
      /\ Len(Manifest.acts) \in Nat /\ DOMAIN Manifest.acts = 1..Len(Manifest.acts)
      /\ DOMAIN Manifest.acts \subseteq Item
    BY ActingTyped, ManifestTyped DEF Job, Act
<1>2. [Act EXCEPT !.state = "verified", !.after = value] \in Action
    BY <1>1 DEF Action, ActionState, Observation
<1>3. acts \in Seq(Action) /\ Len(acts) = Len(Manifest.acts)
      /\ DOMAIN acts = DOMAIN Manifest.acts
    BY <1>1, <1>2 DEF AnyManifest
<1> HIDE DEF acts
<1>4. state \in RunState
    BY DEF RunState
<1> HIDE DEF state
<1>5. m \in AnyManifest /\ m.plan = Manifest.plan /\ m.acts = acts
    BY <1>1, <1>3, <1>4 DEF AnyManifest
<1>6. Journal(job.run, m)
    BY DEF Verified, acts, state
<1> HIDE DEF m
<1>7. Papers' /\ RunIndex' = RunIndex /\ runs'[job.run] = m
    BY <1>1, <1>3, <1>5, <1>6, JournalEffect DEF Manifest, Papers
<1>8. CASE IsLastAction
    BY <1>7, <1>8, StopEndsJob DEF Verified
<1>9. CASE ~IsLastAction
    <2>1. job' = [job EXCEPT !.step = "start", !.item = @ + 1] /\ UNCHANGED lockHolder
        BY <1>9 DEF Verified
    <2>2. job \in AnyJob
        BY DEF Job, JobOK
    <2>3. job.item + 1 \in DOMAIN Manifest.acts
        BY <1>1, <1>9 DEF IsLastAction
    <2>4. /\ job'.step = "start" /\ job'.mode = "apply" /\ job'.run = job.run
          /\ job'.item = job.item + 1 /\ job'.reviewed = job.reviewed
        BY <2>1, <2>2 DEF AnyJob
    <2>5. job' \in AnyJob
        BY <1>1, <2>1, <2>2, <2>3 DEF AnyJob
    <2>6. DOMAIN Manifest'.acts = DOMAIN Manifest.acts
        BY <1>3, <1>5, <1>7, <2>4 DEF Manifest
    <2>7. job # Idle /\ lockHolder # NoCommand
        BY DEF Job, JobInv, Acting, Idle
    <2> QED
        BY <1>7, <2>1, <2>3, <2>4, <2>5, <2>6, <2>7
        DEF Job, JobOK, JobInv, MarkInv, ReviewInv, Acting
<1> QED
    BY <1>8, <1>9

\* A step that goes on to the next part of the same action.
LEMMA GotoKeeps ==
    ASSUME Papers, Job, Acting, UNCHANGED journal,
           NEW step \in {"check", "act", "verify"}, Goto(step)
    PROVE  Papers' /\ Job'
<1>1. job.ok \in BOOLEAN /\ job' = [job EXCEPT !.step = step, !.ok = job.ok]
    BY DEF Goto, Job, JobOK, AnyJob
<1> QED
    BY <1>1, StillActing DEF Goto

\* A command action that checks its target goes on to act, or stops.
LEMMA CheckBeforeKeeps ==
    ASSUME Papers, Job, CheckBefore
    PROVE  Papers' /\ Job'
<1>1. Acting
    BY DEF CheckBefore, Acting
<1>2. PICK o \in Observation \cup {Raised} :
        \/ Interrupt
        \/ Record("failed", NoObservation, "verification_failed") /\ Stop
        \/ Goto("act") /\ UNCHANGED journal
    BY DEF CheckBefore
<1>3. "failed" \in ActionState /\ "verification_failed" \in RunState
    BY DEF ActionState, RunState
<1> QED
    BY <1>1, <1>2, <1>3, InterruptKeeps, RecordAndStopKeeps, GotoKeeps

\* A command action that has acted is verified, failed or left in flight.
LEMMA VerifyAfterKeeps ==
    ASSUME Papers, Job, VerifyAfter
    PROVE  Papers' /\ Job'
<1>1. Acting /\ job.mode = "apply"
    BY DEF VerifyAfter, Acting
<1>2. PICK o \in Observation \cup {Raised} :
        \/ Interrupt
        \/ o \in Value /\ Verified(o)
        \/ o \in Value /\ Record("failed", o, "verification_failed") /\ Stop
        \/ o \in Value /\ Record("failed", o, "partial") /\ Stop
    BY DEF VerifyAfter
<1>3. /\ "failed" \in ActionState /\ {"verification_failed", "partial"} \subseteq RunState
      /\ Value \subseteq Observation \cup {NoObservation}
    BY DEF ActionState, RunState, Observation
<1>4. CASE Interrupt
    BY <1>1, <1>4, InterruptKeeps
<1>5. CASE o \in Value /\ Verified(o)
    BY <1>1, <1>5, VerifiedKeeps
<1>6. CASE o \in Value /\ Record("failed", o, "verification_failed") /\ Stop
    BY <1>1, <1>3, <1>6, RecordAndStopKeeps
<1>7. CASE o \in Value /\ Record("failed", o, "partial") /\ Stop
    BY <1>1, <1>3, <1>7, RecordAndStopKeeps
<1> QED
    BY <1>2, <1>4, <1>5, <1>6, <1>7

\* A command changes the host and not the journal.
LEMMA RunCommandKeeps ==
    ASSUME Papers, Job, RunCommand
    PROVE  Papers' /\ Job'
<1>1. Acting /\ UNCHANGED <<lockHolder, journal>>
    BY DEF RunCommand, Acting
<1>2. PICK ok \in BOOLEAN : job' = [job EXCEPT !.step = "verify", !.ok = ok]
    BY DEF RunCommand
<1> QED
    BY <1>1, <1>2, StillActing

\* A move that checks its paths goes on to act, or is interrupted.
LEMMA CheckMoveKeeps ==
    ASSUME Papers, Job, CheckMove
    PROVE  Papers' /\ Job'
<1>1. Acting
    BY DEF CheckMove, Acting
<1>2. Interrupt \/ (Goto("act") /\ UNCHANGED journal)
    BY DEF CheckMove
<1> QED
    BY <1>1, <1>2, InterruptKeeps, GotoKeeps

\* A move changes the host and not the journal.
LEMMA RenameKeeps ==
    ASSUME Papers, Job, Rename
    PROVE  Papers' /\ Job'
<1>1. Acting /\ UNCHANGED <<lockHolder, journal>>
    BY DEF Rename, Acting
<1>2. \E ok \in BOOLEAN : job' = [job EXCEPT !.step = "verify", !.ok = ok]
    BY DEF Rename
<1> QED
    BY <1>1, <1>2, StillActing

\* An undone action: on to the others that undo has taken up, or to the end.
LEMMA RestoredKeeps ==
    ASSUME Papers, Job, Acting, job.mode = "undo", NEW value \in Value, Restored(value)
    PROVE  Papers' /\ Job'
<1> DEFINE undone == [Manifest.acts EXCEPT ![job.item] =
                        [@ EXCEPT !.state = "undone", !.after = value]]
           last == job.todo = {job.item}
           closed == last /\ \A i \in DOMAIN undone :
                                undone[i].state \in {"undone", "pending", "not_applied"}
           acts == [i \in DOMAIN undone |->
                        IF closed /\ undone[i].state = "pending"
                        THEN [undone[i] EXCEPT !.state = "not_applied"] ELSE undone[i]]
           state == IF AllReversed(acts) THEN "undone"
                    ELSE IF last THEN "undo_partial" ELSE "undo_in_progress"
           m == [Manifest EXCEPT !.acts = acts, !.state = state]
<1>1. /\ job.item \in DOMAIN Manifest.acts /\ Act \in Action /\ Act = Manifest.acts[job.item]
      /\ Manifest \in AnyManifest /\ job.run \in RunIndex
      /\ Len(Manifest.acts) \in Nat /\ DOMAIN Manifest.acts = 1..Len(Manifest.acts)
      /\ Manifest.acts \in [1..Len(Manifest.acts) -> Action]
    BY ActingTyped, ManifestTyped DEF Job, Act
<1>2. [Act EXCEPT !.state = "undone", !.after = value] \in Action
    BY <1>1 DEF Action, ActionState, Observation
<1>3. undone \in [1..Len(Manifest.acts) -> Action]
    BY <1>1, <1>2
<1>4. \A a \in Action : [a EXCEPT !.state = "not_applied"] \in Action
    BY DEF Action, ActionState
<1> HIDE DEF undone, closed
<1>5. acts \in [1..Len(Manifest.acts) -> Action]
    BY <1>3, <1>4
<1>6. acts \in Seq(Action) /\ Len(acts) = Len(Manifest.acts)
      /\ DOMAIN acts = DOMAIN Manifest.acts
    BY <1>1, <1>5
<1> HIDE DEF acts
<1>7. state \in RunState
    BY DEF RunState
<1> HIDE DEF state
<1>8. m \in AnyManifest /\ m.plan = Manifest.plan /\ m.acts = acts
    BY <1>1, <1>6, <1>7 DEF AnyManifest
<1>9. Journal(job.run, m)
    BY DEF Restored, acts, state, closed, undone
<1> HIDE DEF m
<1>10. Papers' /\ RunIndex' = RunIndex /\ runs'[job.run] = m
    BY <1>1, <1>6, <1>8, <1>9, JournalEffect DEF Manifest, Papers
<1>11. CASE last
    BY <1>10, <1>11, StopEndsJob DEF Restored
<1>12. CASE ~last
    <2>1. job' = [job EXCEPT !.step = "start", !.todo = @ \ {job.item}] /\ UNCHANGED lockHolder
        BY <1>12 DEF Restored
    <2>2. job \in AnyJob
        BY DEF Job, JobOK
    <2>3. job.item \in job.todo /\ job.todo \ {job.item} # {}
        BY <1>12 DEF Job, JobInv
    <2>4. /\ job'.step = "start" /\ job'.mode = "undo" /\ job'.run = job.run
          /\ job'.todo = job.todo \ {job.item} /\ job'.reviewed = job.reviewed
        BY <2>1, <2>2 DEF AnyJob
    <2>5. job' \in AnyJob
        BY <2>1, <2>2 DEF AnyJob
    <2>6. DOMAIN Manifest'.acts = DOMAIN Manifest.acts
        BY <1>6, <1>8, <1>10, <2>4 DEF Manifest
    <2>7. job # Idle /\ lockHolder # NoCommand
        BY DEF Job, JobInv, Acting, Idle
    <2> QED
        BY <1>10, <2>1, <2>3, <2>4, <2>5, <2>6, <2>7
        DEF Job, JobOK, JobInv, MarkInv, ReviewInv, Acting
<1> QED
    BY <1>11, <1>12

\* Undo takes up an item it still has to do and marks it in the journal.
LEMMA UndoStartedKeeps ==
    ASSUME Papers, Job, UndoStarted
    PROVE  Papers' /\ Job'
<1> DEFINE i == Highest(job.todo)
           act == [Manifest.acts[i] EXCEPT !.state = "undo_in_progress"]
           m == [WithAction(Manifest, i, act) EXCEPT !.state = "undo_in_progress"]
<1>1. job.mode = "undo" /\ job.step = "start"
    BY DEF UndoStarted
<1>2. /\ job.run \in RunIndex /\ Manifest \in AnyManifest
      /\ Manifest.acts \in [1..Len(Manifest.acts) -> Action]
      /\ Len(Manifest.acts) \in Nat /\ DOMAIN Manifest.acts = 1..Len(Manifest.acts)
      /\ DOMAIN Manifest.acts \subseteq Item
    BY <1>1, ManifestTyped DEF Job
<1>3. job.todo \subseteq DOMAIN Manifest.acts /\ job.todo # {}
    BY <1>1 DEF Job, JobInv
<1>4. i \in job.todo
    BY <1>2, <1>3, HighestIn
<1> HIDE DEF i
<1>5. act \in Action /\ act.state = "undo_in_progress" /\ "undo_in_progress" \in RunState
    BY <1>2, <1>3, <1>4 DEF Action, ActionState, RunState
<1>6. /\ m \in AnyManifest /\ m.plan = Manifest.plan /\ m.state = "undo_in_progress"
      /\ Len(m.acts) = Len(Manifest.acts) /\ DOMAIN m.acts = DOMAIN Manifest.acts
      /\ m.acts[i] = act
    BY <1>2, <1>3, <1>4, <1>5, ManifestWith
<1>7. Journal(job.run, m) /\ job' = [job EXCEPT !.step = "check", !.item = i]
      /\ UNCHANGED lockHolder
    BY DEF UndoStarted, i
<1> HIDE DEF m
<1>8. Papers' /\ RunIndex' = RunIndex /\ runs'[job.run] = m /\ Active' = job.run
    BY <1>2, <1>6, <1>7, JournalEffect DEF Manifest, Papers
<1>9. Job'
    BY <1>1, <1>2, <1>3, <1>4, <1>5, <1>6, <1>7, <1>8, NowActing DEF Mark
<1> QED
    BY <1>8, <1>9

\* The papers stay as they are while the journal does.
LEMMA PapersUnchanged ==
    ASSUME Papers, UNCHANGED journal
    PROVE  Papers' /\ RunIndex' = RunIndex /\ Active' = Active /\ UNCHANGED runs
BY DEF journal, Papers, JournalOK, ConsentInv, RunIndex, ActsOf, Active

\* Undo takes up the next item, or the journal refuses.
LEMMA StartUndoKeeps ==
    ASSUME Papers, Job, StartUndo
    PROVE  Papers' /\ Job'
<1>1. CASE UndoStarted
    BY <1>1, UndoStartedKeeps
<1>2. CASE UndoNotStarted
    BY <1>2, PapersUnchanged, StopEndsJob DEF UndoNotStarted
<1> QED
    BY <1>1, <1>2 DEF StartUndo

\* Undo that checks its target goes on to act, stops, or finds it undone.
LEMMA CheckUndoKeeps ==
    ASSUME Papers, Job, CheckUndo
    PROVE  Papers' /\ Job'
<1>1. Acting /\ job.mode = "undo"
    BY DEF CheckUndo, Acting
<1>2. PICK o \in Observation \cup {Raised} :
        \/ Interrupt
        \/ Record("undo_failed", Act.after, "undo_partial") /\ Stop
        \/ o # Raised /\ Reversible(o) /\ Matches(o, Act.before) /\ Restored(o)
        \/ Goto("act") /\ UNCHANGED journal
    BY DEF CheckUndo
<1>3. /\ "undo_failed" \in ActionState /\ "undo_partial" \in RunState
      /\ Act.after \in Observation \cup {NoObservation} /\ Act.before \in Value
    BY <1>1, ActingTyped DEF ActionState, RunState, Action
<1>4. CASE o # Raised /\ Reversible(o) /\ Matches(o, Act.before) /\ Restored(o)
    <2>1. o \in Value
        BY <1>3, <1>4 DEF Matches, Unknown, Value
    <2> QED
        BY <1>1, <1>4, <2>1, RestoredKeeps
<1> QED
    BY <1>1, <1>2, <1>3, <1>4, InterruptKeeps, RecordAndStopKeeps, GotoKeeps

\* An inverse command is verified, or left in flight.
LEMMA VerifyUndoKeeps ==
    ASSUME Papers, Job, VerifyUndo
    PROVE  Papers' /\ Job'
<1>1. Acting /\ job.mode = "undo"
    BY DEF VerifyUndo, Acting
<1>2. Interrupt \/ Restored("present")
    BY DEF VerifyUndo
<1>3. "present" \in Value
    BY DEF Value
<1> QED
    BY <1>1, <1>2, <1>3, InterruptKeeps, RestoredKeeps

\* A move, of apply or of undo, is verified, or left in flight.
LEMMA VerifyMoveKeeps ==
    ASSUME Papers, Job, MachineOK, VerifyMove
    PROVE  Papers' /\ Job'
<1>1. Acting /\ job.mode \in {"apply", "undo"}
    BY DEF VerifyMove, Acting, Job, JobOK, JobInv, AnyJob
<1>2. MoveDestination \in Value
    BY <1>1, ActingTyped DEF MachineOK, MoveDestination
<1>3. \/ Interrupt
      \/ job.mode = "apply" /\ Verified(MoveDestination)
      \/ job.mode = "undo" /\ Restored(MoveDestination)
    BY <1>1 DEF VerifyMove
<1> QED
    BY <1>1, <1>2, <1>3, InterruptKeeps, VerifiedKeeps, RestoredKeeps

\* What classification makes of an action and of its run.
LEMMA ClassifiedTyped ==
    ASSUME NEW act \in Action, NEW before \in BOOLEAN, NEW after \in BOOLEAN,
           NEW value \in Observation
    PROVE  Classified(act, before, after, value) \in Action
BY DEF Classified, Action, ActionState

\* After a classification undo goes on with what was shown to its user, or ends.
LEMMA ProceedKeeps ==
    ASSUME Papers', Job, job.step = "classify", RunIndex' = RunIndex,
           NEW m \in AnyManifest, runs'[job.run] = m, DOMAIN m.acts = DOMAIN Manifest.acts,
           RecoverableItems(m) \subseteq RecoverableItems(Manifest) \cup InFlightItems(Manifest),
           DOMAIN Manifest.acts \subseteq Item, Proceed(m)
    PROVE  Job'
<1>1. CASE Stop
    BY <1>1, StopEndsJob
<1>2. CASE ~Stop
    <2>1. /\ job' = [job EXCEPT !.step = "start", !.todo = RecoverableItems(m)]
          /\ UNCHANGED lockHolder /\ RecoverableItems(m) # {}
        BY <1>2 DEF Proceed
    <2>2. job \in AnyJob /\ job.mode = "undo"
        BY DEF Job, JobOK, JobInv, AnyJob
    <2>3. RecoverableItems(m) \subseteq DOMAIN Manifest.acts
        BY DEF RecoverableItems
    <2>4. /\ job'.step = "start" /\ job'.mode = "undo" /\ job'.run = job.run
          /\ job'.todo = RecoverableItems(m) /\ job'.reviewed = job.reviewed
        BY <2>1, <2>2 DEF AnyJob
    <2>5. job' \in AnyJob
        BY <2>1, <2>2, <2>3 DEF AnyJob
    <2>6. DOMAIN Manifest'.acts = DOMAIN Manifest.acts
        BY <2>4 DEF Manifest
    <2>7. job # Idle /\ lockHolder # NoCommand
        BY DEF Job, JobInv, Idle
    <2>8. RecoverableItems(m) \subseteq job.reviewed
        BY <2>2 DEF Job, ReviewInv
    <2> QED
        BY <2>1, <2>2, <2>3, <2>4, <2>5, <2>6, <2>7, <2>8
        DEF Job, JobOK, JobInv, MarkInv, ReviewInv, Acting
<1> QED
    BY <1>1, <1>2

\* A classification is journaled, or refused, or changes nothing.
LEMMA JournalClassifiedKeeps ==
    ASSUME Papers, Job, job.step = "classify", NEW new \in Action, JournalClassified(new)
    PROVE  Papers' /\ Job'
<1> DEFINE m == ClassifiedManifest(new)
           acts == [Manifest.acts EXCEPT ![job.item] = new]
<1>1. /\ job.mode = "undo" /\ job.item \in InFlightItems(Manifest)
      /\ job.item \in DOMAIN Manifest.acts
    BY DEF Job, JobOK, JobInv, AnyJob, InFlightItems
<1>2. /\ job.run \in RunIndex /\ Manifest \in AnyManifest
      /\ Manifest.acts \in [1..Len(Manifest.acts) -> Action]
      /\ Len(Manifest.acts) \in Nat /\ DOMAIN Manifest.acts = 1..Len(Manifest.acts)
      /\ DOMAIN Manifest.acts \subseteq Item
    BY <1>1, ManifestTyped DEF Job
<1>3. acts \in Seq(Action) /\ Len(acts) = Len(Manifest.acts)
      /\ DOMAIN acts = DOMAIN Manifest.acts
      /\ \A i \in DOMAIN acts \ {job.item} : acts[i] = Manifest.acts[i]
    <2>1. acts \in [1..Len(Manifest.acts) -> Action]
        BY <1>2
    <2>2. \A i \in DOMAIN acts \ {job.item} : acts[i] = Manifest.acts[i]
        BY <1>2
    <2> HIDE DEF acts
    <2>3. acts \in Seq(Action) /\ Len(acts) = Len(Manifest.acts)
        BY <1>2, <2>1
    <2> QED
        BY <1>2, <2>1, <2>2, <2>3
<1>4. PICK state \in RunState : m = [Manifest EXCEPT !.acts = acts, !.state = state]
    <2> DEFINE All(name) == \A i \in DOMAIN acts : acts[i].state = name
               state == CASE new = Act -> "interrupted"
                          [] new # Act /\ Act.state = "in_progress" ->
                                IF All("verified") THEN "succeeded" ELSE "partial"
                          [] OTHER -> IF All("undone") THEN "undone" ELSE "undo_partial"
    <2>1. state \in RunState
        BY DEF RunState
    <2>2. m = [Manifest EXCEPT !.acts = acts, !.state = state]
        BY DEF ClassifiedManifest
    <2> QED
        BY <2>1, <2>2
<1> HIDE DEF acts, m
<1>5. m \in AnyManifest /\ m.plan = Manifest.plan /\ m.acts = acts
    BY <1>2, <1>3, <1>4 DEF AnyManifest
<1>6. RecoverableItems(m) \subseteq RecoverableItems(Manifest) \cup InFlightItems(Manifest)
    BY <1>1, <1>3, <1>5 DEF RecoverableItems
<1>7. CASE Proceed(Manifest) /\ UNCHANGED journal
    <2>1. Papers' /\ RunIndex' = RunIndex /\ runs'[job.run] = Manifest
        BY <1>7, PapersUnchanged DEF Manifest
    <2>2. Job'
        BY <1>2, <1>7, <2>1, ProceedKeeps
    <2> QED
        BY <2>1, <2>2
<1>8. CASE Journal(job.run, m) /\ Proceed(m)
    <2>1. Papers' /\ RunIndex' = RunIndex /\ runs'[job.run] = m
        BY <1>2, <1>3, <1>5, <1>8, JournalEffect DEF Manifest, Papers
    <2>2. Job'
        BY <1>2, <1>3, <1>5, <1>6, <1>8, <2>1, ProceedKeeps
    <2> QED
        BY <2>1, <2>2
<1>9. CASE Stop /\ UNCHANGED journal
    BY <1>9, PapersUnchanged, StopEndsJob
<1> QED
    BY <1>7, <1>8, <1>9 DEF JournalClassified, m

\* Either kind of classification.
LEMMA ClassifyKeeps ==
    ASSUME Papers, Job, ClassifyCommand \/ ClassifyTrash
    PROVE  Papers' /\ Job'
<1>1. job.step = "classify" /\ job.mode # "none"
    BY DEF ClassifyCommand, ClassifyTrash, Job, JobInv
<1>2. Act \in Action
    <2>1. job.item \in DOMAIN Manifest.acts
        BY <1>1 DEF Job, JobInv, JobOK, AnyJob, InFlightItems
    <2> QED
        BY <1>1, <2>1, ManifestTyped DEF Job, Act
<1>3. \A x, y : Matches(x, y) \in BOOLEAN
    BY DEF Matches
<1>4. CASE ClassifyCommand
    <2>1. PICK o \in Observation \cup {Raised} :
            \/ Stop /\ UNCHANGED journal
            \/ /\ o \in Observation
               /\ \E expected \in Observation :
                    JournalClassified(Classified(Act, Matches(o, Act.before),
                                                 Matches(o, expected), o))
        <3>1. (IF Act.after = NoObservation THEN "absent" ELSE Act.after) \in Observation
            BY <1>2 DEF Action, Observation, Value
        <3> QED
            BY <1>4, <3>1 DEF ClassifyCommand
    <2> QED
        BY <1>1, <1>2, <1>3, <2>1, PapersUnchanged, StopEndsJob, ClassifiedTyped,
           JournalClassifiedKeeps
<1>5. CASE ClassifyTrash
    <2>1. PICK origin \in Observation, trash \in Observation :
            \E before, after \in BOOLEAN, value \in {origin, trash} :
                JournalClassified(Classified(Act, before, after, value))
        <3>1. PICK origin \in Observation, trash \in Observation :
                LET applied == IF Act.after = NoObservation THEN Act.before ELSE Act.after
                    beforeMatch == Matches(origin, Act.before) /\ trash = "absent"
                    afterMatch == origin = "absent" /\ Matches(trash, applied)
                IN  JournalClassified(Classified(Act, beforeMatch, afterMatch,
                                                 IF beforeMatch THEN origin ELSE trash))
            BY <1>5 DEF ClassifyTrash
        <3>2. \A b : (IF b THEN origin ELSE trash) \in {origin, trash}
            OBVIOUS
        <3>3. \A b \in BOOLEAN : \A x, y :
                /\ (b /\ trash = "absent") \in BOOLEAN
                /\ (origin = "absent" /\ Matches(x, y)) \in BOOLEAN
            BY <1>3
        <3> QED
            BY <1>3, <3>1, <3>2, <3>3, Zenon
    <2> QED
        BY <1>1, <1>2, <2>1, ClassifiedTyped, JournalClassifiedKeeps
<1> QED
    BY <1>4, <1>5

\* Every step of a job.
LEMMA JobStepKeeps ==
    ASSUME Papers, Job, MachineOK, JobStep
    PROVE  Papers' /\ Job'
BY StartActionKeeps, CheckBeforeKeeps, VerifyAfterKeeps, ClassifyKeeps, StartUndoKeeps,
   CheckUndoKeeps, VerifyUndoKeeps, RunCommandKeeps, CheckMoveKeeps, RenameKeeps,
   VerifyMoveKeeps DEF JobStep

-----------------------------------------------------------------------------
(* Reviews and approvals.                                                  *)

\* An approval given or used up.
LEMMA ConsentKeeps ==
    ASSUME Papers, UNCHANGED <<runs, recency>>, NEW c \in Command, NEW a \in AnyConsent,
           consent' = [consent EXCEPT ![c] = a],
           a.verb = "APPLY" => a.subject \in 1..Len(PlanSize) /\ a.items = PlanItems(a.subject),
           a.verb = "UNDO" =>
               /\ a.subject \in RunIndex
               /\ a.items = RecoverableItems(runs[a.subject]) \cup InFlightItems(runs[a.subject])
    PROVE  Papers'
<1>1. consent' \in [Command -> AnyConsent] /\ RunIndex' = RunIndex
    BY DEF Papers, JournalOK, RunIndex
<1>2. JournalOK'
    BY <1>1 DEF Papers, JournalOK, ActsOf
<1>3. ConsentInv'
    <2> SUFFICES ASSUME NEW d \in Command
                 PROVE  /\ consent'[d].verb = "APPLY" =>
                              /\ consent'[d].subject \in 1..Len(PlanSize)
                              /\ consent'[d].items = PlanItems(consent'[d].subject)
                        /\ consent'[d].verb = "UNDO" =>
                              /\ consent'[d].subject \in RunIndex
                              /\ consent'[d].fresh =>
                                    consent'[d].items =
                                        RecoverableItems(runs[consent'[d].subject])
                                        \cup InFlightItems(runs[consent'[d].subject])
        BY <1>1 DEF ConsentInv
    <2>1. consent'[d] = IF d = c THEN a ELSE consent[d]
        BY DEF Papers, JournalOK
    <2>2. CASE d = c
        BY <2>1, <2>2
    <2>3. CASE d # c
        BY <2>1, <2>3 DEF Papers, ConsentInv
    <2> QED
        BY <2>2, <2>3
<1> QED
    BY <1>2, <1>3 DEF Papers

\* No approval is an approval, of nothing.
LEMMA NoConsentTyped == NoConsent \in AnyConsent /\ NoConsent.verb = "none"
BY DEF NoConsent, AnyConsent

\* A job is not disturbed by what other commands review.
LEMMA JobUndisturbed ==
    ASSUME Job, UNCHANGED <<lockHolder, runs, recency, job>>
    PROVE  Job'
BY DEF Job, JobOK, JobInv, MarkInv, ReviewInv, RunIndex, Manifest, Act, Acting, Mark, Active,
       InFlightItems, RecoverableItems

\* The items of a plan revision are items, and there is at least one.
LEMMA PlanItemsTyped ==
    ASSUME NEW n \in 1..Len(PlanSize)
    PROVE  /\ PlanItems(n) = 1..PlanSize[n] /\ PlanSize[n] \in Nat \ {0}
           /\ PlanItems(n) \subseteq Item
<1>1. PlanSize[n] \in 1..Len(Kind) /\ Len(Kind) \in Nat /\ Item = 1..Len(Kind)
    BY PlanSizeAssumption, KindAssumption DEF Item
<1> QED
    BY <1>1 DEF PlanItems

\* A review of a plan disturbs no job and covers the items of the plan.
LEMMA ReviewApplyKeeps ==
    ASSUME IInv, NEW c \in Command, ReviewApply(c)
    PROVE  Papers' /\ Job'
<1> DEFINE a == [verb |-> "APPLY", subject |-> plan, items |-> PlanItems(plan), fresh |-> TRUE]
<1>1. plan \in 1..Len(PlanSize)
    BY PlanSizeAssumption DEF IInv, TypeOK, ReviewApply
<1>2. a \in AnyConsent
    BY <1>1, PlanItemsTyped, PlanSizeAssumption DEF AnyConsent
<1>3. Papers'
    BY <1>1, <1>2, ConsentKeeps DEF ReviewApply, IInv, TypeOK, Papers
<1>4. Job'
    BY JobUndisturbed DEF ReviewApply, IInv, TypeOK, Job
<1> QED
    BY <1>3, <1>4

\* A review of a run disturbs no job and covers what undo may do to it.
LEMMA ReviewUndoKeeps ==
    ASSUME IInv, NEW c \in Command, ReviewUndo(c)
    PROVE  Papers' /\ Job'
<1> DEFINE run == LatestUndoable
           a == [verb |-> "UNDO", subject |-> run, fresh |-> TRUE,
                 items |-> RecoverableItems(runs[run]) \cup InFlightItems(runs[run])]
<1>1. run \in RunIndex
    BY LatestUndoableIsRun DEF IInv, TypeOK, ReviewUndo
<1> HIDE DEF run
<1>2. run \in Nat /\ DOMAIN runs[run].acts \subseteq Item
    <2>1. /\ runs[run] \in AnyManifest /\ run \in Nat
          /\ Len(runs[run].acts) = PlanSize[runs[run].plan]
        BY <1>1 DEF IInv, TypeOK, JournalOK, RunIndex, ActsOf
    <2>2. PlanSize[runs[run].plan] \in 1..Len(Kind)
        BY <2>1, PlanSizeAssumption DEF AnyManifest
    <2> QED
        BY <2>1, <2>2, KindAssumption DEF AnyManifest, Item
<1>3. a \in AnyConsent
    BY <1>2 DEF AnyConsent, RecoverableItems, InFlightItems
<1>4. Papers'
    BY <1>1, <1>3, ConsentKeeps DEF ReviewUndo, run, IInv, TypeOK, Papers
<1>5. Job'
    BY JobUndisturbed DEF ReviewUndo, IInv, TypeOK, Job
<1> QED
    BY <1>4, <1>5

\* A refusal uses up the approval and changes nothing else.
LEMMA RefuseKeeps ==
    ASSUME IInv, NEW c \in Command, RefuseApply(c) \/ RefuseUndo(c)
    PROVE  Papers' /\ Job'
<1>1. Papers'
    BY NoConsentTyped, ConsentKeeps DEF RefuseApply, RefuseUndo, IInv, TypeOK, Papers
<1>2. Job'
    BY JobUndisturbed DEF RefuseApply, RefuseUndo, IInv, TypeOK, Job
<1> QED
    BY <1>1, <1>2

\* An approved undo takes the lock, with all it may do reviewed.
LEMMA BeginUndoKeeps ==
    ASSUME IInv, NEW c \in Command, BeginUndo(c)
    PROVE  Papers' /\ Job'
<1> DEFINE run == consent[c].subject
           m == runs[run]
<1>1. /\ consent[c].verb = "UNDO" /\ consent[c].fresh /\ MayUndo(c) /\ LatestUndoable = run
      /\ lockHolder' = c /\ UNCHANGED <<runs, recency>>
      /\ consent' = [consent EXCEPT ![c] = NoConsent]
    BY DEF BeginUndo, MayUndo, StillApproved, SameRun
<1>2. run \in RunIndex /\ consent[c].items = RecoverableItems(m) \cup InFlightItems(m)
    BY <1>1 DEF IInv, ConsentInv
<1>3. consent[c] \in AnyConsent
    BY DEF IInv, TypeOK, JournalOK
<1>4. /\ m \in AnyManifest /\ Len(m.acts) \in Nat /\ DOMAIN m.acts = 1..Len(m.acts)
      /\ run \in Nat
    <2> HIDE DEF run
    <2>1. m \in AnyManifest /\ run \in Nat
        BY <1>2 DEF IInv, TypeOK, JournalOK, RunIndex
    <2>2. m.acts \in Seq(Action)
        BY <2>1 DEF AnyManifest
    <2> QED
        BY <2>1, <2>2
<1>5. RecoverableItems(m) \subseteq Item /\ InFlightItems(m) \subseteq Item
    BY <1>2, <1>3 DEF AnyConsent
<1>6. Papers'
    BY <1>1, NoConsentTyped, ConsentKeeps DEF IInv, TypeOK, Papers
<1>7. c # NoCommand
    BY NoCommandAssumption
<1>8. CASE NeedsClassification(m)
    <2>1. job' = [Idle EXCEPT !.mode = "undo", !.run = run, !.reviewed = consent[c].items,
                              !.step = "classify", !.item = Lowest(InFlightItems(m))]
        BY <1>8 DEF BeginUndo
    <2>2. Lowest(InFlightItems(m)) \in InFlightItems(m)
        BY <1>4, <1>8, LowestIn DEF NeedsClassification, InFlightItems
    <2>3. /\ job'.mode = "undo" /\ job'.run = run /\ job'.reviewed = consent[c].items
          /\ job'.step = "classify" /\ job'.todo = {} /\ job'.item \in InFlightItems(m)
        BY <2>1, <2>2 DEF Idle
    <2>4. job' \in AnyJob
        BY <1>3, <1>4, <1>5, <2>1, <2>2 DEF AnyJob, AnyConsent, Idle
    <2> HIDE DEF run
    <2> QED
        BY <1>1, <1>2, <1>7, <2>3, <2>4, <1>6
        DEF Job, JobOK, JobInv, MarkInv, ReviewInv, Acting, Manifest, RunIndex, InFlightItems,
            RecoverableItems
<1>9. CASE ~NeedsClassification(m)
    <2>1. job' = [Idle EXCEPT !.mode = "undo", !.run = run, !.reviewed = consent[c].items,
                              !.step = "start", !.todo = RecoverableItems(m)]
        BY <1>9 DEF BeginUndo
    <2>2. RecoverableItems(m) # {} /\ RecoverableItems(m) \subseteq DOMAIN m.acts
        BY <1>1, <1>9 DEF MayUndo, RecoverableItems
    <2>3. /\ job'.mode = "undo" /\ job'.run = run /\ job'.reviewed = consent[c].items
          /\ job'.step = "start" /\ job'.todo = RecoverableItems(m)
        BY <2>1 DEF Idle
    <2>4. job' \in AnyJob
        BY <1>3, <1>4, <1>5, <2>1 DEF AnyJob, AnyConsent, Idle
    <2> HIDE DEF run
    <2> QED
        BY <1>1, <1>2, <1>7, <2>2, <2>3, <2>4, <1>6
        DEF Job, JobOK, JobInv, MarkInv, ReviewInv, Acting, Manifest, RunIndex
<1> QED
    BY <1>8, <1>9

\* A new run joins the others, prepared, with its command holding the lock.
LEMMA BeginApplyKeeps ==
    ASSUME IInv, NEW c \in Command, BeginApply(c)
    PROVE  Papers' /\ Job'
<1> DEFINE acts == [i \in PlanItems(plan) |->
                        [state |-> "pending", before |-> host[i], after |-> NoObservation]]
           m == [plan |-> plan, state |-> "prepared", acts |-> acts]
           new == Len(runs) + 1
<1>1. /\ consent[c].verb = "APPLY" /\ plan = consent[c].subject
      /\ consent' = [consent EXCEPT ![c] = NoConsent] /\ lockHolder' = c
      /\ runs' = Append(runs, m) /\ recency' = Append(recency, new)
      /\ job' = [Idle EXCEPT !.mode = "apply", !.step = "start", !.item = 1,
                             !.run = new, !.reviewed = consent[c].items]
    BY DEF BeginApply, MayApply
<1>2. plan \in 1..Len(PlanSize) /\ consent[c].items = PlanItems(plan)
    BY <1>1 DEF IInv, ConsentInv
<1>3. /\ PlanItems(plan) = 1..PlanSize[plan] /\ PlanSize[plan] \in Nat \ {0}
      /\ PlanItems(plan) \subseteq Item
    BY <1>2, PlanItemsTyped
<1>4. acts \in [1..PlanSize[plan] -> Action]
    BY <1>3 DEF Action, ActionState, IInv, TypeOK, MachineOK
<1>5. acts \in Seq(Action) /\ Len(acts) = PlanSize[plan] /\ DOMAIN acts = PlanItems(plan)
    <2> HIDE DEF acts
    <2> QED
        BY <1>3, <1>4
<1> HIDE DEF acts
<1>6. m \in AnyManifest /\ m.plan = plan /\ m.acts = acts
    BY <1>2, <1>5 DEF AnyManifest, RunState
<1> HIDE DEF m
<1>7. /\ runs \in Seq(AnyManifest) /\ recency \in Seq(RunIndex) /\ Len(recency) = Len(runs)
      /\ RunIndex = 1..Len(runs) /\ Len(runs) \in Nat
    BY DEF IInv, TypeOK, JournalOK, RunIndex
<1>8. /\ runs' \in Seq(AnyManifest) /\ RunIndex' = 1..new /\ Len(runs') = new
      /\ runs'[new] = m /\ \A r \in RunIndex : runs'[r] = runs[r]
    BY <1>1, <1>6, <1>7 DEF RunIndex
<1>9. /\ recency' \in Seq(RunIndex') /\ Len(recency') = new /\ recency'[new] = new
      /\ DOMAIN recency' = 1..new
      /\ \A k \in 1..Len(recency) : recency'[k] = recency[k]
    <2>1. recency \in Seq(1..new)
        BY <1>7
    <2> QED
        BY <1>1, <1>7, <1>8, <2>1
<1>0. RunIndex' = RunIndex \cup {new} /\ new \notin RunIndex
    BY <1>7, <1>8
<1>10. \A r \in RunIndex' : \E k \in DOMAIN recency' : recency'[k] = r
    <2>1. ASSUME NEW r \in RunIndex PROVE \E k \in DOMAIN recency' : recency'[k] = r
        <3>1. PICK k \in DOMAIN recency : recency[k] = r
            BY DEF IInv, TypeOK, JournalOK
        <3>2. k \in 1..Len(recency) /\ k \in 1..new
            BY <1>7
        <3> QED
            BY <1>9, <3>1, <3>2
    <2>2. new \in DOMAIN recency'
        BY <1>7, <1>9
    <2> QED
        BY <1>9, <1>0, <2>1, <2>2
<1>11. \A r \in RunIndex' : Len(runs'[r].acts) = PlanSize[runs'[r].plan]
    <2>1. \A r \in RunIndex : Len(runs[r].acts) = PlanSize[runs[r].plan]
        BY DEF IInv, TypeOK, JournalOK, ActsOf
    <2> QED
        BY <1>5, <1>6, <1>8, <1>0, <2>1
<1>12. consent' \in [Command -> AnyConsent]
    BY <1>1, NoConsentTyped DEF IInv, TypeOK, JournalOK
<1>13. JournalOK'
    BY <1>8, <1>9, <1>10, <1>11, <1>12 DEF JournalOK, ActsOf
<1>14. ConsentInv'
    <2> SUFFICES ASSUME NEW d \in Command
                 PROVE  /\ consent'[d].verb = "APPLY" =>
                              /\ consent'[d].subject \in 1..Len(PlanSize)
                              /\ consent'[d].items = PlanItems(consent'[d].subject)
                        /\ consent'[d].verb = "UNDO" =>
                              /\ consent'[d].subject \in RunIndex'
                              /\ consent'[d].fresh =>
                                    consent'[d].items =
                                        RecoverableItems(runs'[consent'[d].subject])
                                        \cup InFlightItems(runs'[consent'[d].subject])
        BY DEF ConsentInv
    <2>1. consent'[d] = IF d = c THEN NoConsent ELSE consent[d]
        BY <1>1 DEF IInv, TypeOK, JournalOK
    <2>2. CASE d = c
        BY <2>1, <2>2, NoConsentTyped
    <2>3. CASE d # c
        <3>1. consent'[d] = consent[d]
            BY <2>1, <2>3
        <3> QED
            BY <1>8, <1>0, <3>1 DEF IInv, ConsentInv
    <2> QED
        BY <2>2, <2>3
<1>15. /\ job'.mode = "apply" /\ job'.step = "start" /\ job'.item = 1 /\ job'.run = new
       /\ job'.reviewed = consent[c].items /\ job'.todo = {}
    BY <1>1 DEF Idle
<1>16. job' \in AnyJob
    <2>1. 1 \in 1..PlanSize[plan] /\ new \in Nat
        BY <1>3, <1>7
    <2>2. 1 \in Item /\ consent[c].items \in SUBSET Item
        BY <1>2, <1>3, <2>1
    <2> HIDE DEF new
    <2> QED
        BY <1>1, <2>1, <2>2 DEF AnyJob, Idle
<1>17. Manifest' = m /\ DOMAIN m.acts = PlanItems(plan) /\ 1 \in PlanItems(plan)
    BY <1>3, <1>5, <1>6, <1>8, <1>15 DEF Manifest
<1>18. Job'
    BY <1>1, <1>2, <1>7, <1>8, <1>15, <1>16, <1>17, NoCommandAssumption
    DEF Job, JobOK, JobInv, MarkInv, ReviewInv, Acting
<1> QED
    BY <1>13, <1>14, <1>18 DEF Papers

-----------------------------------------------------------------------------
(* The host and the budgets.                                               *)

\* A command changes its own item, and the service of a formula it removes.
LEMMA HostAfterTyped ==
    ASSUME MachineOK, NEW i \in Item, NEW value \in Value
    PROVE  HostAfter(i, value) \in [Item -> Value]
BY DEF HostAfter, MachineOK, Value

\* The host stays typed, whoever changes it.
LEMMA MachineKeeps ==
    ASSUME Papers, Job, MachineOK, [Next]_vars
    PROVE  MachineOK'
<1>1. CommandGoal \in Value /\ {"absent", "present", "changed"} \subseteq Value
    BY DEF CommandGoal, Value
<1>2. CASE UNCHANGED machine
    BY <1>2 DEF machine, MachineOK
<1>3. CASE RunCommand
    <2>1. job.item \in Item
        BY <1>3, ActingTyped DEF RunCommand, Acting
    <2> QED
        BY <1>1, <1>3, <2>1, HostAfterTyped DEF RunCommand, MachineOK
<1>4. CASE Rename
    <2>1. job.item \in Item
        BY <1>4, ActingTyped DEF Rename, Acting
    <2>2. MoveSource \in Value
        BY <2>1 DEF MoveSource, MachineOK
    <2> QED
        BY <1>1, <1>4, <2>1, <2>2 DEF Rename, MachineOK
<1>5. CASE CrashAlone
    <2>1. job.item \in Item
        BY <1>5, ActingTyped DEF CrashAlone, Acting
    <2> QED
        BY <1>1, <1>5, <2>1 DEF CrashAlone, MachineOK
<1>6. CASE OrphanEnds
    <2>1. PICK o \in orphan : /\ host' = IF Works(o.item, o.value)
                                         THEN HostAfter(o.item, o.value) ELSE host
                              /\ orphan' = orphan \ {o} /\ UNCHANGED bin
        BY <1>6 DEF OrphanEnds
    <2>2. o.item \in Item /\ o.value \in Value
        BY DEF MachineOK
    <2> QED
        BY <2>1, <2>2, HostAfterTyped DEF MachineOK
<1>7. CASE Drift
    <2>1. PICK i \in Item :
            \/ \E value \in Value : host' = HostAfter(i, value) /\ UNCHANGED bin
            \/ bin' = [bin EXCEPT ![i] = "absent"] /\ UNCHANGED host
            \/ host' = [host EXCEPT ![i] = bin[i]] /\ bin' = [bin EXCEPT ![i] = "absent"]
        BY <1>1, <1>7 DEF Drift
    <2>2. UNCHANGED orphan
        BY <1>7 DEF Drift
    <2> QED
        BY <1>1, <2>1, <2>2, HostAfterTyped DEF MachineOK
<1> QED
    BY <1>2, <1>3, <1>4, <1>5, <1>6, <1>7
    DEF Next, vars, JobStep, AddPlan, ReviewApply, BeginApply, RefuseApply, ReviewUndo,
        BeginUndo, RefuseUndo, StartAction, CheckBefore, VerifyAfter, ClassifyCommand,
        ClassifyTrash, StartUndo, UndoStarted, UndoNotStarted, CheckUndo, VerifyUndo,
        CheckMove, VerifyMove, Crash

SpentOK == spent \in [DOMAIN Budget -> Nat]

\* Budgets are only spent.
LEMMA SpendTyped ==
    ASSUME SpentOK, NEW kind \in {"crashes", "sights", "commands", "drifts", "orphans"},
           Spend(kind)
    PROVE  SpentOK'
<1>1. spent' = [spent EXCEPT ![kind] = @ + 1]
    BY DEF Spend
<1>2. CASE kind \in DOMAIN Budget
    BY <1>1, <1>2 DEF SpentOK
<1>3. CASE kind \notin DOMAIN Budget
    BY <1>1, <1>3 DEF SpentOK
<1> QED
    BY <1>2, <1>3

\* Every step spends budgets, if it needs to, and no step gives back.
LEMMA SpentKeeps ==
    ASSUME SpentOK, [Next]_vars
    PROVE  SpentOK'
<1>1. CASE UNCHANGED spent
    BY <1>1 DEF SpentOK
<1>2. CASE \E kind \in {"crashes", "sights", "commands", "drifts", "orphans"} : Spend(kind)
    BY <1>2, SpendTyped
<1>3. \A i, o : Sees(i, o) => UNCHANGED spent \/ Spend("sights")
    BY DEF Sees
<1>4. \A o, t : Probes(o, t) => UNCHANGED spent \/ Spend("sights")
    BY DEF Probes
<1> QED
    BY <1>1, <1>2, <1>3, <1>4
    DEF Next, vars, JobStep, AddPlan, ReviewApply, BeginApply, RefuseApply, ReviewUndo,
        BeginUndo, RefuseUndo, StartAction, CheckBefore, VerifyAfter, ClassifyCommand,
        ClassifyTrash, StartUndo, UndoStarted, UndoNotStarted, CheckUndo, VerifyUndo,
        CheckMove, VerifyMove, Crash, CrashAlone, OrphanEnds, Drift, RunCommand, Rename

-----------------------------------------------------------------------------
(* The invariant and what follows from it.                                 *)

\* IInv holds at first.
LEMMA InitHolds == Init => IInv
<1> SUFFICES ASSUME Init PROVE IInv
    OBVIOUS
<1>1. /\ plan = 0 /\ lockHolder = NoCommand /\ runs = <<>> /\ recency = <<>> /\ job = Idle
      /\ consent = [c \in Command |-> NoConsent] /\ orphan = {}
    BY DEF Init
<1>2. JournalOK /\ ConsentInv
    BY <1>1, NoConsentTyped DEF JournalOK, ConsentInv, RunIndex, ActsOf
<1>3. MachineOK /\ spent \in [DOMAIN Budget -> Nat]
    BY DEF Init, MachineOK, Value
<1>4. JobOK /\ JobInv /\ MarkInv /\ ReviewInv
    BY <1>1 DEF JobOK, JobInv, MarkInv, ReviewInv, Idle, AnyJob, Acting
<1>5. plan \in 0..Len(PlanSize)
    BY <1>1, PlanSizeAssumption
<1> QED
    BY <1>2, <1>3, <1>4, <1>5 DEF IInv, TypeOK

\* Every step, of a job or around it, keeps papers and job in order.
LEMMA NextKeepsJob ==
    ASSUME IInv, [Next]_vars
    PROVE  Papers' /\ Job'
<1>1. Papers /\ Job /\ MachineOK
    BY DEF IInv, TypeOK, Papers, Job
<1>2. CASE UNCHANGED <<lockHolder, journal, job>>
    BY <1>1, <1>2, PapersUnchanged, JobUndisturbed DEF journal
<1>3. CASE JobStep
    BY <1>1, <1>3, JobStepKeeps
<1>4. CASE \E c \in Command : ReviewApply(c) \/ ReviewUndo(c)
    BY <1>4, ReviewApplyKeeps, ReviewUndoKeeps
<1>5. CASE \E c \in Command : BeginApply(c) \/ BeginUndo(c)
    BY <1>5, BeginApplyKeeps, BeginUndoKeeps
<1>6. CASE \E c \in Command : RefuseApply(c) \/ RefuseUndo(c)
    BY <1>6, RefuseKeeps
<1>7. CASE Crash \/ CrashAlone
    BY <1>1, <1>7, PapersUnchanged, StopEndsJob DEF Crash, CrashAlone
<1> QED
    BY <1>2, <1>3, <1>4, <1>5, <1>6, <1>7 DEF Next, vars, AddPlan, OrphanEnds, Drift

\* IInv is inductive.
LEMMA NextKeepsIInv == IInv /\ [Next]_vars => IInv'
<1> SUFFICES ASSUME IInv, [Next]_vars PROVE IInv'
    OBVIOUS
<1>1. Papers' /\ Job'
    BY NextKeepsJob
<1>2. MachineOK' /\ (spent \in [DOMAIN Budget -> Nat])'
    BY MachineKeeps, SpentKeeps DEF IInv, TypeOK, Papers, Job, SpentOK
<1>3. plan' \in 0..Len(PlanSize)
    <2>1. plan \in 0..Len(PlanSize) /\ Len(PlanSize) \in Nat
        BY PlanSizeAssumption DEF IInv, TypeOK
    <2>2. CASE AddPlan
        BY <2>1, <2>2 DEF AddPlan
    <2>3. CASE UNCHANGED plan
        BY <2>1, <2>3
    <2> QED
        BY <2>2, <2>3
        DEF Next, vars, JobStep, ReviewApply, BeginApply, RefuseApply, ReviewUndo,
            BeginUndo, RefuseUndo, StartAction, CheckBefore, VerifyAfter, ClassifyCommand,
            ClassifyTrash, StartUndo, UndoStarted, UndoNotStarted, CheckUndo, VerifyUndo,
            CheckMove, VerifyMove, Crash, CrashAlone, OrphanEnds, Drift, RunCommand, Rename
<1> QED
    BY <1>1, <1>2, <1>3 DEF IInv, TypeOK, Papers, Job

\* IInv is an invariant of the specification.
LEMMA Invariant == Spec => []IInv
BY InitHolds, NextKeepsIInv, PTL DEF Spec

\* The plan, the lock, the approvals, the journal, the host and the job keep
\* their types, and the journal's order of runs is a permutation of them.
THEOREM CleanupTyped == Spec => []TypeOK
<1>1. IInv => TypeOK
    BY DEF IInv
<1> QED
    BY <1>1, Invariant, PTL

\* Whatever commands are run, whatever their approvals went stale on and
\* however they crash, a job only ever acts on items its user was shown.
THEOREM ReviewedBeforeDone == Spec => []OnlyWhatWasReviewed
<1>1. IInv => OnlyWhatWasReviewed
    <2> SUFFICES ASSUME IInv, Acting PROVE job.item \in job.reviewed
        BY DEF OnlyWhatWasReviewed, Acting
    <2>1. CASE job.mode = "apply"
        BY <2>1 DEF IInv, JobInv, ReviewInv
    <2>2. CASE job.mode = "undo"
        BY <2>2 DEF IInv, JobInv, ReviewInv
    <2> QED
        BY <2>1, <2>2 DEF IInv, TypeOK, JobOK, JobInv, AnyJob, Acting
<1> QED
    BY <1>1, Invariant, PTL

\* A step of MacWise that changes the host is made only while the newest
\* revision of the journal marks its action, so no crash can hide one.
THEOREM JournaledBeforeDone == Spec => WriteAhead
<1> DEFINE Step == job' # job /\ <<host, bin>>' # <<host, bin>> =>
        LET marked == IF job.mode = "apply" THEN "in_progress" ELSE "undo_in_progress"
        IN  /\ job.run = Active
            /\ Act.state = marked /\ Manifest.state = marked
<1>1. IInv /\ [Next]_vars => [Step]_vars
    <2> SUFFICES ASSUME IInv, [Next]_vars, job' # job, <<host, bin>>' # <<host, bin>>
                 PROVE  job.run = Active /\ Act.state = Mark /\ Manifest.state = Mark
        BY DEF Mark
    <2>1. RunCommand \/ Rename
        BY DEF Next, vars, machine, JobStep, AddPlan, ReviewApply, BeginApply, RefuseApply,
           ReviewUndo, BeginUndo, RefuseUndo, StartAction, CheckBefore, VerifyAfter,
           ClassifyCommand, ClassifyTrash, StartUndo, UndoStarted, UndoNotStarted, CheckUndo,
           VerifyUndo, CheckMove, VerifyMove, Crash, CrashAlone, OrphanEnds, Drift
    <2>2. Acting
        BY <2>1 DEF RunCommand, Rename, Acting
    <2> QED
        BY <2>2 DEF IInv, MarkInv
<1> QED
    BY <1>1, Invariant, PTL DEF Spec, WriteAhead

\* A step of MacWise leaves every bundle where it is or swaps the contents of
\* the two paths of one, of which one was empty: none is ever overwritten.
THEOREM BundlesSurvive == Spec => NoBundleLost
<1> DEFINE Kept(i) == \/ host'[i] = host[i] /\ bin'[i] = bin[i]
                      \/ host'[i] = bin[i] /\ bin'[i] = host[i]
<1>1. IInv /\ [Next]_vars => [job' # job => \A i \in Item : IsTrash(i) => Kept(i)]_vars
    <2> SUFFICES ASSUME IInv, [Next]_vars, job' # job, NEW i \in Item, IsTrash(i)
                 PROVE  Kept(i)
        OBVIOUS
    <2>1. CASE UNCHANGED <<host, bin>>
        BY <2>1
    <2>2. CASE RunCommand
        <3>1. UNCHANGED bin /\ ~IsTrash(job.item)
            BY <2>2 DEF RunCommand
        <3>2. host' = host \/ \E value \in Value : host' = HostAfter(job.item, value)
            BY <2>2 DEF RunCommand, CommandGoal, Value
        <3>3. \A value : HostAfter(job.item, value)[i] = host[i]
            BY <3>1 DEF HostAfter, IsTrash
        <3> QED
            BY <3>1, <3>2, <3>3
    <2>3. CASE Rename
        <3>1. Acting
            BY <2>3 DEF Rename, Acting
        <3>2. job.mode \in {"apply", "undo"} /\ job.item \in Item
            BY <3>1, ActingTyped DEF IInv, TypeOK, JobOK, JobInv, AnyJob, Acting, Papers, Job
        <3>3. \/ UNCHANGED <<host, bin>>
              \/ /\ MoveDestination = "absent"
                 /\ host' = [host EXCEPT ![job.item] =
                                IF job.mode = "apply" THEN "absent" ELSE MoveSource]
                 /\ bin' = [bin EXCEPT ![job.item] =
                                IF job.mode = "apply" THEN MoveSource ELSE "absent"]
            BY <2>3 DEF Rename, CanRename
        <3>4. host \in [Item -> Value] /\ bin \in [Item -> Value]
            BY DEF IInv, TypeOK, MachineOK
        <3> QED
            BY <3>2, <3>3, <3>4 DEF MoveSource, MoveDestination
    <2> QED
        BY <2>1, <2>2, <2>3
        DEF Next, vars, machine, JobStep, AddPlan, ReviewApply, BeginApply, RefuseApply,
            ReviewUndo, BeginUndo, RefuseUndo, StartAction, CheckBefore, VerifyAfter,
            ClassifyCommand, ClassifyTrash, StartUndo, UndoStarted, UndoNotStarted, CheckUndo,
            VerifyUndo, CheckMove, VerifyMove, Crash, CrashAlone, OrphanEnds, Drift
<1> QED
    BY <1>1, Invariant, PTL DEF Spec, NoBundleLost

=============================================================================
