# MacWise in TLA+

MacWise audits the software of a Mac and carries out, after typed approval, a reversible
cleanup plan. This directory models its path from evidence to change: the audit, the plan that
grows from it, `macwise apply` and `macwise undo` with their journal, lock and adapters, and
beside it the Codex integration, its setup and its read-only server. Paths below are relative to
`src/macwise/` of the repository.

## The system

| Part | State | Operations | What makes it correct |
|---|---|---|---|
| Plan store (`persistence/plans.py`) | append-only plan revisions, active pointer (SQLite) | `active`, `append` | no add is lost; a revision is immutable |
| Planning (`services/planning.py`) | none, a function of audit and plan | `add_candidate`, preflight | order of actions; what blocks a plan |
| Revalidation (`services/revalidation.py`) | none | `prepare_execution` | only the reviewed actions, only on the state they were planned for |
| Execution journal (`persistence/executions.py`) | append-only manifest revisions, active pointer (SQLite) | `active`, `latest_undoable`, `append` | one unresolved run; legal histories; undo reaches what it should |
| Execution service (`services/execution.py`) | none of its own between calls | `apply`, `undo` with classification of interrupted actions | write-ahead journaling; truthful records; reverse order; recovery ends |
| State lock (`persistence/locking.py`) | `flock` on one file, non-blocking | enter, exit | released on every path, by the kernel if need be |
| Trash adapter (`execution/filesystem.py`) | the file system | `apply`, `undo` | never overwrites, moves only the reviewed bundle |
| Mutation commands (`execution/commands.py`) | Homebrew, launchd | `uninstall`, `install`, `stop`, `start` | success is what is observed, not the exit status |
| Command line (`cli.py`) | what it has shown the user | `plan add`, `apply`, `undo`, `doctor` | acts on what was shown; its advice can be followed |
| Codex setup (`integration/setup.py`) | plugin tree, backup and stage trees, marketplace file | install, which updates and repairs too | the prior plugin survives a kill at any step; success is real; what is not its own stays |
| Codex read service (`integration/service.py`, `server.py`) | one cached audit under a lock | eight read-only tools, refresh, paging | answers do not go back in time; pages fit together; tools agree |
| Audit (`services/audit.py`, `analysis.py`, `overlap.py`, `collectors/`) | none | functions of collected evidence | unknown is never taken for a fact |
| Scoring, checkup, reports | none | functions of the audit, for display | nothing acts on them |

The command line reads the plan or the journal without the lock, shows it, takes the
approval and calls the service. The service takes the lock, reads everything again, and for
each action appends a revision to the journal, calls an adapter, observes, and appends
another. Everything hard happens between those steps: the process dies, the user changes the
host, a command fails or lies, a collector is incomplete, another `macwise` in another
terminal has reviewed something that is no longer there. `undo` must then work out from fresh
evidence what had happened. What the command line plans, and what the Codex server previews, are
the same functions of an audit; a plan is made from one audit and prepared from another, and a
failed collector makes an audit that knows less without being wrong.

## Modules

`ExecutionManifest` holds the rules of `models/execution.py` and the constant tables of the
journal: run and action states, allowed transitions, validators, when an observation matches
an expectation. It has no variables and all other modules use it.

`RunLedger` is the abstract specification: runs are taken one at a time, are settled as
succeeded, failed or undone, and only a succeeded run opens again. `FirstOutcome` says how a run
may `Begin`: the journal accepts a first revision in any state, so for `ExecutionStore` a run may
begin settled; the runs of the whole program begin open, because `apply` writes `prepared` first.

`ExecutionStore` is the journal alone. Its callers are unconstrained: any run, revision
number, plan and state is offered, also as a first revision, so what holds does not depend on
the service behaving. Only what the validators of `models/execution.py` refuse is not offered.
`rows`, `active`, `revision` are the two tables; `rowid` and `inserted` are what SQLite keeps
for the `ORDER BY rowid DESC` of `latest_undoable`. `AppendFirst`, `AppendNext` and
`AppendOlder` are the three ways `append` accepts a revision.

`ExecutionStoreProofs` proves its properties and that it implements `RunLedger`.

`CleanupExecution` composes plan, journal, lock, service, adapters and host.

| Variable | Code |
|---|---|
| `plan` | active plan revision; revision *n* has the items `1..PlanSize[n]`, in the planner's order |
| `lockHolder` | owner of the `flock` |
| `consent` | what each waiting command has shown and had approved; `fresh` says the manifest digest it names is still current |
| `runs`, `recency` | latest manifest of each run, and the runs in order of their latest row |
| `host`, `bin` | what is at each target, and at each application's Trash path |
| `orphan` | `brew` processes whose MacWise was killed |
| `job` | local variables of `apply` or `undo` in the lock holder |
| `spent` | use of the budgets below |

A step of the job ends where the journal or the host has changed, so a crash, a change by the
user or a review by another command fits between any two. `ReviewApply`, `BeginApply`,
`StartAction`, `CheckBefore`, `RunCommand`, `VerifyAfter` follow `apply`; `ReviewUndo`,
`BeginUndo`, `ClassifyCommand`, `ClassifyTrash`, `StartUndo`, `CheckUndo`, `RunCommand`,
`VerifyUndo` follow `undo`; `CheckMove`, `Rename`, `VerifyMove` follow the Trash adapter in
either direction. `AddPlan` is `plan add`. An observation has the value of an action's
decisive fields: present, absent, changed (another bundle), or unknown when the collector was
incomplete.

`CleanupProperties` states what must hold, and what the program's own texts say and its code
does not keep. `CleanupProofs`, `CleanupUndoProofs` and `CleanupJournalProofs` prove all of its
safety.

`HostAudit` says what an audit learns of a Mac: which records there are, which application is taken
for a cask's, who owns a startup item, the usage label, the guidance of the catalog and the state of
each collector. An audit is a host and a fault. The host is an external record (what is installed,
in which version, running, depended on, started at login, when it was last used, which applications
have no executable to look for and which cannot go to the Trash, and which collectors this Mac keeps
`partial` although nothing fails, as one unsigned application does); the fault is the collector,
command, folder or file that could not be read. Everything else is an operator over the two, in the
order in which the code tries its rules.

`CleanupPlanning` adds plans as values: `Entry` is what `add_candidate` appends for one subject,
with the checks of `_preflight` that block; `Extended` is `add_candidate` itself, the upgrade of
a schema-1 plan included; `Valid` has the validator's rules that planning does not keep by
itself; `Reconstructs` is `prepare_execution`, which makes the plan again from a fresh audit and
compares; `CanPrepare` is `prepare_execution_for_cli`, which also refuses to move an application
that is not directly in one of the two folders (`NestedApps`). It has no variables but the host.

`PlanGrowth` is the abstract specification of the plan: a list of subjects that grows by one, at its
end. `PlanCommands` is `plan add` and `apply` in several terminals. `PlanningProofs` proves all of
its properties, with the help of `SequenceLemmas`.

| Variable | Code |
|---|---|
| `host` | the Mac; only `Drift` and `CarryOut` change it |
| `plan` | active plan document |
| `cmd` | local variables of each command: `audited`, `grown` (next revision computed), `read`, `fresh` (audited again), `prepared` |
| `left` | budgets of adds, applies, faults and drifts |

`AuditForAdd`, `GrowPlan`, `AppendPlan` follow `plan add`, which reads the active plan without the
lock and appends with a compare; `ReadForApply`, `AuditForApply`, `Prepare` or `Reject` follow
`apply` to the approval. What comes after is `CleanupExecution`; here `CarryOut` is what it
amounts to, the first few targets removed.

`CodexReads` is the read service: `cached` and `holder` are its two fields, `call` the calls in
progress, `walk` what a client has put together from its pages. `UseCached`, `StartAudit`,
`Collected`, `AuditRaises`, `Store` are `_snapshot`; `AnswerPage` and `AnswerFacts` the tools.
`PlanningSystem` composes commands and clients on one host, and `CodexReadsProofs` proves what the
server answers. `Ordered`, the list that is paged through, is written as a function that takes the
*n*-th record by rank, because the prover cannot expand the sorting operator of the community
modules.

`CodexSetup` is `macwise setup codex`. Its variables are the plugin tree, the backup and stage
trees, the marketplace, what Codex has installed, and the locals of `_install`. A tree is known
by the release it came from, whether its marker and manifest are there (`marked`) and whether it
is complete (`whole`); `RemovePart` takes it apart as `rmtree` does, in any order. Each
filesystem step and each Codex command is an action, so that a failure, a kill or another
program's edit fits between any two. The status `restored` is the refusal that says "prior files
were restored". `promised` observes the tree that has to survive: the complete owned one a run
found, and the new one once Codex has verified it. `CodexSetupProofs` proves its safety.

`MCExecutionStore`, `MCCleanup`, `MCPlanning` and `MCCodexSetup` give small instances. Operators
whose comment calls them mutants, or that are the weaker of two neighbours, are there to be
substituted for the definition they precede, to see that a property can fail.

## Runs that pass

| Run | Instance | Shows |
|---|---|---|
| `journal` | the journal alone; 2 runs of up to 3 revisions, 2 plans; 197 203 states | types; one unresolved run; pointer on the newest row; each run's history is one legal life of one plan; undo offers a run the journal lets continue; the journal implements `RunLedger` |
| `recovery` | a service, its formula and an application, 1 run, 2 commands; 2 crashes and one each of the other failures; about 472 000 states | truthful journal, write-ahead, reverse order, valid manifests, on every way recovery can go |
| `races` | an application and a formula in 2 plan revisions, 2 runs, 2 commands; one of each failure; about 481 000 states | no bundle overwritten, nothing unreviewed touched, evidence behind each claim, runs taken as `RunLedger` says |
| `liveness` | as `recovery`, without user changes and orphans; 33 605 states | the lock is always given back; recovery ends |
| `setup` | 2 releases, 3 faults (failed calls, lying commands, kills), 1 edit by another program, from every kind of home; 131 448 states | the prior plugin is never lost; success and restoration are real; a foreign tree stays; one remnant at most; retries converge |
| `planning` | eight cases below, 2 terminals or 2 clients; 378 997 states | what is prepared is real, not in use, wanted and a removal; a ready plan of an unchanged Mac is refused for the listed reasons only; blocked stays blocked; no add is lost; pages, answers and previews agree with the audit |

The cases of `planning` are small Macs, each with what one group of rules needs: an application and
its cask, with a schema-1 plan to upgrade; the same with a store application in a subfolder, which
the cask must not be taken for; the same with an application that has no version and no executable;
two tools that go together; a formula with a service and one that may need it; two applications and
their launch agents, with a copy in the wrong place and a rival with the same label, and one
application the catalog matches twice. The commands have 2 adds (1 in the second and third case), 1
apply, 1 failed collector and 1 change of the host, and that change can be any: install, uninstall,
update, start or stop, dependency, service, launch agent, cask artifacts, executable, a partial
collector, Trash. The first add and the apply can so differ by what changed and by what could not be
read, and the second add races or repeats the first. Two cases are for clients: 3 calls, pages of 2
of 3 records or more, a refresh between pages, a change or a failed audit. With the bound on calls a
client can walk a list while the other refreshes. The commands and the clients share nothing that
either changes except the host, so no case has both.

`setup` has 3 faults: a kill, a failure of the recovery from it, and a failure of the next.

Two runs suffice in the journal because every rule relates one run to the active one. Since a first
revision may have any state, three revisions reach every pair of steps of the transition table and a
resumed older run. In the execution model two actions are needed for order and partial runs, three
for a run that is partly undone while another action is ambiguous; two commands make every race for
the lock and every stale approval, since only one can hold the lock. `Budget` bounds crashes, failed
observations (`sights`), failed or lying commands, user changes (`drifts`) and orphans; `MaxRuns`
the runs; `MaxRevision` the revisions of the journal. Two crashes are a crash and a crash of the
recovery from it. A command that fails because it cannot work (starting a service with no formula)
costs nothing. `CHECK_DEADLOCK FALSE` is set but in `setup`: with budgets and runs used up nothing
remains to be done.

Commands, and in the journal runs and plans, are interchangeable: no definition orders or
names one. `recovery`, `journal` and `planning` use that symmetry; `races`, `liveness` and `setup` do
not.

`JournalTellsTheTruth` is stated for as long as nobody but MacWise changes the host: no user
change, no orphan. All other properties hold with both.

## Fairness

`FairSpec` assumes that a command holding the lock goes on (`JobsProceed`): commands and
collectors are subprocesses with deadlines, and nothing in a job waits for another command.
(The mutation runner joins its reader threads without a deadline; if a descendant keeps a
pipe open the assumption does not hold.) `UndoingSpec` adds a user who keeps asking: strong
fairness of reviewing and starting an undo, because another command may take the lock again
and again, and weak fairness of refusals, because a command that was started ends.

`RecoveryEnds` says where such a user ends: the run is undone, or it is in one of the dead
ends that `DeadEnd` lists, and these are exactly the ways in which recovery stops for good.

1. The run died after its prepared revision, before its first action.
2. It died between two actions, so that it is in progress with nothing in flight.
3. It came to an end with nothing to reverse. One such: the observation before the first
   action did not match, the run is `verification_failed`, doctor says "run macwise undo to
   review safely observed inverses" (`cli.py:1829`), and undo does not offer it.
4. It came to an end with an action still in flight. `cli.py:1757` promises that "ambiguous
   state will remain journaled and stop recovery"; in fact undo goes on with the other actions
   after journaling the ambiguity, and the state the run reaches that way is not one whose
   actions in flight are ever classified.
5. Its first action in flight, the only one that is ever classified, is an apply left
   ambiguous before the undo began, which the journal refuses to classify any more, or a
   service whose formula is gone, which cannot be observed before the formula is back.

In `CodexSetup`, `FairSpec` assumes that a setup that was started runs on (its commands have
deadlines) and that its user starts it again: `SetupConverges` is about such a user, and says
that setup then succeeds again and again or has met something it leaves to a person, named by
`NeedsReview`. A kill before the marker of a stage is written, or after `rmtree` has taken a
marker, is one of these. The planning run states no fairness: nothing in it has to happen.

## Where the texts and the code disagree

Each of these runs ends in a violation that is the shortest story of the disagreement.

| Run | The text | What happens |
|---|---|---|
| `crash_prepared` | "An unresolved execution must be recovered before a new run." (`persistence/executions.py:332`) | a run that died right after it was prepared blocks new runs and cannot be undone |
| `crash_between` | doctor: "run macwise undo to review bounded fresh-state classification" (`cli.py:1836`) | after a crash between two actions nothing is in flight, and `in_progress` to `undo_in_progress` is not an allowed transition |
| `restored` | "Let fully restored partial runs terminate when later actions never ran" (`docs/phase-5-acceptance.md:48`) | classification does not close the tail that never ran; the run stays `undo_partial` |
| `repeat` | "Repeated apply of the same plan revision refuses." (phase 5 design, line 231) | only the active run is compared; after resuming an older run the revision runs again |
| `setup_partial` | "repair only complete marker-owned transaction trees" (`DECISIONS.md:76`, D-032) | marker and manifest are asked for, completeness is not; a setup killed while it deletes the backup of a verified update leaves a partial backup, and the next setup puts it in the place of the whole plugin (and, if it succeeds, installs a new one over it) |
| `planning_unseen` | "A collector that cannot establish complete relevant evidence blocks execution." (`docs/phase-5-acceptance.md:23`) | the applications collector is relevant only to a Trash action; a running application that a cask manages is prepared for uninstall when `ps` fails |

Some more have no run of their own.

- Stopping a Homebrew service and disabling a launch agent are presented as supported (D-030, the
  phase 5 design), but no plan with one is ever prepared (`OnlyRemovalsArePrepared`): a service
  that can be stopped runs, and what runs is actively used, which blocks; an agent's running
  state is never collected, and revalidation demands it (`services/revalidation.py:216`).
- "create and review a fresh plan revision" (`cli.py:1642`) cannot be followed once an action of
  the plan has succeeded, or once a candidate is blocked: a plan never shrinks.
- A second startup item with the same label makes `plan add --include-startup` end in an uncaught
  `ValidationError`: the id of an action does not have the path (`AddRaises`).
- An application that updates itself no longer has its cask's version, so it is planned for the
  Trash and the cask stays behind.
- A cask planned by its own name has no process state, so it is never found in use and is prepared
  while its application runs (`NothingInUseIsPrepared` names the exception).
- An application in a subfolder of `/Applications` is found, planned and shown as ready, and
  refused only by `apply` (`cli.py:257`), which advises a fresh plan that will fare no better.
- One application that is not signed, has no executable or no known architecture, or a missing
  `~/Applications`, leaves the applications collector partial (`collectors/applications.py:384`), and
  then no application at all can go to the Trash (`RefusalsAreExplained`).
- "Retry macwise setup codex to repair owned setup state." (`integration/setup.py:674`) cannot be
  followed when the removal of the backup had already taken the marker.
- A failed staging is reported as a refusal whether or not its files could be restored; the
  compensating `plugin add` is taken at its word, although the first is verified.

And one in the execution. "Fresh recovery evidence confirms no mutation remains."
(`services/execution.py:318`) is journaled when the target looks untouched. The lock dies with
MacWise but a `brew` it started does not, so the command can still take effect after that
(`CrashAlone`, then an undo, then `OrphanEnds`).

## Proofs

`ExecutionStoreProofs` proves, for every set of runs and plans and every bound on revisions:

- `TypeCorrect`: `Spec => []TypeOK`;
- `OnlyActiveIsUnresolved`: `Spec => []SingleUnresolved`;
- `PointerIsCurrent`: `Spec => []PointerIsNewestRow`;
- `HistoriesAreLegal`: `Spec => []HistoryIsLegal`;
- `UndoFindsTheRightRun`: `Spec => []UndoReachesTheRightRun`;
- `StoreImplementsLedger`: `Spec => KeepsLedger`.

The assumptions are that the empty pointer is not a run (`RunAssumption`) and that the bound is a
number (`MaxRevisionAssumption`). `SingleUnresolved` is not inductive: `AppendNext` accepts the
revision after the one the pointer names, and only a pointer that is current makes that the latest
row of its run. So the inductive invariant `IInv` joins types, the pointer (`PointerInv`), the
distinct rowids (`RowidInv`) and `SingleUnresolved`. `NextKeepsIInv` takes the three appends one by
one; each goes through lemmas on what `Insert` does to rows, pointer and settled runs. The
refinement uses the same invariant: when the active run is settled all are, which is what `Begin`
and `Reopen` of the ledger demand. `HistoriesAreLegal` needs one more part (`HistoryInv`): all
revisions of a run are of the first one's plan, and each advances the one before it by an allowed
transition, from whatever state the first one has. That undo finds the right run is then a matter of
rowids: the active run has the highest, and any other run that can be undone has succeeded, the one
settled state that `undo_in_progress` may follow.

Three modules prove about `CleanupExecution`, for any commands, kinds of items, plans and
budgets, with any number of crashes, lies, user changes and orphans:

- `CleanupProofs`: `CleanupTyped` (`[]TypeOK`), `ReviewedBeforeDone`
  (`[]OnlyWhatWasReviewed`), `JournaledBeforeDone` (`WriteAhead`) and `BundlesSurvive`
  (`NoBundleLost`);
- `CleanupUndoProofs`: `ManifestsStayValid` (`[]ManifestsAreValid`) and `UndoneLatestFirst`
  (`[]UndoneInReverse`);
- `CleanupJournalProofs`: `EvidenceIsReal` (`[]EvidenceBacksClaims`), `JournalIsTruthful`
  (`[]JournalTellsTheTruth`) and `CleanupImplementsLedger` (`KeepsLedger`).

They assume that kinds are among the three modelled (`KindAssumption`), that every plan
revision has at least one of the items (`PlanSizeAssumption`), that the free lock is not a
command (`NoCommandAssumption`) and that the bounds are numbers (`MaxRunsAssumption`,
`BudgetAssumption`). Only the truth of the journal needs the planner's order of services and
formulas (`OwnerAssumption`): a run that removes a formula has stopped its service before.

None of these properties is inductive. `IInv` adds what a job in progress knows: that its run
and item exist (`JobInv`), that the newest revision marks its action (`MarkInv`), and, for
`ReviewedBeforeDone`, that an approval covers all that undo could reverse or classify for as
long as the manifest it names is the newest of its run (`ConsentInv`), so that what a job still
has to do was reviewed (`ReviewInv`): the approval becomes stale with every revision, which is
what makes the digest in the code necessary. Each action has a lemma that it keeps these; the
actions that journal go through `JournalEffect`, which says what a revision changes, and the
others through `StillActing` or `StopEndsJob`. `UInv` adds that a pending action has no
after-state and one being undone has one (`AllSound`), without which classification could build
a `verified` action with no after-state, and that what undo has still to do is exactly what can
still be reversed (`TodoInv`).

The truth of the journal needs an invariant that relates it to the host at every step (`WInv`).
`EvidenceInv` is what an action's record can say in each state, whatever its run went through;
`CommandHost` that packages and services are there or not and never in the Trash, also as a killed
`brew` will leave them; `ApplyInv` that an apply has verified the actions before its own and not
tried the others, which is what closing the tail that never ran relies on. `TruthInv` holds while no
user and no orphan has changed the host: the newest run is then the only one that is not settled for
good, what it says of an action that is not in flight is so, and the target of the one in flight is
where that action found it until the command runs. The last is why a failed or a lying command
leaves nothing unrecorded: what it did is seen before its outcome is journaled, and when it is not
seen the action stays in flight. Each step that journals goes through `Reports`: it leaves the
machine alone, and what it writes is `Evident` and, in the quiet, `Telling`. The steps that change
the machine change only the target of the action in flight, the service of a formula having been
stopped before.

`OneOpen` says that every run but the newest is settled: the
code looks at the newest run only, and this is why that suffices.

`CodexSetupProofs` proves of `CodexSetup`, for any releases, foreign marketplace entries, faults
and edits, `SetupTypes` (`[]TypeOK`), `SetupOneRemnant` (`[]OneRemnant`), `SetupKeepsPromisedTree`
(`[]PromisedTreeKept`), `SetupSuccessIsReal` (`[]SuccessIsReal`), `SetupRestoredIsTrue`
(`[]RestoredIsTrue`) and `SetupLeavesForeignTrees` (`ForeignTreeUntouched`). It assumes
`SetupConstants`. That a tree is never lost says nothing about where it is in the middle of a
swap, so the invariant (`SetupInvariant`) follows the run: `FilesInv` says which of plugin, backup
and stage exist at each step and whose they are, `RunInv` what the locals of `_install` still say
of them and of the marketplace, `Promises` where the tree that is owed to the user is. Each of the
steps, failures included, has a lemma.

`PlanningProofs` and `CodexReadsProofs` prove of `PlanningSystem`, for any software, catalog,
hosts, faults, number of terminals and clients, scenarios and page size:

- `PlanningTypes` and `PlanningSystemTypes` (`[]TypeOK`);
- `PreparedTargetsAreReal`, `PreparedIsNotInUse`, `PairsArePreparedTogether`,
  `StartupIsNeverPrepared`, `UntouchedPlansAreExplained` and `BlockedPlansStayBlocked`, of the plan
  and what is prepared from it;
- `PlansGrow` (`KeepsPlanGrowth`): racing adds implement `PlanGrowth`;
- `WalksAreWhole`, `AnswersNeverGoBack` and `ToolsAgree`, of the answers of the server.

They assume of the Mac and the catalog (`AuditConstants`) that there are finitely many items and
plists, that the id of an item tells whether it is an application, a cask or a formula, that a
relation of the catalog has two different keys (`tests/test_catalog.py:41`), and that roles and
bundles are given for what can have one; of the commands (`CommandConstants`) that the empty values
are not documents or audits, and that a behaviour begins on a possible host with an old plan, if
any, of something installed; of the server (`CodexConstants`) a page of at least one record and an
order of display names with no ties, which the id breaks in the code; and of the scenarios
(`ScenarioConstants`) budgets that are numbers.

`UntouchedPlansAreExplained` is an equivalence: on an unchanged Mac with no collector failing, a
ready and valid plan of one or two items is prepared exactly when `Against` finds nothing. The
reasons it lists are those of revalidation and of the command line, as they come out of the code
for such a plan, and include the ones that have nothing to do with the planned items.
`PreparedIsNotInUse` is about what an action takes away (`Takes`), which for a cask are the
applications of its name, and names each kind of evidence that `apply` does not ask for.

Most of the work is in the functions of an audit. Lemmas say what each rule leaves: `RemovalIs` what
an action can be, `UnblockedIs` what an entry that nothing blocks knows of its audit, and
`PreparedIs` that a prepared plan is one made again from the fresh audit, so that what holds of that
one holds of it. `SequenceLemmas` has what folding, flattening, listing and ranking do for arguments
of any length; the induction it needs is taken over a set of naturals. The state of the commands
adds `CommandsInv`: the locals of a command are what its step needs (`MemoryOK`), and a document
that was grown from the plan as it was read without the lock is an extension of the plan as it is
now, or has a revision that `Accepts` refuses (`Follows`). Without it the compare in
`PlanStore.append` would prove nothing about what is appended. The server adds `CodexInv`:
`CallsInv` relates lock, cache, the audits in progress and the numbers given out, so that what is
stored is newer than what was answered, and `WalksInv` says that the pages of a walk which all name
one audit are a prefix of its list, and that only one audit has that number.

TLC checked the inductive invariants on the small instances before they were proved: those of
journal, execution and setup whole, `CodexInv` whole, and of `CommandsInv` only a weaker form of
what is not a type (its types have sequences of any length, which TLC cannot enumerate).

All safety properties of the runs that pass are theorems. Only model-checked: `LockIsReleased`,
`RecoveryEnds` and `SetupConverges`, because liveness and `ENABLED` are outside the prover's
reach.

## Left out, and what comes next

Startup actions are not in `CleanupExecution`: no run can contain one, which
`OnlyRemovalsArePrepared` checks. The services its instances stop and start stand for the code
under `apply` and `undo`, which handles them. Digests are taken as collision-free. Schema, path and
permission checks of the stores refuse without changing anything and are omitted. Collectors
parse host metadata; what they can answer appears in `HostAudit` and as observations. Reports
and help are formatting.

Of the audit, storage and backups are left out: they decide nothing about a plan but a warning;
that an apply wants a complete backup collector is in `StateOf`. Scores and the
checkup are for display. An audit's id is a number that grows. Of the read service, the filters
of `list_software`, size limits and the wording of answers are left out. Applications under
`/System` cannot be reached from `plan add`, which scans two folders, so the instances have none.
Two setups at once are left out: the code neither locks nor notices, and nothing would hold.
An action of a plan has a target of its own in `CleanupExecution`, although an application and
its cask can both be planned and then name one token.

In order:

1. More about what is proved of: an undo that ends as `undone` has put back what its run took,
   stated as a refinement of `ReviewApply` to `VerifyUndo` by one abstract swap.
2. The mutation runner: deadline, kill, drain and the two reader threads.
