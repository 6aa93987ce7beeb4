---------------------------- MODULE CodexSetup ----------------------------
(***************************************************************************)
(* `macwise setup codex`: CodexSetupService installs the bundled plugin    *)
(* into ~/plugins/macwise, publishes it in the personal marketplace and    *)
(* asks Codex to install it.  The work is a row of filesystem steps and    *)
(* Codex commands without a lock or a journal: what a killed run leaves    *)
(* behind is all that the next run's recovery can see.                     *)
(*                                                                         *)
(* A directory tree is what the code can tell of it: which payload it was  *)
(* copied from, whether marker and manifest are both there and agree       *)
(* (_load_marker), and whether all its files are there.  rmtree and        *)
(* copytree are not atomic: both pass through partial trees.               *)
(***************************************************************************)
EXTENDS Naturals, Sequences

CONSTANTS
    Versions,     \* payload versions that successive MacWise releases bundle
    Foreign,      \* the origin of a tree that MacWise did not make
    Others,       \* unrelated marketplace entries
    NoTree,       \* no directory at a path, and nothing registered in Codex
    MaxFaults,    \* bound: failed calls, failed commands and crashes together
    MaxEdits      \* bound: marketplace edits by other programs

ASSUME SetupConstants ==
    /\ Foreign \notin Versions
    /\ MaxFaults \in Nat /\ MaxEdits \in Nat

VARIABLES
    plugin,       \* the tree at ~/plugins/macwise
    backups,      \* the .macwise-backup-* trees
    stages,       \* the .macwise-stage-* trees
    market,       \* ~/.agents/plugins/marketplace.json
    codex,        \* the tree Codex copied when it last installed macwise
    pc,           \* the step the running setup is at
    local,        \* the local variables of _install
    status,       \* the last SetupResult, "none" after a kill
    promised,     \* observed: the tree that has to survive
    faults, edits

fsVars == <<plugin, backups, stages>>
vars == <<plugin, backups, stages, market, codex, pc, local, status, promised, faults, edits>>

Tree == [by: Versions \cup {Foreign}, marked: BOOLEAN, whole: BOOLEAN]
Market == [file: BOOLEAN, entry: {"none", "ours", "conflict"}, others: SUBSET Others]
NoMarket == [file |-> FALSE, entry |-> "none", others |-> {}]

Removals == {"recover_plugin", "recover_stages", "undo_stage", "undo_plugin", "drop_backup"}
Steps == Removals \cup
    {"idle", "recover", "recover_swap", "load", "stage", "mark", "swap_out", "swap_in",
     "publish", "add", "verify", "unadd", "undo_swap", "undo_market", "readd", "verdict"}
Successes == {"installed", "updated", "already_current"}

Locals == [version: Versions, had: BOOLEAN, current: BOOLEAN, before: Tree \cup {NoTree},
           original: Market, replaced: BOOLEAN, wrote: BOOLEAN, staging: BOOLEAN,
           restored: BOOLEAN, compensated: BOOLEAN]

(* A fresh home, a working installation, or a directory of somebody else. *)
Init ==
    /\ plugin \in {NoTree, [by |-> Foreign, marked |-> FALSE, whole |-> TRUE]}
             \cup [by: Versions, marked: {TRUE}, whole: {TRUE}]
    /\ backups = <<>> /\ stages = <<>>
    /\ market \in {m \in Market : m.file \/ m = NoMarket}
    /\ codex = IF plugin # NoTree /\ plugin.marked /\ market.entry = "ours"
               THEN plugin ELSE NoTree
    /\ pc = "idle" /\ status = "none" /\ faults = 0 /\ edits = 0
    /\ promised = IF plugin # NoTree /\ plugin.marked THEN plugin ELSE NoTree
    /\ local \in [version: Versions, had: {FALSE}, current: {FALSE}, before: {NoTree},
                  original: {NoMarket}, replaced: {FALSE}, wrote: {FALSE}, staging: {FALSE},
                  restored: {FALSE}, compensated: {FALSE}]

----------------------------------------------------------------------------
(* Control.  Fault charges the budget; Finish returns a SetupResult; the   *)
(* locals stay readable until the next run.                                *)
Fault == faults < MaxFaults /\ faults' = faults + 1
Finish(result) == pc' = "idle" /\ status' = result /\ UNCHANGED local
Goto(next) == pc' = next /\ UNCHANGED <<local, status>>

(* OSError or SetupError while staging: _restore_files, then a refusal. *)
StagingFails ==
    /\ Fault
    /\ local' = [local EXCEPT !.staging = TRUE] /\ pc' = "undo_stage"
    /\ UNCHANGED <<fsVars, market, codex, status, promised, edits>>

(* _restore_files returns: TRUE at its end, FALSE from its except clause. *)
UndoReturns(ok) ==
    /\ local' = [local EXCEPT !.restored = ok]
    /\ IF local.staging
       THEN pc' = "idle" /\ status' = "refused"
       ELSE pc' = (IF local.had THEN "readd" ELSE "verdict") /\ UNCHANGED status

(* install: bundle and preflight are good, a run begins. *)
Start(v) ==
    /\ pc = "idle"
    /\ local' = [local EXCEPT !.version = v, !.staging = FALSE, !.restored = FALSE,
                              !.compensated = FALSE, !.replaced = FALSE, !.wrote = FALSE]
    /\ pc' = "recover" /\ status' = "none"
    /\ UNCHANGED <<fsVars, market, codex, promised, faults, edits>>

(* Codex lacks the plugin commands: refused before any file is touched. *)
PreflightRefuses ==
    /\ pc = "idle" /\ Fault
    /\ Finish("refused")
    /\ UNCHANGED <<fsVars, market, codex, promised, edits>>

----------------------------------------------------------------------------
(* _recover_owned_transaction *)
Unsafe == \E s \in {backups, stages} : \E i \in DOMAIN s : ~s[i].marked

RecoverRefuses ==
    /\ pc = "recover"
    /\ \/ Len(backups) > 1
       \/ Unsafe
       \/ backups # <<>> /\ plugin # NoTree /\ ~plugin.marked
    /\ Finish("refused")
    /\ UNCHANGED <<fsVars, market, codex, promised, faults, edits>>

Recover ==
    /\ pc = "recover" /\ Len(backups) <= 1 /\ ~Unsafe
    /\ IF backups = <<>>
       THEN Goto("recover_stages") /\ UNCHANGED promised
       ELSE /\ plugin # NoTree => plugin.marked
            /\ Goto(IF plugin # NoTree THEN "recover_plugin" ELSE "recover_swap")
            /\ promised' = IF backups[1].whole THEN backups[1] ELSE NoTree
    /\ UNCHANGED <<fsVars, market, codex, faults, edits>>

\* Mutant of RecoverSwap: the backup is copied back instead of moved.
RecoverSwapCopies ==
    /\ pc = "recover_swap"
    /\ plugin' = backups[1] /\ UNCHANGED backups
    /\ Goto("recover_stages")
    /\ UNCHANGED <<stages, market, codex, promised, faults, edits>>

RecoverSwap ==
    /\ pc = "recover_swap"
    /\ plugin' = backups[1] /\ backups' = Tail(backups)
    /\ Goto("recover_stages")
    /\ UNCHANGED <<stages, market, codex, promised, faults, edits>>

(* OSError in the recovery: nothing is compensated. *)
RecoverFails ==
    /\ pc \in {"recover_plugin", "recover_swap", "recover_stages"} /\ Fault
    /\ pc = "recover_stages" => stages # <<>>
    /\ Finish("refused")
    /\ UNCHANGED <<fsVars, market, codex, promised, edits>>

----------------------------------------------------------------------------
(* shutil.rmtree: entries go in no fixed order, so the marker may go first *)
(* or last; then the directory itself.                                     *)
Gnawed(t) == {[t EXCEPT !.whole = FALSE, !.marked = m] : m \in {FALSE, t.marked}}

RemovePart ==
    /\ \/ /\ pc \in {"recover_plugin", "undo_plugin"}
          /\ pc = "undo_plugin" => local.replaced
          /\ plugin # NoTree
          /\ plugin' \in Gnawed(plugin) /\ UNCHANGED <<backups, stages>>
       \/ /\ pc \in {"recover_stages", "undo_stage"} /\ stages # <<>>
          /\ \E t \in Gnawed(Head(stages)) : stages' = <<t>> \o Tail(stages)
          /\ UNCHANGED <<plugin, backups>>
       \/ /\ pc = "drop_backup" /\ backups # <<>>
          /\ \E t \in Gnawed(Head(backups)) : backups' = <<t>> \o Tail(backups)
          /\ UNCHANGED <<plugin, stages>>
    /\ UNCHANGED <<market, codex, pc, local, status, promised, faults, edits>>

RecoverPlugin ==
    /\ pc = "recover_plugin"
    /\ plugin' = NoTree
    /\ Goto("recover_swap")
    /\ UNCHANGED <<backups, stages, market, codex, promised, faults, edits>>

\* Mutant of RecoverStages: only one remnant is looked for, the backup.
RecoverStagesKept ==
    /\ pc = "recover_stages"
    /\ Goto("load")
    /\ UNCHANGED <<fsVars, market, codex, promised, faults, edits>>

RecoverStages ==
    /\ pc = "recover_stages"
    /\ IF stages = <<>>
       THEN Goto("load") /\ UNCHANGED stages
       ELSE stages' = Tail(stages) /\ UNCHANGED <<pc, local, status>>
    /\ UNCHANGED <<plugin, backups, market, codex, promised, faults, edits>>

----------------------------------------------------------------------------
(* The staging part of _install *)
LoadRefuses ==
    /\ pc = "load"
    /\ \/ plugin # NoTree /\ ~plugin.marked
       \/ market.entry = "conflict"
    /\ Finish("refused")
    /\ UNCHANGED <<fsVars, market, codex, promised, faults, edits>>

\* Mutant of Load: the marker of an existing plugin is not asked for.
LoadUnmarked ==
    /\ pc = "load"
    /\ market.entry # "conflict"
    /\ local' = [local EXCEPT !.had = plugin # NoTree, !.before = plugin, !.original = market,
                              !.current = plugin # NoTree /\ plugin.by = local.version]
    /\ promised' = IF plugin # NoTree /\ plugin.whole THEN plugin ELSE NoTree
    /\ pc' = "stage"
    /\ UNCHANGED <<fsVars, market, codex, status, faults, edits>>

(* Owned marker and marketplace are read; marketplace bytes are kept. *)
Load ==
    /\ pc = "load"
    /\ plugin # NoTree => plugin.marked
    /\ market.entry # "conflict"
    /\ local' = [local EXCEPT !.had = plugin # NoTree, !.before = plugin, !.original = market,
                              !.current = plugin # NoTree /\ plugin.by = local.version]
    /\ promised' = IF plugin # NoTree /\ plugin.whole THEN plugin ELSE NoTree
    /\ pc' = "stage"
    /\ UNCHANGED <<fsVars, market, codex, status, faults, edits>>

(* copytree: the stage fills up, it has no marker yet. *)
Stage ==
    /\ pc = "stage"
    /\ stages' = Append(stages, [by |-> local.version, marked |-> FALSE, whole |-> FALSE])
    /\ Goto("mark")
    /\ UNCHANGED <<plugin, backups, market, codex, promised, faults, edits>>

(* copytree ends, .mcp.json and .macwise-owned.json are written. *)
Mark ==
    /\ pc = "mark"
    /\ stages' = [i \in DOMAIN stages |-> IF i < Len(stages) THEN stages[i]
                     ELSE [stages[i] EXCEPT !.marked = TRUE, !.whole = TRUE]]
    /\ Goto(IF local.had THEN "swap_out" ELSE "swap_in")
    /\ UNCHANGED <<plugin, backups, market, codex, promised, faults, edits>>

SwapOut ==
    /\ pc = "swap_out"
    /\ backups' = Append(backups, plugin) /\ plugin' = NoTree
    /\ Goto("swap_in")
    /\ UNCHANGED <<stages, market, codex, promised, faults, edits>>

SwapIn ==
    /\ pc = "swap_in"
    /\ plugin' = stages[Len(stages)] /\ stages' = SubSeq(stages, 1, Len(stages) - 1)
    /\ local' = [local EXCEPT !.replaced = TRUE] /\ pc' = "publish"
    /\ UNCHANGED <<backups, market, codex, status, promised, faults, edits>>

(* _with_macwise_entry of what Load read, written atomically. *)
Publish ==
    /\ pc = "publish"
    /\ market' = [local.original EXCEPT !.file = TRUE, !.entry = "ours"]
    /\ local' = [local EXCEPT !.wrote = TRUE] /\ pc' = "add"
    /\ UNCHANGED <<fsVars, codex, status, promised, faults, edits>>

StagingStepFails ==
    /\ pc \in {"stage", "mark", "swap_out", "swap_in", "publish"}
    /\ StagingFails

----------------------------------------------------------------------------
(* Codex.  An honest `plugin add` copies the published tree and says so.   *)
(* A faulty one may do it and not say so (a timeout, a truncated answer),  *)
(* fail, or say so without doing it.                                       *)
Installable == plugin # NoTree /\ market.entry = "ours"

AddCommand(replies) ==
    \/ /\ replies = Installable
       /\ codex' = IF Installable THEN plugin ELSE codex
       /\ UNCHANGED faults
    \/ /\ Fault
       /\ codex' \in {codex} \cup (IF Installable THEN {plugin} ELSE {})
       /\ replies => codex' = codex

RemoveCommand(replies) ==
    \/ codex' = NoTree /\ (codex # NoTree => replies) /\ UNCHANGED faults
    \/ Fault /\ codex' \in {codex, NoTree} /\ (replies => codex' = codex)

Add ==
    /\ pc = "add"
    /\ \E replies \in BOOLEAN :
          /\ AddCommand(replies)
          /\ IF replies THEN Goto("verify")
             ELSE /\ pc' = IF local.had THEN "undo_stage" ELSE "unadd"
                  /\ UNCHANGED <<local, status>>
    /\ UNCHANGED <<fsVars, market, promised, edits>>

\* Mutant of Verified: the answer of `plugin add` is trusted.
VerifiedByReply == TRUE

(* verify_installed: `plugin list` has to show selector and version. *)
Verified == codex # NoTree /\ codex.by = local.version

Verify ==
    /\ pc = "verify"
    /\ \/ /\ Verified
          /\ promised' = plugin
          /\ Goto("drop_backup") /\ UNCHANGED faults
       \/ /\ IF Verified THEN Fault ELSE UNCHANGED faults
          /\ pc' = IF local.had THEN "undo_stage" ELSE "unadd"
          /\ UNCHANGED <<local, status, promised>>
    /\ UNCHANGED <<fsVars, market, codex, edits>>

Unadd ==
    /\ pc = "unadd"
    /\ \E replies \in BOOLEAN :
          /\ RemoveCommand(replies)
          /\ local' = [local EXCEPT !.compensated = replies]
    /\ pc' = "undo_stage"
    /\ UNCHANGED <<fsVars, market, status, promised, edits>>

Readd ==
    /\ pc = "readd"
    /\ \E replies \in BOOLEAN :
          /\ AddCommand(replies)
          /\ local' = [local EXCEPT !.compensated = replies]
    /\ pc' = "verdict"
    /\ UNCHANGED <<fsVars, market, status, promised, edits>>

Verdict ==
    /\ pc = "verdict"
    /\ Finish(IF local.restored /\ local.compensated THEN "restored" ELSE "interrupted")
    /\ UNCHANGED <<fsVars, market, codex, promised, faults, edits>>

----------------------------------------------------------------------------
(* _restore_files *)
UndoStage ==
    /\ pc = "undo_stage"
    /\ stages' = IF stages = <<>> THEN stages ELSE Tail(stages)
    /\ Goto("undo_plugin")
    /\ UNCHANGED <<plugin, backups, market, codex, promised, faults, edits>>

\* Mutant of UndoPlugin: the tree is removed whether or not it is the new one.
UndoPluginAlways ==
    /\ pc = "undo_plugin"
    /\ plugin' = NoTree
    /\ Goto("undo_swap")
    /\ UNCHANGED <<backups, stages, market, codex, promised, faults, edits>>

UndoPlugin ==
    /\ pc = "undo_plugin"
    /\ plugin' = IF local.replaced THEN NoTree ELSE plugin
    /\ Goto("undo_swap")
    /\ UNCHANGED <<backups, stages, market, codex, promised, faults, edits>>

UndoSwap ==
    /\ pc = "undo_swap"
    /\ IF local.had /\ backups # <<>>
       THEN plugin' = backups[1] /\ backups' = Tail(backups)
       ELSE UNCHANGED <<plugin, backups>>
    /\ Goto("undo_market")
    /\ UNCHANGED <<stages, market, codex, promised, faults, edits>>

\* Mutant of UndoMarket: a marketplace that did not exist is left in place.
UndoMarketOfFile ==
    /\ pc = "undo_market"
    /\ market' = IF local.wrote /\ local.original.file THEN local.original ELSE market
    /\ UndoReturns(TRUE)
    /\ UNCHANGED <<fsVars, codex, promised, faults, edits>>

UndoMarket ==
    /\ pc = "undo_market"
    /\ market' = IF local.wrote THEN local.original ELSE market
    /\ UndoReturns(TRUE)
    /\ UNCHANGED <<fsVars, codex, promised, faults, edits>>

UndoFails ==
    /\ pc \in {"undo_stage", "undo_plugin", "undo_swap", "undo_market"} /\ Fault
    /\ UndoReturns(FALSE)
    /\ UNCHANGED <<fsVars, market, codex, promised, edits>>

----------------------------------------------------------------------------
\* Mutant of Outcome: a status that SetupStatus does not know.
OutcomeUnknown ==
    IF local.current THEN "unchanged" ELSE IF local.had THEN "updated" ELSE "installed"

(* The verified installation drops the backup it no longer needs. *)
Outcome == IF local.current THEN "already_current" ELSE IF local.had THEN "updated" ELSE "installed"

DropBackup ==
    /\ pc = "drop_backup"
    /\ backups' = IF backups = <<>> THEN backups ELSE Tail(backups)
    /\ Finish(Outcome)
    /\ UNCHANGED <<plugin, stages, market, codex, promised, faults, edits>>

DropBackupFails ==
    /\ pc = "drop_backup" /\ backups # <<>> /\ Fault
    /\ Finish("interrupted_backup")
    /\ UNCHANGED <<fsVars, market, codex, promised, edits>>

(* The process is killed between two steps; files and Codex stay as they are. *)
Crash ==
    /\ pc # "idle" /\ Fault
    /\ Finish("none")
    /\ UNCHANGED <<fsVars, market, codex, promised, edits>>

(* Another program adds or removes an entry of its own. *)
OtherEdit ==
    /\ edits < MaxEdits /\ edits' = edits + 1
    /\ \E o \in Others :
          market' = [market EXCEPT !.file = TRUE,
                         !.others = IF o \in @ THEN @ \ {o} ELSE @ \cup {o}]
    /\ UNCHANGED <<fsVars, codex, pc, local, status, promised, faults>>

Running ==
    \/ RecoverRefuses \/ Recover \/ RecoverPlugin \/ RecoverSwap \/ RecoverStages
    \/ LoadRefuses \/ Load \/ Stage \/ Mark \/ SwapOut \/ SwapIn \/ Publish
    \/ Add \/ Verify \/ Unadd \/ Readd \/ Verdict
    \/ UndoStage \/ UndoPlugin \/ UndoSwap \/ UndoMarket \/ DropBackup

Failing ==
    \/ PreflightRefuses \/ RecoverFails \/ StagingStepFails \/ UndoFails \/ DropBackupFails
    \/ Crash

Next ==
    \/ \E v \in Versions : Start(v)
    \/ Running \/ RemovePart \/ Failing \/ OtherEdit

(* A started setup runs on, and its user runs the current release again.   *)
Spec == Init /\ [][Next]_vars
FairSpec == Spec /\ WF_vars(Running) /\ WF_vars(\E v \in Versions : Start(v))

----------------------------------------------------------------------------
(* Properties.                                                             *)

Trees == {plugin} \cup {backups[i] : i \in DOMAIN backups}

\* Trees, marketplace, Codex and the running setup have their types.
TypeOK ==
    /\ plugin \in Tree \cup {NoTree}
    /\ backups \in Seq(Tree) /\ stages \in Seq(Tree)
    /\ market \in Market /\ codex \in Tree \cup {NoTree}
    /\ pc \in Steps /\ local \in Locals
    /\ status \in Successes \cup {"none", "refused", "restored", "interrupted",
                                  "interrupted_backup"}
    /\ promised \in Tree \cup {NoTree}
    /\ faults \in 0..MaxFaults /\ edits \in 0..MaxEdits

\* The prior owned installation, or the new one from the moment Codex has
\* verified it, is whole at the plugin path or in the backup, through every
\* failed step, compensation, kill and repair.  A repair that finds a whole
\* backup owes that tree; RepairsOnlyCompleteTrees shows one that does not.
PromisedTreeKept == promised # NoTree => promised \in Trees

\* Runs and repairs never pile up remnants, so that recovery can always tell
\* which backup is the prior installation.
OneRemnant == Len(backups) <= 1 /\ Len(stages) <= 1

\* A success status means that all is in place: the tree, its marketplace
\* entry, the version Codex lists, and no remnant of this run.
SuccessIsReal ==
    pc = "idle" /\ status \in Successes =>
        /\ plugin = [by |-> local.version, marked |-> TRUE, whole |-> TRUE]
        /\ market.entry = "ours"
        /\ codex # NoTree /\ codex.by = local.version
        /\ backups = <<>> /\ stages = <<>>

\* "prior files were restored" is true of the plugin tree, and of the
\* marketplace unless another program wrote to it during the run.
RestoredIsTrue ==
    pc = "idle" /\ status = "restored" =>
        /\ plugin = local.before /\ backups = <<>> /\ stages = <<>>
        /\ edits = 0 => market = local.original

\* A tree that somebody else put at the plugin path stays as it is.
ForeignTreeUntouched == [][plugin # NoTree /\ plugin.by = Foreign => plugin' = plugin]_vars

\* What only a person can resolve: a plugin or a marketplace entry of somebody
\* else, or a tree whose marker is not there, because a kill or a failed
\* removal came before it was written or after it was removed.
NeedsReview ==
    \/ Unsafe
    \/ plugin # NoTree /\ ~plugin.marked
    \/ market.entry = "conflict"

\* Retried often enough, setup succeeds or has met something to review.
SetupConverges == <>[]NeedsReview \/ []<>(status \in Successes)

\* "repair only complete marker-owned transaction trees" (DECISIONS.md, D-032).
RepairsOnlyCompleteTrees == pc = "recover_swap" => backups[1].whole
============================================================================
