------------------------- MODULE CodexSetupProofs -------------------------
(***************************************************************************)
(* Proofs about CodexSetup, for any releases, any unrelated marketplace    *)
(* entries and any number of failed calls, lying commands, kills and edits *)
(* by other programs: every safety property the run "setup" checks.        *)
(***************************************************************************)
EXTENDS CodexSetup, SequenceTheorems, TLAPS

----------------------------------------------------------------------------
(* The inductive invariant.                                                *)

(* The tree this run stages, and where the prior one is meanwhile.         *)
New == [by |-> local.version, marked |-> TRUE, whole |-> TRUE]
InPlace == plugin = local.before /\ backups = <<>>
Aside == backups = IF local.had THEN <<local.before>> ELSE <<>>

(* Nothing MacWise moves about is somebody else's.                         *)
OwnTrees ==
    /\ \A i \in DOMAIN backups : backups[i].by # Foreign
    /\ \A i \in DOMAIN stages : stages[i].by # Foreign
    /\ plugin # NoTree /\ plugin.marked => plugin.by # Foreign
    /\ local.before # NoTree => local.before.by # Foreign

(* Recovery: the backup it found is there until it is back in place.       *)
RecoverInv ==
    /\ pc \in {"recover_plugin", "recover_swap"} =>
          Len(backups) = 1 /\ promised \in {backups[1], NoTree}
    /\ pc = "recover_plugin" /\ plugin # NoTree => plugin.by # Foreign
    /\ pc = "recover_swap" => plugin = NoTree
    /\ pc = "recover_stages" => backups = <<>>
    /\ pc = "load" => backups = <<>> /\ stages = <<>>

Recovering == {"recover", "recover_plugin", "recover_swap", "recover_stages", "load"}
Staging == {"stage", "mark", "swap_out", "swap_in", "publish"}
Installing == {"add", "verify", "unadd"}
Undoing == {"undo_stage", "undo_plugin", "undo_swap", "undo_market"}

(* What the locals of a transaction say of the installation it found.      *)
LocalInv ==
    /\ pc \in Recovering => ~local.staging /\ ~local.wrote /\ ~local.replaced
    /\ pc \in Staging \cup Installing \cup Undoing \cup {"readd"} =>
          local.had = (local.before # NoTree)
    /\ pc \in Staging \cup Installing \cup Undoing =>
          promised = IF local.had /\ local.before.whole THEN local.before ELSE NoTree
    /\ pc \in Staging => ~local.staging /\ ~local.wrote /\ (edits = 0 => market = local.original)
    /\ pc \in {"stage", "mark", "swap_out", "swap_in"} => ~local.replaced
    /\ pc \in {"publish"} \cup Installing => local.replaced
    /\ pc \in Installing \cup {"drop_backup"} => local.wrote /\ market.entry = "ours"
    /\ pc \in Installing \cup {"readd", "verdict"} => ~local.staging

(* Where prior and new tree are, step by step.                             *)
StagingInv ==
    /\ pc = "stage" => InPlace /\ stages = <<>>
    /\ pc \in {"mark", "swap_out"} => InPlace /\ Len(stages) = 1 /\ stages[1].by = local.version
    /\ pc = "swap_out" => local.had
    /\ pc \in {"swap_out", "swap_in"} => stages = <<New>>
    /\ pc = "swap_in" => plugin = NoTree /\ Aside
    /\ pc \in {"publish", "drop_backup"} \cup Installing => stages = <<>> /\ plugin = New
    /\ pc \in {"publish"} \cup Installing => Aside
    /\ pc = "drop_backup" => promised = plugin /\ codex # NoTree /\ codex.by = local.version

(* The way back: the new tree goes before the prior one returns.           *)
UndoInv ==
    /\ pc \in {"undo_stage", "undo_plugin"} /\ ~local.replaced =>
          InPlace \/ (Aside /\ plugin = NoTree)
    /\ pc \in {"undo_stage", "undo_plugin"} /\ local.replaced =>
          /\ Aside
          /\ plugin # NoTree => plugin.by # Foreign
    /\ pc \in {"undo_plugin", "undo_swap", "undo_market"} => stages = <<>>
    /\ pc = "undo_swap" => InPlace \/ (Aside /\ plugin = NoTree)
    /\ pc = "undo_market" => InPlace
    /\ pc \in Undoing /\ ~local.wrote => (edits = 0 => market = local.original)
    /\ pc \in {"readd", "verdict"} /\ local.restored =>
          InPlace /\ stages = <<>> /\ (edits = 0 => market = local.original)

FilesInv == OneRemnant /\ OwnTrees /\ RecoverInv /\ StagingInv
RunInv == LocalInv /\ UndoInv
Promises == PromisedTreeKept /\ SuccessIsReal /\ RestoredIsTrue

IInv == TypeOK /\ FilesInv /\ RunInv /\ Promises

----------------------------------------------------------------------------
(* What the values that steps make are.                                    *)

(* Sequences of at most one element. *)
LEMMA OneElement ==
    ASSUME NEW S, NEW s \in Seq(S), Len(s) <= 1, s # <<>>
    PROVE  /\ s = <<s[1]>> /\ s[1] \in S /\ Len(s) = 1 /\ DOMAIN s = {1}
           /\ Head(s) = s[1] /\ Tail(s) = <<>> /\ SubSeq(s, 1, Len(s) - 1) = <<>>
<1>1. Len(s) = 1
  <2>1. Len(s) \in Nat \ {0}
    BY EmptySeq
  <2> QED
    BY <2>1
<1>2. DOMAIN s = {1} /\ s[1] \in S
  BY <1>1
<1>3. s = <<s[1]>> /\ Head(s) = s[1]
  BY <1>1
<1>4. Tail(s) = <<>>
  <2>1. Tail(s) \in Seq(S) /\ Len(Tail(s)) = 0
    BY <1>1, HeadTailProperties
  <2> QED
    BY <2>1, EmptySeq
<1>5. SubSeq(s, 1, Len(s) - 1) = <<>>
  BY <1>1
<1> QED
  BY <1>1, <1>2, <1>3, <1>4, <1>5

(* Sequences of one element that steps build. *)
LEMMA SingletonSeq ==
    ASSUME NEW S, NEW x \in S
    PROVE  /\ <<x>> \in Seq(S) /\ Len(<<x>>) = 1 /\ <<x>>[1] = x /\ DOMAIN <<x>> = {1}
           /\ <<x>> # <<>> /\ <<>> \in Seq(S) /\ Len(<<>>) = 0 /\ DOMAIN <<>> = {}
           /\ Append(<<>>, x) = <<x>> /\ <<x>> \o <<>> = <<x>>
  OBVIOUS

(* A tree on its way out is still a tree of the same origin. *)
LEMMA GnawedTree ==
    ASSUME NEW t \in Tree, NEW g \in Gnawed(t)
    PROVE  g \in Tree /\ g.by = t.by /\ ~g.whole /\ (g.marked => t.marked)
  BY DEF Tree, Gnawed

(* A stage that is complete. *)
LEMMA MarkedTree ==
    ASSUME NEW t \in Tree
    PROVE  [t EXCEPT !.marked = TRUE, !.whole = TRUE]
              = [by |-> t.by, marked |-> TRUE, whole |-> TRUE]
<1> DEFINE u == [t EXCEPT !.marked = TRUE, !.whole = TRUE]
<1>1. DOMAIN u = {"by", "marked", "whole"} /\ u.by = t.by /\ u.marked = TRUE /\ u.whole = TRUE
  BY DEF Tree
<1>2. u = [x \in DOMAIN u |-> u[x]]
  OBVIOUS
<1> HIDE DEF u
<1>3. u = [by |-> u.by, marked |-> u.marked, whole |-> u.whole]
  BY <1>1, <1>2
<1>4. u = [by |-> t.by, marked |-> TRUE, whole |-> TRUE]
  BY <1>1, <1>3
<1> QED
  BY <1>4 DEF u

(* What OneRemnant makes of the backups and the stages. *)
Stack(s) == s # <<>> =>
    /\ s = <<s[1]>> /\ s[1] \in Tree /\ Len(s) = 1 /\ DOMAIN s = {1}
    /\ Head(s) = s[1] /\ Tail(s) = <<>> /\ SubSeq(s, 1, Len(s) - 1) = <<>>

(* At most one backup and one stage are left, so each stack is one tree high. *)
LEMMA Stacks == TypeOK /\ OneRemnant => Stack(backups) /\ Stack(stages)
  BY OneElement DEF TypeOK, OneRemnant, Stack

(* The locals are a record: assignments to them keep its type. *)
LEMMA LocalsAssigned ==
    ASSUME local \in Locals
    PROVE  /\ [local EXCEPT !.staging = TRUE] \in Locals
           /\ [local EXCEPT !.replaced = TRUE] \in Locals
           /\ [local EXCEPT !.wrote = TRUE] \in Locals
           /\ \A ok \in BOOLEAN : /\ [local EXCEPT !.restored = ok] \in Locals
                                  /\ [local EXCEPT !.compensated = ok] \in Locals
  BY DEF Locals

(* What a run begins with is a record of locals. *)
LEMMA LocalsOfARun ==
    ASSUME local \in Locals, market \in Market, plugin \in Tree \cup {NoTree},
           NEW v \in Versions, NEW had \in BOOLEAN, NEW current \in BOOLEAN
    PROVE  /\ [local EXCEPT !.version = v, !.staging = FALSE, !.restored = FALSE,
                   !.compensated = FALSE, !.replaced = FALSE, !.wrote = FALSE] \in Locals
           /\ [local EXCEPT !.had = had, !.before = plugin, !.original = market,
                   !.current = current] \in Locals
  BY DEF Locals

(* The marketplace after a write of MacWise, and of another program. *)
LEMMA MarketWritten ==
    ASSUME NEW m \in Market, NEW others \in SUBSET Others
    PROVE  /\ [m EXCEPT !.file = TRUE, !.entry = "ours"] \in Market
           /\ [m EXCEPT !.file = TRUE, !.others = others] \in Market
           /\ [m EXCEPT !.file = TRUE, !.others = others].entry = m.entry
           /\ [m EXCEPT !.file = TRUE, !.entry = "ours"].entry = "ours"
  BY DEF Market

----------------------------------------------------------------------------
(* Every step keeps the types, the remnants and the promises.              *)

(* Every value stays in its type. *)
LEMMA TypeStep == IInv /\ [Next]_vars => TypeOK'
<1> SUFFICES ASSUME IInv, [Next]_vars PROVE TypeOK'
  OBVIOUS
<1>0. TypeOK /\ RecoverInv /\ LocalInv /\ StagingInv /\ Stack(backups) /\ Stack(stages)
  BY Stacks DEF IInv, FilesInv, RunInv
<1> USE SetupConstants DEF TypeOK, Steps, Removals, Successes, fsVars
<1>1. ASSUME NEW v \in Versions, Start(v) PROVE TypeOK'
  <2>1. local' \in Locals
    BY <1>1, <1>0, LocalsOfARun DEF Start
  <2> QED
    BY <1>1, <1>0, <2>1 DEF Start
<1>2. CASE RecoverRefuses
  BY <1>2, <1>0 DEF RecoverRefuses, Finish, Unsafe
<1>3. CASE Recover
  BY <1>3, <1>0 DEF Recover, Goto, Unsafe
<1>4. CASE RecoverPlugin
  BY <1>4, <1>0 DEF RecoverPlugin, Goto
<1>5. CASE RecoverSwap
  <2>0. Len(backups) = 1
    BY <1>5, <1>0 DEF RecoverSwap, RecoverInv
  <2>1. backups # <<>>
    BY <2>0
  <2>2. plugin' = backups[1] /\ backups[1] \in Tree /\ backups' = <<>>
    BY <1>5, <1>0, <2>1 DEF RecoverSwap, Stack
  <2> QED
    BY <1>5, <1>0, <2>2, SingletonSeq DEF RecoverSwap, Goto
<1>6. CASE RecoverStages
  BY <1>6, <1>0 DEF RecoverStages, Goto
<1>7. CASE LoadRefuses
  BY <1>7, <1>0 DEF LoadRefuses, Finish
<1>8. CASE Load
  <2>1. local' \in Locals
    BY <1>8, <1>0 DEF Load, Locals
  <2> QED
    BY <1>8, <1>0, <2>1 DEF Load
<1>9. CASE Stage
  <2>1. stages' = <<[by |-> local.version, marked |-> FALSE, whole |-> FALSE]>>
    BY <1>9, <1>0, SingletonSeq DEF Stage, StagingInv
  <2>2. [by |-> local.version, marked |-> FALSE, whole |-> FALSE] \in Tree
    BY <1>0 DEF Tree, Locals
  <2> QED
    BY <1>9, <1>0, <2>1, <2>2, SingletonSeq DEF Stage, Goto
<1>10. CASE Mark
  <2>1. Len(stages) = 1
    BY <1>10, <1>0 DEF Mark, StagingInv
  <2>2. stages # <<>>
    BY <2>1
  <2>3. stages = <<stages[1]>> /\ stages[1] \in Tree /\ Len(stages) = 1 /\ DOMAIN stages = {1}
    BY <1>0, <2>2 DEF Stack
  <2>4. stages' = <<[stages[1] EXCEPT !.marked = TRUE, !.whole = TRUE]>>
    BY <1>10, <2>3 DEF Mark
  <2>5. [stages[1] EXCEPT !.marked = TRUE, !.whole = TRUE] \in Tree
    BY <2>3 DEF Tree
  <2>6. stages' \in Seq(Tree)
    BY <2>4, <2>5, SingletonSeq
  <2> QED
    BY <1>10, <1>0, <2>6 DEF Mark, Goto
<1>11. CASE SwapOut
  <2>1. plugin \in Tree /\ backups = <<>>
    BY <1>11, <1>0 DEF SwapOut, StagingInv, LocalInv, InPlace, Staging, Locals
  <2>2. backups' = <<plugin>>
    BY <1>11, <2>1, SingletonSeq DEF SwapOut
  <2> QED
    BY <1>11, <1>0, <2>1, <2>2, SingletonSeq DEF SwapOut, Goto
<1>12. CASE SwapIn
  <2>1. local' \in Locals
    BY <1>12, <1>0, LocalsAssigned DEF SwapIn
  <2>3. stages = <<New>>
    BY <1>12, <1>0 DEF SwapIn, StagingInv
  <2>0. stages # <<>>
    BY <2>3
  <2>2. plugin' = stages[1] /\ stages[1] \in Tree /\ stages' = <<>>
    BY <1>12, <1>0, <2>0 DEF SwapIn, Stack
  <2> QED
    BY <1>12, <1>0, <2>1, <2>2, SingletonSeq DEF SwapIn
<1>13. CASE Publish
  <2>1. local' \in Locals
    BY <1>13, <1>0, LocalsAssigned DEF Publish
  <2>2. market' \in Market
    BY <1>13, <1>0, MarketWritten DEF Publish, Locals
  <2> QED
    BY <1>13, <1>0, <2>1, <2>2 DEF Publish
<1>14. CASE Add
  BY <1>14, <1>0 DEF Add, Goto, AddCommand, Installable, Fault
<1>15. CASE Verify
  BY <1>15, <1>0 DEF Verify, Goto, Verified, Fault
<1>16. CASE Unadd
  <2>1. local' \in Locals
    BY <1>16, <1>0, LocalsAssigned DEF Unadd, RemoveCommand, Fault
  <2> QED
    BY <1>16, <1>0, <2>1 DEF Unadd, RemoveCommand, Fault
<1>17. CASE Readd
  <2>1. local' \in Locals
    BY <1>17, <1>0, LocalsAssigned DEF Readd, AddCommand, Installable, Fault
  <2> QED
    BY <1>17, <1>0, <2>1 DEF Readd, AddCommand, Installable, Fault
<1>18. CASE Verdict
  BY <1>18, <1>0 DEF Verdict, Finish
<1>19. CASE UndoStage
  BY <1>19, <1>0 DEF UndoStage, Goto
<1>20. CASE UndoPlugin
  BY <1>20, <1>0 DEF UndoPlugin, Goto
<1>21. CASE UndoSwap
  BY <1>21, <1>0 DEF UndoSwap, Goto
<1>22. CASE UndoMarket
  <2>1. local' \in Locals
    BY <1>22, <1>0, LocalsAssigned DEF UndoMarket, UndoReturns
  <2>2. local.original \in Market
    BY <1>0 DEF Locals
  <2> QED
    BY <1>22, <1>0, <2>1, <2>2 DEF UndoMarket, UndoReturns
<1>23. CASE DropBackup
  BY <1>23, <1>0 DEF DropBackup, Finish, Outcome
<1>24. CASE RemovePart
  <2>1. CASE plugin # NoTree /\ plugin' \in Gnawed(plugin) /\ UNCHANGED <<backups, stages>>
    BY <1>24, <1>0, <2>1, GnawedTree DEF RemovePart
  <2>2. ASSUME stages # <<>>, NEW t \in Gnawed(Head(stages)), stages' = <<t>> \o Tail(stages),
               UNCHANGED <<plugin, backups>>
        PROVE  TypeOK'
    <3>1. t \in Tree /\ stages' = <<t>>
      BY <1>0, <2>2, GnawedTree, SingletonSeq DEF Stack
    <3> QED
      BY <1>24, <1>0, <2>2, <3>1, SingletonSeq DEF RemovePart
  <2>3. ASSUME backups # <<>>, NEW t \in Gnawed(Head(backups)), backups' = <<t>> \o Tail(backups),
               UNCHANGED <<plugin, stages>>
        PROVE  TypeOK'
    <3>1. t \in Tree /\ backups' = <<t>>
      BY <1>0, <2>3, GnawedTree, SingletonSeq DEF Stack
    <3> QED
      BY <1>24, <1>0, <2>3, <3>1, SingletonSeq DEF RemovePart
  <2> QED
    BY <1>24, <2>1, <2>2, <2>3 DEF RemovePart
<1>25. CASE PreflightRefuses
  BY <1>25, <1>0 DEF PreflightRefuses, Finish, Fault
<1>26. CASE RecoverFails
  BY <1>26, <1>0 DEF RecoverFails, Finish, Fault
<1>27. CASE StagingStepFails
  <2>1. local' \in Locals
    BY <1>27, <1>0, LocalsAssigned DEF StagingStepFails, StagingFails, Fault
  <2> QED
    BY <1>27, <1>0, <2>1 DEF StagingStepFails, StagingFails, Fault
<1>28. CASE UndoFails
  <2>1. local' \in Locals
    BY <1>28, <1>0, LocalsAssigned DEF UndoFails, UndoReturns, Fault
  <2> QED
    BY <1>28, <1>0, <2>1 DEF UndoFails, UndoReturns, Fault
<1>29. CASE DropBackupFails
  BY <1>29, <1>0 DEF DropBackupFails, Finish, Fault
<1>30. CASE Crash
  BY <1>30, <1>0 DEF Crash, Finish, Fault
<1>31. CASE OtherEdit
  <2>1. PICK o \in Others :
            market' = [market EXCEPT !.file = TRUE,
                           !.others = IF o \in @ THEN @ \ {o} ELSE @ \cup {o}]
    BY <1>31 DEF OtherEdit
  <2> DEFINE others == IF o \in market.others THEN market.others \ {o}
                                              ELSE market.others \cup {o}
  <2>2. market' = [market EXCEPT !.file = TRUE, !.others = others]
    BY <2>1
  <2>3. others \in SUBSET Others
    BY <1>0 DEF Market
  <2>4. market' \in Market
    BY <1>0, <2>2, <2>3, MarketWritten
  <2> QED
    BY <1>31, <1>0, <2>4 DEF OtherEdit
<1>32. CASE UNCHANGED vars
  BY <1>32, <1>0 DEF vars
<1> QED
  BY <1>1, <1>2, <1>3, <1>4, <1>5, <1>6, <1>7, <1>8, <1>9, <1>10, <1>11,
     <1>12, <1>13, <1>14, <1>15, <1>16, <1>17, <1>18, <1>19, <1>20, <1>21, <1>22,
     <1>23, <1>24, <1>25, <1>26, <1>27, <1>28, <1>29, <1>30, <1>31, <1>32
     DEF Next, Running, Failing

(* What is on disk: remnants, origins, and where prior and new tree are. *)
LEMMA FilesStep == IInv /\ [Next]_vars => FilesInv'
<1> SUFFICES ASSUME IInv, [Next]_vars PROVE FilesInv'
  OBVIOUS
<1>0. TypeOK /\ TypeOK' /\ Stack(backups) /\ Stack(stages)
  BY TypeStep, Stacks DEF IInv, FilesInv
<1>t. /\ local.had \in BOOLEAN /\ local.current \in BOOLEAN /\ local.before \in Tree \cup {NoTree}
      /\ local.replaced \in BOOLEAN /\ local.wrote \in BOOLEAN /\ local.staging \in BOOLEAN
      /\ local.restored \in BOOLEAN /\ local.compensated \in BOOLEAN
      /\ DOMAIN local = {"version", "had", "current", "before", "original", "replaced", "wrote",
              "staging", "restored", "compensated"}
      /\ faults \in Nat /\ edits \in Nat
      /\ market.file \in BOOLEAN /\ DOMAIN market = {"file", "entry", "others"}
      /\ local.original.file \in BOOLEAN /\ DOMAIN local.original = {"file", "entry", "others"}
  BY <1>0, SetupConstants DEF TypeOK, Locals, Market
<1> USE SetupConstants DEF IInv, FilesInv, RunInv, Promises, OneRemnant, OwnTrees,
        RecoverInv, LocalInv, StagingInv, UndoInv, PromisedTreeKept, SuccessIsReal,
        RestoredIsTrue, New, InPlace, Aside, Trees,
        Recovering, Staging, Installing, Undoing, Successes, fsVars, Stack
<1>1. ASSUME NEW v \in Versions, Start(v) PROVE FilesInv'
  BY <1>1, <1>0, <1>t DEF Start
<1>2. CASE RecoverRefuses
  BY <1>2, <1>0, <1>t DEF RecoverRefuses, Finish, Unsafe
<1>3. CASE Recover
  BY <1>3, <1>0, <1>t DEF Recover, Goto, Unsafe
<1>4. CASE RecoverPlugin
  BY <1>4, <1>0, <1>t DEF RecoverPlugin, Goto
<1>5. CASE RecoverSwap
  BY <1>5, <1>0, <1>t DEF RecoverSwap, Goto
<1>6. CASE RecoverStages
  BY <1>6, <1>0, <1>t DEF RecoverStages, Goto
<1>7. CASE LoadRefuses
  BY <1>7, <1>0, <1>t DEF LoadRefuses, Finish
<1>8. CASE Load
  BY <1>8, <1>0, <1>t DEF Load
<1>9. CASE Stage
  <2>1. stages' = <<[by |-> local.version, marked |-> FALSE, whole |-> FALSE]>>
    BY <1>9, SingletonSeq DEF Stage
  <2>2. local.version \in Versions
    BY <1>0 DEF TypeOK, Locals
  <2> QED
    BY <1>9, <1>0, <1>t, <2>1, <2>2, SingletonSeq DEF Stage, Goto
<1>10. CASE Mark
  <2>1. stages[1].by = local.version
    BY <1>10 DEF Mark
  <2>2. Len(stages) = 1
    BY <1>10 DEF Mark
  <2>3. stages # <<>>
    BY <2>2
  <2>4. stages = <<stages[1]>> /\ stages[1] \in Tree /\ Len(stages) = 1 /\ DOMAIN stages = {1}
    BY <1>0, <2>3
  <2>5. stages' = <<[stages[1] EXCEPT !.marked = TRUE, !.whole = TRUE]>>
    BY <1>10, <2>4 DEF Mark
  <2>6. [stages[1] EXCEPT !.marked = TRUE, !.whole = TRUE] = New
    BY <2>1, <2>4, MarkedTree
  <2>7. /\ pc = "mark" /\ pc' = IF local.had THEN "swap_out" ELSE "swap_in"
        /\ UNCHANGED <<local, status, plugin, backups, market, codex, promised, edits>>
    BY <1>10 DEF Mark, Goto
  <2>8. stages' = <<New>> /\ stages'[1] = New /\ DOMAIN stages' = {1} /\ Len(stages') = 1
    BY <2>5, <2>6, SingletonSeq
  <2>9. local.version \in Versions
    BY <1>0 DEF TypeOK, Locals
  <2> QED
    BY <2>7, <1>0, <1>t, <2>8, <2>9
<1>11. CASE SwapOut
  BY <1>11, <1>0, <1>t DEF SwapOut, Goto
<1>12. CASE SwapIn
  <2>1. plugin' = New /\ stages' = <<>> /\ New.by = local.version
    BY <1>12, <1>0, <1>t, SingletonSeq DEF SwapIn
  <2>4. local.version \in Versions
    BY <1>0 DEF TypeOK, Locals
  <2> QED
    BY <1>12, <1>0, <1>t, <2>1, <2>4, SingletonSeq DEF SwapIn
<1>13. CASE Publish
  BY <1>13, <1>0, <1>t DEF Publish
<1>14. CASE Add
  BY <1>14, <1>0, <1>t DEF Add, Goto, AddCommand, Installable, Fault
<1>15. CASE Verify
  BY <1>15, <1>0, <1>t DEF Verify, Goto, Verified, Fault
<1>16. CASE Unadd
  BY <1>16, <1>0, <1>t DEF Unadd, RemoveCommand, Fault
<1>17. CASE Readd
  BY <1>17, <1>0, <1>t DEF Readd, AddCommand, Installable, Fault
<1>18. CASE Verdict
  BY <1>18, <1>0, <1>t DEF Verdict, Finish
<1>19. CASE UndoStage
  BY <1>19, <1>0, <1>t DEF UndoStage, Goto
<1>20. CASE UndoPlugin
  BY <1>20, <1>0, <1>t DEF UndoPlugin, Goto
<1>21. CASE UndoSwap
  BY <1>21, <1>0, <1>t DEF UndoSwap, Goto
<1>22. CASE UndoMarket
  BY <1>22, <1>0, <1>t DEF UndoMarket, UndoReturns
<1>23. CASE DropBackup
  BY <1>23, <1>0, <1>t DEF DropBackup, Finish, Outcome
<1>24. CASE RemovePart
  <2>1. CASE /\ pc \in {"recover_plugin", "undo_plugin"}
             /\ pc = "undo_plugin" => local.replaced
             /\ plugin \in Tree /\ plugin' \in Gnawed(plugin) /\ UNCHANGED <<backups, stages>>
    <3>1. plugin'.by = plugin.by /\ plugin' \in Tree
      BY <2>1, GnawedTree
    <3> QED
      BY <1>24, <1>0, <1>t, <2>1, <3>1 DEF RemovePart
  <2>2. ASSUME pc \in {"recover_stages", "undo_stage"}, stages # <<>>,
               NEW t \in Gnawed(Head(stages)), stages' = <<t>> \o Tail(stages),
               UNCHANGED <<plugin, backups>>
        PROVE  FilesInv'
    <3>1. t \in Tree /\ t.by = stages[1].by /\ stages' = <<t>>
      BY <1>0, <2>2, GnawedTree, SingletonSeq DEF Stack
    <3>2. stages'[1] = t /\ DOMAIN stages' = {1} /\ Len(stages') = 1 /\ stages' # <<>>
      BY <3>1, SingletonSeq
    <3> QED
      BY <1>24, <1>0, <1>t, <2>2, <3>1, <3>2 DEF RemovePart
  <2>3. ASSUME pc = "drop_backup", backups # <<>>,
               NEW t \in Gnawed(Head(backups)), backups' = <<t>> \o Tail(backups),
               UNCHANGED <<plugin, stages>>
        PROVE  FilesInv'
    <3>1. t \in Tree /\ t.by = backups[1].by /\ backups' = <<t>>
      BY <1>0, <2>3, GnawedTree, SingletonSeq DEF Stack
    <3>2. backups'[1] = t /\ DOMAIN backups' = {1} /\ Len(backups') = 1 /\ backups' # <<>>
      BY <3>1, SingletonSeq
    <3> QED
      BY <1>24, <1>0, <1>t, <2>3, <3>1, <3>2 DEF RemovePart
  <2> QED
    BY <1>24, <1>0, <2>1, <2>2, <2>3 DEF RemovePart, TypeOK
<1>25. CASE PreflightRefuses
  BY <1>25, <1>0, <1>t DEF PreflightRefuses, Finish, Fault
<1>26. CASE RecoverFails
  BY <1>26, <1>0, <1>t DEF RecoverFails, Finish, Fault
<1>27. CASE StagingStepFails
  BY <1>27, <1>0, <1>t DEF StagingStepFails, StagingFails, Fault
<1>28. CASE UndoFails
  BY <1>28, <1>0, <1>t DEF UndoFails, UndoReturns, Fault
<1>29. CASE DropBackupFails
  BY <1>29, <1>0, <1>t DEF DropBackupFails, Finish, Fault
<1>30. CASE Crash
  BY <1>30, <1>0, <1>t DEF Crash, Finish, Fault
<1>31. CASE OtherEdit
  BY <1>31, <1>0, <1>t DEF OtherEdit
<1>32. CASE UNCHANGED vars
  BY <1>32, <1>0, <1>t DEF vars
<1> QED
  BY <1>1, <1>2, <1>3, <1>4, <1>5, <1>6, <1>7, <1>8, <1>9, <1>10, <1>11,
     <1>12, <1>13, <1>14, <1>15, <1>16, <1>17, <1>18, <1>19, <1>20, <1>21, <1>22,
     <1>23, <1>24, <1>25, <1>26, <1>27, <1>28, <1>29, <1>30, <1>31, <1>32
     DEF Next, Running, Failing

(* What the running setup knows of it. *)
LEMMA LocalsStep == IInv /\ [Next]_vars => RunInv'
<1> SUFFICES ASSUME IInv, [Next]_vars PROVE RunInv'
  OBVIOUS
<1>0. TypeOK /\ TypeOK' /\ Stack(backups) /\ Stack(stages)
  BY TypeStep, Stacks DEF IInv, FilesInv
<1>t. /\ local.had \in BOOLEAN /\ local.current \in BOOLEAN /\ local.before \in Tree \cup {NoTree}
      /\ local.replaced \in BOOLEAN /\ local.wrote \in BOOLEAN /\ local.staging \in BOOLEAN
      /\ local.restored \in BOOLEAN /\ local.compensated \in BOOLEAN
      /\ DOMAIN local = {"version", "had", "current", "before", "original", "replaced", "wrote",
              "staging", "restored", "compensated"}
      /\ faults \in Nat /\ edits \in Nat
      /\ market.file \in BOOLEAN /\ DOMAIN market = {"file", "entry", "others"}
      /\ local.original.file \in BOOLEAN /\ DOMAIN local.original = {"file", "entry", "others"}
  BY <1>0, SetupConstants DEF TypeOK, Locals, Market
<1> USE SetupConstants DEF IInv, FilesInv, RunInv, Promises, OneRemnant, OwnTrees,
        RecoverInv, LocalInv, StagingInv, UndoInv, PromisedTreeKept, SuccessIsReal,
        RestoredIsTrue, New, InPlace, Aside, Trees,
        Recovering, Staging, Installing, Undoing, Successes, fsVars, Stack
<1>1. ASSUME NEW v \in Versions, Start(v) PROVE RunInv'
  BY <1>1, <1>0, <1>t DEF Start
<1>2. CASE RecoverRefuses
  BY <1>2, <1>0, <1>t DEF RecoverRefuses, Finish, Unsafe
<1>3. CASE Recover
  BY <1>3, <1>0, <1>t DEF Recover, Goto, Unsafe
<1>4. CASE RecoverPlugin
  BY <1>4, <1>0, <1>t DEF RecoverPlugin, Goto
<1>5. CASE RecoverSwap
  BY <1>5, <1>0, <1>t DEF RecoverSwap, Goto
<1>6. CASE RecoverStages
  BY <1>6, <1>0, <1>t DEF RecoverStages, Goto
<1>7. CASE LoadRefuses
  BY <1>7, <1>0, <1>t DEF LoadRefuses, Finish
<1>8. CASE Load
  BY <1>8, <1>0, <1>t DEF Load
<1>9. CASE Stage
  BY <1>9, <1>0, <1>t DEF Stage, Goto
<1>10. CASE Mark
  BY <1>10, <1>0, <1>t DEF Mark, Goto
<1>11. CASE SwapOut
  BY <1>11, <1>0, <1>t DEF SwapOut, Goto
<1>12. CASE SwapIn
  BY <1>12, <1>0, <1>t DEF SwapIn
<1>13. CASE Publish
  BY <1>13, <1>0, <1>t DEF Publish
<1>14. CASE Add
  BY <1>14, <1>0, <1>t DEF Add, Goto, AddCommand, Installable, Fault
<1>15. CASE Verify
  BY <1>15, <1>0, <1>t DEF Verify, Goto, Verified, Fault
<1>16. CASE Unadd
  BY <1>16, <1>0, <1>t DEF Unadd, RemoveCommand, Fault
<1>17. CASE Readd
  BY <1>17, <1>0, <1>t DEF Readd, AddCommand, Installable, Fault
<1>18. CASE Verdict
  BY <1>18, <1>0, <1>t DEF Verdict, Finish
<1>19. CASE UndoStage
  BY <1>19, <1>0, <1>t DEF UndoStage, Goto
<1>20. CASE UndoPlugin
  BY <1>20, <1>0, <1>t DEF UndoPlugin, Goto
<1>21. CASE UndoSwap
  BY <1>21, <1>0, <1>t DEF UndoSwap, Goto
<1>22. CASE UndoMarket
  BY <1>22, <1>0, <1>t DEF UndoMarket, UndoReturns
<1>23. CASE DropBackup
  BY <1>23, <1>0, <1>t DEF DropBackup, Finish, Outcome
<1>24. CASE RemovePart
  <2>1. CASE /\ pc \in {"recover_plugin", "undo_plugin"}
             /\ pc = "undo_plugin" => local.replaced
             /\ plugin \in Tree /\ plugin' \in Gnawed(plugin) /\ UNCHANGED <<backups, stages>>
    <3>1. plugin'.by = plugin.by /\ plugin' \in Tree
      BY <2>1, GnawedTree
    <3> QED
      BY <1>24, <1>0, <1>t, <2>1, <3>1 DEF RemovePart
  <2>2. ASSUME pc \in {"recover_stages", "undo_stage"}, stages # <<>>,
               NEW t \in Gnawed(Head(stages)), stages' = <<t>> \o Tail(stages),
               UNCHANGED <<plugin, backups>>
        PROVE  RunInv'
    <3>1. t \in Tree /\ t.by = stages[1].by /\ stages' = <<t>>
      BY <1>0, <2>2, GnawedTree, SingletonSeq DEF Stack
    <3>2. stages'[1] = t /\ DOMAIN stages' = {1} /\ Len(stages') = 1 /\ stages' # <<>>
      BY <3>1, SingletonSeq
    <3> QED
      BY <1>24, <1>0, <1>t, <2>2, <3>1, <3>2 DEF RemovePart
  <2>3. ASSUME pc = "drop_backup", backups # <<>>,
               NEW t \in Gnawed(Head(backups)), backups' = <<t>> \o Tail(backups),
               UNCHANGED <<plugin, stages>>
        PROVE  RunInv'
    <3>1. t \in Tree /\ t.by = backups[1].by /\ backups' = <<t>>
      BY <1>0, <2>3, GnawedTree, SingletonSeq DEF Stack
    <3>2. backups'[1] = t /\ DOMAIN backups' = {1} /\ Len(backups') = 1 /\ backups' # <<>>
      BY <3>1, SingletonSeq
    <3> QED
      BY <1>24, <1>0, <1>t, <2>3, <3>1, <3>2 DEF RemovePart
  <2> QED
    BY <1>24, <1>0, <2>1, <2>2, <2>3 DEF RemovePart, TypeOK
<1>25. CASE PreflightRefuses
  BY <1>25, <1>0, <1>t DEF PreflightRefuses, Finish, Fault
<1>26. CASE RecoverFails
  BY <1>26, <1>0, <1>t DEF RecoverFails, Finish, Fault
<1>27. CASE StagingStepFails
  BY <1>27, <1>0, <1>t DEF StagingStepFails, StagingFails, Fault
<1>28. CASE UndoFails
  BY <1>28, <1>0, <1>t DEF UndoFails, UndoReturns, Fault
<1>29. CASE DropBackupFails
  BY <1>29, <1>0, <1>t DEF DropBackupFails, Finish, Fault
<1>30. CASE Crash
  BY <1>30, <1>0, <1>t DEF Crash, Finish, Fault
<1>31. CASE OtherEdit
  BY <1>31, <1>0, <1>t DEF OtherEdit
<1>32. CASE UNCHANGED vars
  BY <1>32, <1>0, <1>t DEF vars
<1> QED
  BY <1>1, <1>2, <1>3, <1>4, <1>5, <1>6, <1>7, <1>8, <1>9, <1>10, <1>11,
     <1>12, <1>13, <1>14, <1>15, <1>16, <1>17, <1>18, <1>19, <1>20, <1>21, <1>22,
     <1>23, <1>24, <1>25, <1>26, <1>27, <1>28, <1>29, <1>30, <1>31, <1>32
     DEF Next, Running, Failing

(* What setup promises and reports. *)
LEMMA PromisesStep == IInv /\ [Next]_vars => Promises'
<1> SUFFICES ASSUME IInv, [Next]_vars PROVE Promises'
  OBVIOUS
<1>0. TypeOK /\ TypeOK' /\ Stack(backups) /\ Stack(stages)
  BY TypeStep, Stacks DEF IInv, FilesInv
<1>t. /\ local.had \in BOOLEAN /\ local.current \in BOOLEAN /\ local.before \in Tree \cup {NoTree}
      /\ local.replaced \in BOOLEAN /\ local.wrote \in BOOLEAN /\ local.staging \in BOOLEAN
      /\ local.restored \in BOOLEAN /\ local.compensated \in BOOLEAN
      /\ DOMAIN local = {"version", "had", "current", "before", "original", "replaced", "wrote",
              "staging", "restored", "compensated"}
      /\ faults \in Nat /\ edits \in Nat
      /\ market.file \in BOOLEAN /\ DOMAIN market = {"file", "entry", "others"}
      /\ local.original.file \in BOOLEAN /\ DOMAIN local.original = {"file", "entry", "others"}
  BY <1>0, SetupConstants DEF TypeOK, Locals, Market
<1> USE SetupConstants DEF IInv, FilesInv, RunInv, Promises, OneRemnant, OwnTrees,
        RecoverInv, LocalInv, StagingInv, UndoInv, PromisedTreeKept, SuccessIsReal,
        RestoredIsTrue, New, InPlace, Aside, Trees,
        Recovering, Staging, Installing, Undoing, Successes, fsVars, Stack
<1>1. ASSUME NEW v \in Versions, Start(v) PROVE Promises'
  BY <1>1, <1>0, <1>t DEF Start
<1>2. CASE RecoverRefuses
  BY <1>2, <1>0, <1>t DEF RecoverRefuses, Finish, Unsafe
<1>3. CASE Recover
  BY <1>3, <1>0, <1>t DEF Recover, Goto, Unsafe
<1>4. CASE RecoverPlugin
  BY <1>4, <1>0, <1>t DEF RecoverPlugin, Goto
<1>5. CASE RecoverSwap
  BY <1>5, <1>0, <1>t DEF RecoverSwap, Goto
<1>6. CASE RecoverStages
  BY <1>6, <1>0, <1>t DEF RecoverStages, Goto
<1>7. CASE LoadRefuses
  BY <1>7, <1>0, <1>t DEF LoadRefuses, Finish
<1>8. CASE Load
  BY <1>8, <1>0, <1>t DEF Load
<1>9. CASE Stage
  BY <1>9, <1>0, <1>t DEF Stage, Goto
<1>10. CASE Mark
  BY <1>10, <1>0, <1>t DEF Mark, Goto
<1>11. CASE SwapOut
  BY <1>11, <1>0, <1>t DEF SwapOut, Goto
<1>12. CASE SwapIn
  BY <1>12, <1>0, <1>t DEF SwapIn
<1>13. CASE Publish
  BY <1>13, <1>0, <1>t DEF Publish
<1>14. CASE Add
  BY <1>14, <1>0, <1>t DEF Add, Goto, AddCommand, Installable, Fault
<1>15. CASE Verify
  BY <1>15, <1>0, <1>t DEF Verify, Goto, Verified, Fault
<1>16. CASE Unadd
  BY <1>16, <1>0, <1>t DEF Unadd, RemoveCommand, Fault
<1>17. CASE Readd
  BY <1>17, <1>0, <1>t DEF Readd, AddCommand, Installable, Fault
<1>18. CASE Verdict
  BY <1>18, <1>0, <1>t DEF Verdict, Finish
<1>19. CASE UndoStage
  BY <1>19, <1>0, <1>t DEF UndoStage, Goto
<1>20. CASE UndoPlugin
  BY <1>20, <1>0, <1>t DEF UndoPlugin, Goto
<1>21. CASE UndoSwap
  BY <1>21, <1>0, <1>t DEF UndoSwap, Goto
<1>22. CASE UndoMarket
  BY <1>22, <1>0, <1>t DEF UndoMarket, UndoReturns
<1>23. CASE DropBackup
  BY <1>23, <1>0, <1>t DEF DropBackup, Finish, Outcome
<1>24. CASE RemovePart
  BY <1>24, <1>0, <1>t DEF RemovePart
<1>25. CASE PreflightRefuses
  BY <1>25, <1>0, <1>t DEF PreflightRefuses, Finish, Fault
<1>26. CASE RecoverFails
  BY <1>26, <1>0, <1>t DEF RecoverFails, Finish, Fault
<1>27. CASE StagingStepFails
  BY <1>27, <1>0, <1>t DEF StagingStepFails, StagingFails, Fault
<1>28. CASE UndoFails
  BY <1>28, <1>0, <1>t DEF UndoFails, UndoReturns, Fault
<1>29. CASE DropBackupFails
  BY <1>29, <1>0, <1>t DEF DropBackupFails, Finish, Fault
<1>30. CASE Crash
  BY <1>30, <1>0, <1>t DEF Crash, Finish, Fault
<1>31. CASE OtherEdit
  BY <1>31, <1>0, <1>t DEF OtherEdit
<1>32. CASE UNCHANGED vars
  BY <1>32, <1>0, <1>t DEF vars
<1> QED
  BY <1>1, <1>2, <1>3, <1>4, <1>5, <1>6, <1>7, <1>8, <1>9, <1>10, <1>11,
     <1>12, <1>13, <1>14, <1>15, <1>16, <1>17, <1>18, <1>19, <1>20, <1>21, <1>22,
     <1>23, <1>24, <1>25, <1>26, <1>27, <1>28, <1>29, <1>30, <1>31, <1>32
     DEF Next, Running, Failing

(* A home as the first setup finds it. *)
LEMMA FirstPlugin ==
    ASSUME Init
    PROVE  /\ plugin \in Tree \cup {NoTree}
           /\ plugin # NoTree /\ plugin.marked => plugin.by # Foreign
<1>1. CASE plugin = NoTree
  BY <1>1
<1>2. CASE plugin = [by |-> Foreign, marked |-> FALSE, whole |-> TRUE]
  BY <1>2 DEF Tree
<1>3. CASE plugin \in [by: Versions, marked: {TRUE}, whole: {TRUE}]
  BY <1>3, SetupConstants DEF Tree
<1> QED
  BY <1>1, <1>2, <1>3 DEF Init

(* Nothing has been promised or damaged at the start. *)
LEMMA InitIInv == Init => IInv
<1> SUFFICES ASSUME Init PROVE IInv
  OBVIOUS
<1>1. TypeOK
  <2>1. backups \in Seq(Tree) /\ stages \in Seq(Tree)
    BY SingletonSeq DEF Init
  <2>2. plugin \in Tree \cup {NoTree}
    BY FirstPlugin
  <2>3. codex \in Tree \cup {NoTree} /\ promised \in Tree \cup {NoTree}
    BY <2>2 DEF Init
  <2>4. market \in Market
    BY DEF Init
  <2>5. NoMarket \in Market
    BY DEF NoMarket, Market
  <2>6. local \in Locals
    BY <2>5 DEF Init, Locals
  <2> QED
    BY <2>1, <2>2, <2>3, <2>4, <2>6, SetupConstants DEF Init, TypeOK, Steps
<1>2. OneRemnant /\ OwnTrees
  <2>1. Len(backups) = 0 /\ Len(stages) = 0
    BY EmptySeq DEF Init
  <2>2. DOMAIN backups = {} /\ DOMAIN stages = {}
    BY DEF Init
  <2>3. plugin # NoTree /\ plugin.marked => plugin.by # Foreign
    BY FirstPlugin
  <2>4. local.before = NoTree
    BY DEF Init
  <2> QED
    BY <2>1, <2>2, <2>3, <2>4 DEF OneRemnant, OwnTrees
<1>3. RecoverInv /\ LocalInv /\ StagingInv /\ UndoInv
  BY DEF Init, RecoverInv, LocalInv, StagingInv, UndoInv, Recovering, Staging, Installing, Undoing
<1>4. PromisedTreeKept /\ SuccessIsReal /\ RestoredIsTrue
  BY DEF Init, PromisedTreeKept, SuccessIsReal, RestoredIsTrue, Trees, Successes
<1> QED
  BY <1>1, <1>2, <1>3, <1>4 DEF IInv, FilesInv, RunInv, Promises

----------------------------------------------------------------------------
(* The theorems.                                                           *)

(* The invariant that carries all of them, for any number of runs.         *)
THEOREM SetupInvariant == Spec => []IInv
<1>1. IInv /\ [Next]_vars => IInv'
  BY TypeStep, FilesStep, LocalsStep, PromisesStep DEF IInv
<1> QED
  BY <1>1, InitIInv, PTL DEF Spec

(* The state of the installation and of a running setup has its type. *)
THEOREM SetupTypes == Spec => []TypeOK
<1>1. IInv => TypeOK
  BY DEF IInv
<1> QED
  BY <1>1, SetupInvariant, PTL

(* However runs fail, are killed and are repaired, at most one backup and one *)
(* stage exist: recovery can always tell which backup is the installation.    *)
THEOREM SetupOneRemnant == Spec => []OneRemnant
<1>1. IInv => OneRemnant
  BY DEF IInv, FilesInv, Promises
<1> QED
  BY <1>1, SetupInvariant, PTL

(* The tree that has to survive is at the plugin path or in the backup,    *)
(* between any two steps of any run.                                       *)
THEOREM SetupKeepsPromisedTree == Spec => []PromisedTreeKept
<1>1. IInv => PromisedTreeKept
  BY DEF IInv, FilesInv, Promises
<1> QED
  BY <1>1, SetupInvariant, PTL

(* installed, updated and already_current are only reported of a whole tree *)
(* that is published and that Codex lists, with no remnant left.            *)
THEOREM SetupSuccessIsReal == Spec => []SuccessIsReal
<1>1. IInv => SuccessIsReal
  BY DEF IInv, FilesInv, Promises
<1> QED
  BY <1>1, SetupInvariant, PTL

(* A run that says it restored the prior files has put them back.          *)
THEOREM SetupRestoredIsTrue == Spec => []RestoredIsTrue
<1>1. IInv => RestoredIsTrue
  BY DEF IInv, FilesInv, Promises
<1> QED
  BY <1>1, SetupInvariant, PTL

(* No step of any run moves, writes or removes a tree at the plugin path   *)
(* that MacWise did not make.                                              *)
THEOREM SetupLeavesForeignTrees == Spec => ForeignTreeUntouched
<1> DEFINE Kept == plugin # NoTree /\ plugin.by = Foreign => plugin' = plugin
<1>1. ASSUME IInv, Next PROVE Kept
  <2> USE <1>1 DEF IInv, FilesInv, RunInv, fsVars
  <2>1. \/ UNCHANGED plugin
        \/ RecoverPlugin \/ RecoverSwap \/ SwapOut \/ SwapIn \/ UndoPlugin \/ UndoSwap
        \/ RemovePart
    BY <1>1 DEF Next, Running, Failing, Start, RecoverRefuses, Recover, RecoverStages,
          LoadRefuses, Load, Stage, Mark, Publish, Add, Verify, Unadd, Readd, Verdict, UndoStage,
          UndoMarket, DropBackup, PreflightRefuses, RecoverFails, StagingStepFails, StagingFails,
          UndoFails, DropBackupFails, Crash, OtherEdit
  <2>2. CASE RecoverPlugin \/ RecoverSwap
    BY <2>2 DEF RecoverPlugin, RecoverSwap, RecoverInv
  <2>3. CASE SwapOut
    BY <2>3 DEF SwapOut, StagingInv, InPlace, OwnTrees
  <2>4. CASE SwapIn
    BY <2>4 DEF SwapIn, StagingInv
  <2>5. CASE UndoPlugin
    BY <2>5 DEF UndoPlugin, UndoInv
  <2>6. CASE UndoSwap
    BY <2>6 DEF UndoSwap, UndoInv, InPlace
  <2>7. CASE RemovePart
    BY <2>7 DEF RemovePart, RecoverInv, UndoInv
  <2> QED
    BY <2>1, <2>2, <2>3, <2>4, <2>5, <2>6, <2>7
<1>2. ASSUME UNCHANGED vars PROVE Kept
  BY <1>2 DEF vars
<1> QED
  BY <1>1, <1>2, SetupInvariant, PTL DEF Spec, ForeignTreeUntouched
=============================================================================
