------------------------------ MODULE MCCleanup ------------------------------
(* Small instances of CleanupExecution.                                    *)
EXTENDS CleanupProperties, TLC

Symmetry == Permutations(Command)

\* Plans.
AppThenFormula == <<"trash", "package">>
TwoFormulae == <<"package", "package">>
ThreeItems == <<"service", "package", "trash">>
FormulaOfFirst == <<2, 0, 0>>
OneFormula == <<"package">>
NoOwners == <<0, 0>>
NoOwner == <<0>>

OneRevisionOfOne == <<1>>
OneRevisionOfTwo == <<2>>
OneRevisionOfThree == <<3>>
TwoRevisions == <<1, 2>>

\* What may go wrong, and how often.
Allow(crashes, sights, commands, drifts, orphans) ==
    [crashes |-> crashes, sights |-> sights, commands |-> commands,
     drifts |-> drifts, orphans |-> orphans]
OneOfAll == Allow(1, 1, 1, 1, 1)
OneCrash == Allow(1, 0, 0, 0, 0)
TwoCommands == Allow(0, 0, 2, 0, 0)
OneDrift == Allow(0, 0, 0, 1, 0)
TwoCrashes == Allow(2, 1, 1, 1, 1)
TwoCrashesAtRest == Allow(2, 1, 1, 0, 0)
=============================================================================
