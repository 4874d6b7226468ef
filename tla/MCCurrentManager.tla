--------------------------- MODULE MCCurrentManager ---------------------------
(***************************************************************************)
(* Instances of CurrentManager for TLC: two clusters, contents that build  *)
(* and one that does not, a few interchangeable calls.                     *)
(***************************************************************************)
EXTENDS CurrentManager, TLC

CONSTANTS r1, r2, r3, r4, a, b, good, broken

MCTwoCalls   == {r1, r2}
MCThreeCalls == {r1, r2, r3}
MCFourCalls  == {r1, r2, r3, r4}
MCNames      == {a, b}
MCCfgs       == {good, broken}
MCGood       == {good}

Symmetry == Permutations(Requests)
=============================================================================
