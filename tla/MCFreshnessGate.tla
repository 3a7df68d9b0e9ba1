--------------------------- MODULE MCFreshnessGate ---------------------------
(* FreshnessGate for TLC.                                                   *)
EXTENDS FreshnessGate, TLC

CONSTANTS f1, f2, v1, v2

MCFiles == {f1, f2}
MCOneBelow == {f2}
MCOneFile == {f1}
MCContents == {Absent, v1}
MCTwoContents == {Absent, v1, v2}
MCContentSymmetry == Permutations({v1, v2})
=============================================================================
