------------------------------ MODULE MCDebouncer ------------------------------
EXTENDS Debouncer

CONSTANTS p1, p2, p3

MCPaths == {p1, p2, p3}
MCSymmetry == Permutations(MCPaths)
=============================================================================
