---------------------------- MODULE MCServerPrepare ----------------------------
EXTENDS ServerPrepare

CONSTANTS a, b

MCRoots   == {a, b}
MCMarked  == {a}
MCThreads == 1..3
MCWorkers == 1..4
MCFewerWorkers == 1..3
=============================================================================
