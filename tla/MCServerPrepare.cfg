SPECIFICATION Spec

CONSTANTS
    a = a
    b = b
    None = None
    Roots <- MCRoots
    Marked <- MCMarked
    Threads <- MCThreads
    Workers <- MCWorkers
    MaxFaults = 1
    MaxScans = 1

INVARIANT PrepareTypeOK
INVARIANT OneWorkerPerRoot
INVARIANT RebuildsAlone
INVARIANT OnePreparePerRoot
INVARIANT AnswersAreWatched
INVARIANT NoSecondRebuild
