SPECIFICATION FairSpec

CONSTANTS
    a = a
    b = b
    None = None
    Roots <- MCRoots
    Marked <- MCMarked
    Threads <- MCThreads
    Workers <- MCFewerWorkers
    MaxFaults = 1
    MaxScans = 0

PROPERTY StayingIsAnswered
