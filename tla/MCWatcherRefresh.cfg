SPECIFICATION FairSpec

CONSTANTS
    f1 = f1
    f2 = f2
    v1 = v1
    v2 = v2
    Absent = Absent
    Folder = Folder
    Files <- MCFiles
    Below <- MCOneBelow
    Contents <- MCContents
    QueueCapacity = 1
    BatchLimit = 1
    MaxEdits = 2
    MaxFaults = 2

PROPERTY FailuresAreCounted
PROPERTY EventuallyFresh
PROPERTY KeepsPromise
INVARIANT TypeOK
INVARIANT BlindIsKnown
INVARIANT NoLostUpdate
INVARIANT ReadIsCurrent
