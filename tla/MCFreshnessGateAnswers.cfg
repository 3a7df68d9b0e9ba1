SPECIFICATION GateFairSpec

CONSTANTS
    f1 = f1
    f2 = f2
    v1 = v1
    v2 = v2
    Absent = Absent
    Folder = Folder
    Files <- MCOneFile
    Below <- MCOneFile
    Contents <- MCTwoContents
    QueueCapacity = 1
    BatchLimit = 1
    ReconcileLimit = 1
    MaxEdits = 1
    MaxFaults = 2

PROPERTY AnswersAreHonest
PROPERTY FailuresAreRecovered
