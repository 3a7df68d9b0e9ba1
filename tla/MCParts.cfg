SPECIFICATION MCSpec

CONSTANTS
    d = d
    e = e
    c = c
    i1 = i1
    i2 = i2
    i3 = i3
    None = None
    NoId = NoId
    Paths <- MCPaths
    Parent <- MCParent
    Name <- MCName
    Ids <- MCIds
    MaxEvents = 3
    MaxChanges = 3
    MaxTroubles = 1
    l1 = l1
    l2 = l2
    l3 = l3
    Versions <- MCVersions
    Launches <- MCLaunches
    Version <- MCVersion
    DownloadAttempts = 2
    RetainedOldVersions = 1
    MaxLaunchFaults = 1
    s0 = s0
    s1 = s1
    s2 = s2
    s3 = s3
    s4 = s4
    NoSymbol = NoSymbol
    Symbols <- MCSymbols
    FileOf <- MCFileOf
    Graphs <- MCGraphs
    WalkRequests <- MCRequests
    MaxBlastDepth = 3
    BlastGraphs <- MCBlastGraphs
    Questions <- MCQuestions
    RowCeiling = 3
    MaxScopes = 2
    Diffs <- MCDiffs
    NoOwner = NoOwner
    NoBody = NoBody
    FilesLimit = 2
    SymbolsLimit = 3
    MaxCheckFaults = 1
    NamedRows <- MCNamedRows
    JudgeChunk = 1
    OtherCap = 2

SYMMETRY MCSymmetry
INVARIANT FoldersAreWatched
INVARIANT DebouncerTypeOK
INVARIANT RenameLeads
INVARIANT PresentIsReported
INVARIANT OtherVersionsDoNotDisturb
INVARIANT NothingIsLeft
INVARIANT RowsAreShortestPaths
INVARIANT TestsAreListed
INVARIANT FoldedOnlyConstruct
INVARIANT OpenEndsAreUncalled
INVARIANT JoinedRowsAreNearest
INVARIANT PastIsUnlisted
INVARIANT LostNamesAreReported
INVARIANT AdditionsAreNoChange
INVARIANT TimeIsTold
CHECK_DEADLOCK FALSE
