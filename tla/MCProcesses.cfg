SPECIFICATION MCSpec

CONSTANTS
    h1 = h1
    h2 = h2
    clean = clean
    d1 = d1
    d2 = d2
    c1 = c1
    c2 = c2
    None = None
    Hooks <- MCHooks
    Diffs <- MCDiffs
    Blocking <- MCBlocking
    Commits <- MCCommits
    MaxCrashes = 1
    sa = sa
    sb = sb
    NoServer = NoServer
    Servers <- MCServers
    Extractor <- MCExtractor
    MaxFileChanges = 1
    MaxMishaps = 2

INVARIANT SessionTypeOK
INVARIANT BlocksOnce
INVARIANT FollowsOwnBlock
INVARIANT SideFileHasOneWriter
INVARIANT SwappedRowsAreSeenTo
PROPERTY BaseIsKept
PROPERTY EveryHookEnds
PROPERTY StartsAreNotBlocked
CHECK_DEADLOCK FALSE
