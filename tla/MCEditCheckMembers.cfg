SPECIFICATION MCCheckSpec

CONSTANTS
    Diffs <- MCDiffs
    NoOwner = NoOwner
    NoBody = NoBody
    FilesLimit = 2
    SymbolsLimit = 3
    MaxCheckFaults = 1

INVARIANT LostMembersAreReported
CHECK_DEADLOCK FALSE
