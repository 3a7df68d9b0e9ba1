SPECIFICATION Spec

CONSTANTS
    h1 = h1
    h2 = h2
    h3 = h3
    clean = clean
    d1 = d1
    d2 = d2
    c1 = c1
    c2 = c2
    None = None
    Hooks <- MCHooks
    Diffs <- MCTwoDiffs
    Blocking <- MCTwoBlocking
    Commits <- MCCommits
    MaxCrashes = 1

INVARIANT BlocksOnce
