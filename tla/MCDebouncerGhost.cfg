SPECIFICATION Spec

CONSTANTS
    p1 = p1
    p2 = p2
    p3 = p3
    None = None
    Paths <- MCPaths
    MaxEvents = 3

SYMMETRY MCSymmetry

INVARIANT RemovedRowsAreReported
