\* Two workers, four requests about one mesh.
CONSTANTS
    Workers = {w1, w2}
    Builtin = {b1, b2}
    Provided = {p1}
    NoBackend = NoBackend
    NotFound = NotFound
    MaxRequests = 4
SPECIFICATION Spec
CHECK_DEADLOCK FALSE
INVARIANTS MeshHasCA KeyMatchesCert
PROPERTIES NeverChangesCA DeletesEverything
SYMMETRY MCSymmetry
