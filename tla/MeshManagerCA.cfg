\* One worker whose deletion of a mesh fails half way.
CONSTANTS
    Workers = {w1}
    Builtin = {b1}
    Provided = {}
    NoBackend = NoBackend
    NotFound = NotFound
    MaxRequests = 4
SPECIFICATION Spec
CHECK_DEADLOCK FALSE
INVARIANT CAIsAvailable
