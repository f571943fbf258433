\* Two streams of one dataplane, its configuration handed to one receiver, and
\* a store that fails now and then.
CONSTANTS
    Streams = {s1, s2}
    Types = {"listeners"}
    Receivers = {envoy}
    Dataplanes = {"dp"}
    Meshes = {"badMesh"}
    Policies = {"p1", "badPolicy"}
    Metas = {"m1"}
    UUIDs = {v1, v2, v3, v4}
    Items <- MCItems
    NoItems = {}
    EmptyMeta = "empty"
    EmptyVersion = ""
    NotFound = NotFound
    Error = Error
    StoreOutages = TRUE
    None = None
    Generate <- MCGenerate
SPECIFICATION Spec
INVARIANT VersionsConsistent
PROPERTY ImplementsVersionedSnapshot
SYMMETRY MCSymmetry
