\* An old and a new stream; node metadata may change; one type is enough.
CONSTANTS
    Streams = {s1, s2}
    Types = {"listeners"}
    Receivers = {}
    Dataplanes = {"dp"}
    Meshes = {"mesh"}
    Policies = {"p1"}
    Metas = {"m1"}
    UUIDs = {v1, v2, v3}
    Items <- MCItems
    NoItems = {}
    EmptyMeta = "empty"
    EmptyVersion = ""
    NotFound = NotFound
    Error = Error
    StoreOutages = FALSE
    None = None
    Generate <- MCGenerate
SPECIFICATION Spec
PROPERTIES EventuallyServes SnapshotSettles WatchdogStops
