CONSTANTS
    LowerCase <- MCLowerCase
    WithNewline = {"bad\n", "%n"}
    Backends <- MCBackends
    Addresses = {"logs1", "logs2"}
    Variables <- MCVariables
    Traffic <- MCTraffic
    MaxStreams = 2
    MaxEntries = 2
SPECIFICATION Spec
INVARIANTS RecordsInOrder RecordsFaithful
