SPECIFICATION Spec
CONSTANTS
    ADS = FALSE
    MaxStreams = 2
    Setups <- MCSetups
INVARIANTS
    TagsArrive
    WaitingHasAll
PROPERTIES
    Converges
