\* Clusters and endpoints change under the same names and some are rejected;
\* or clusters come and go and the connection breaks once.
CONSTANTS
    ADS = TRUE
    Plans <- MCPlans
    Rejects <- MCRejects
    NotFound = NotFound
    MaxVersion = 4
SPECIFICATION Spec
CHECK_DEADLOCK FALSE
INVARIANT NoStaleEndpoints
PROPERTIES EventuallyCurrent EventuallyQuiet
