\* Two streams of a dataplane whose sinks race for one insight, which may be
\* deleted under them, and calls of the store that fail.
CONSTANTS
    s1 = s1
    s2 = s2
    Streams = {s1, s2}
    NotFound = NotFound
    Plans <- MCPlans
SPECIFICATION Spec
CHECK_DEADLOCK FALSE
INVARIANT NeverAhead
PROPERTIES NeverRegresses EventuallyRecorded SinkStops
