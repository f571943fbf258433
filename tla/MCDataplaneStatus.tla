------------------------- MODULE MCDataplaneStatus -------------------------
(* A small instance of DataplaneStatus.                                    *)
EXTENDS DataplaneStatus, TLC

CONSTANTS s1, s2

\* The sinks of two streams race for one insight: both streams have traffic;
\* one has, and the insight may be deleted; one has, and the store may fail.
MCPlans == {[counts |-> s1 :> 2 @@ s2 :> 1, deletes |-> 0, outages |-> FALSE],
            [counts |-> s1 :> 2 @@ s2 :> 0, deletes |-> 1, outages |-> FALSE],
            [counts |-> s1 :> 2 @@ s2 :> 0, deletes |-> 0, outages |-> TRUE]}
=============================================================================
