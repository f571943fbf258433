---------------------------- MODULE MCXdsServer ----------------------------
(* Small instances of XdsServer.                                           *)
EXTENDS XdsServer

C(clusters, endpoints) == [t \in Types |-> IF t = "clusters" THEN clusters ELSE endpoints]

\* Clusters come and go, endpoints move and the connection may break.
MCConfigs == {C(NoItems, NoItems),
              C([a |-> "c1"], [a |-> "e1"]),
              C([a |-> "c2"], [a |-> "e2"]),
              C([a |-> "c1", b |-> "c1"], [a |-> "e2", b |-> "e1"])}

\* The dataplane is deleted and created; its clusters are updated in place.
MCFixedNames == {C(NoItems, NoItems),
                 C([a |-> "c1"], [a |-> "e1"]),
                 C([a |-> "c2"], [a |-> "e1"]),
                 C([a |-> "c1"], [a |-> "e2"]),
                 C([a |-> "bad"], [a |-> "e2"])}

MCPlans == {[configs |-> MCFixedNames, reconnects |-> 0, fixed |-> TRUE],
            [configs |-> MCConfigs, reconnects |-> 1, fixed |-> FALSE]}

MCRejects(t, items) == "bad" \in Range(items)
=============================================================================
