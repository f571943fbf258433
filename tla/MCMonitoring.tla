---------------------------- MODULE MCMonitoring ----------------------------
(***************************************************************************)
(* Two agents, two meshes and two dataplanes.                              *)
(***************************************************************************)
EXTENDS Monitoring

Key(stem, char, s) == [stem |-> stem, char |-> char, s |-> s]
serviceTag  == Key(serviceStem, 0, 0)
servicesTag == Key(serviceStem, 0, 1)
appDash     == Key(0, 1, 1)    \* as "my-apps" ...
appDot      == Key(0, 2, 0)    \* ... and "my.app"

Mesh(name, prometheus) == [name |-> name, prometheus |-> prometheus]
Dataplane(mesh, name, prometheus, tags, extensions) ==
    [mesh |-> mesh, name |-> name, ip |-> 10 + name, prometheus |-> prometheus,
     tags |-> tags, extensions |-> extensions]

m1 == Mesh(1, <<5670, 1>>)
m2 == Mesh(2, <<5680, 2>>)
d1 == Dataplane(1, 1, << >>, [k \in {serviceTag, servicesTag} |-> IF k = serviceTag THEN {1} ELSE {7}], << >>)
\* d1 with other inbounds, and a port of its own.
d1changed == Dataplane(1, 1, <<1234, 0>>, [k \in {serviceTag, appDash, appDot} |-> {2, 3}],
                       [k \in {Key(6, 0, 0)} |-> 4])
d2 == Dataplane(2, 2, << >>, [k \in {serviceTag} |-> {5}], << >>)

World(meshes, dataplanes) == [meshes |-> meshes, dataplanes |-> dataplanes]
smallWorlds == <<World({m1}, {d1}), World({m1}, {d1changed})>>
largeWorlds == <<World({m1, m2}, {d1, d2}), World({m1, Mesh(2, << >>)}, {d1changed})>>

\* An agent that reconnects while a dataplane changes, two agents that share
\* the snapshot, and one whose control plane fails to read a changing store.
MCSetups ==
    {[agents |-> {"a"}, worlds |-> smallWorlds, breaks |-> 1, changes |-> 1, failures |-> 0],
     [agents |-> {"a", "b"}, worlds |-> smallWorlds, breaks |-> 0, changes |-> 0, failures |-> 0],
     [agents |-> {"a"}, worlds |-> largeWorlds, breaks |-> 0, changes |-> 2, failures |-> 1]}
=============================================================================
