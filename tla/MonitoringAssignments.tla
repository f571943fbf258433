----------------------- MODULE MonitoringAssignments -----------------------
(***************************************************************************)
(* What is scraped: the monitoring assignments that the control plane      *)
(* makes of dataplanes, and the target groups that kuma-prometheus-sd      *)
(* makes of assignments for Prometheus.                                    *)
(*                                                                         *)
(* A mesh is [name, prometheus], a dataplane [mesh, name, ip, prometheus,  *)
(* tags, extensions]; prometheus is << >> or <<port, path>>, extensions    *)
(* are the parts of the name on Kubernetes.  Tags map keys to sets of      *)
(* values, which are numbers, ordered as the strings are.  A key is [stem, *)
(* char, s]: a word with one special character in it and s letters s at    *)
(* its end; SanitizeLabelName turns every special character into the same. *)
(* Stems are numbers too, in the order of the words.                       *)
(***************************************************************************)
EXTENDS Integers, Sequences, FiniteSetsExt

dataplaneStem == 1
instanceStem  == 2
jobStem       == 3
meshStem      == 4
serviceStem   == 5
schemeStem    == 8
pathStem      == 9
mandatoryStems == {schemeStem, pathStem, jobStem, instanceStem, meshStem, dataplaneStem}

SanitizeLabelName(key) == <<key.stem, key.s>>

\* Mutant: keys in the order in which the map happens to be iterated.
KeyBeforeReversed(a, b) == a.s > b.s

\* Keys are sorted as strings: the special character comes before the end.
KeyBefore(a, b) ==
    \/ a.stem < b.stem
    \/ a.stem = b.stem /\ a.char < b.char
    \/ a.stem = b.stem /\ a.char = b.char /\ a.s < b.s

Plural(key) == [key EXCEPT !.s = @ + 1]

\* The label values: one value, or the list of all.
oneValue(values)   == [kind |-> "one", of |-> IF values = {} THEN {} ELSE {Min(values)}]
multiValue(values) == [kind |-> "multi", of |-> values]
fixedValue(value)  == [kind |-> "one", of |-> {value}]

GetPrometheusEndpoint(dataplane, mesh) ==
    IF mesh.name # dataplane.mesh \/ mesh.prometheus = << >> THEN << >>
    ELSE IF dataplane.prometheus = << >> THEN mesh.prometheus
    ELSE <<IF dataplane.prometheus[1] # 0 THEN dataplane.prometheus[1] ELSE mesh.prometheus[1],
           IF dataplane.prometheus[2] # 0 THEN dataplane.prometheus[2] ELSE mesh.prometheus[2]>>

GetIdentifyingService(dataplane) ==
    LET service == [stem |-> serviceStem, char |-> 0, s |-> 0] IN
    IF service \in DOMAIN dataplane.tags THEN Min(dataplane.tags[service]) ELSE 0

\* The labels of the tags, one key after the other: a key sets the label of
\* its name and that of its plural, and the last key that sets a label wins.
tagLabels(tags) ==
    LET Setters(name) == {k \in DOMAIN tags : name \in {SanitizeLabelName(k), SanitizeLabelName(Plural(k))}}
        Winner(keys)  == CHOOSE k \in keys : \A o \in keys \ {k} : KeyBefore(o, k)
        Value(name, k) == IF name = SanitizeLabelName(k) THEN oneValue(tags[k]) ELSE multiValue(tags[k])
    IN  [name \in UNION {{SanitizeLabelName(k), SanitizeLabelName(Plural(k))} : k \in DOMAIN tags} |->
            Value(name, Winner(Setters(name)))]

extensionLabels(extensions) ==
    [name \in {SanitizeLabelName(k) : k \in DOMAIN extensions} |->
        fixedValue(extensions[CHOOSE k \in DOMAIN extensions : SanitizeLabelName(k) = name])]

mandatoryLabels(dataplane, endpoint) ==
    [name \in {<<stem, 0>> : stem \in mandatoryStems} |->
        fixedValue(CASE name[1] = schemeStem -> 1
                     [] name[1] = pathStem   -> endpoint[2]
                     [] name[1] = jobStem    -> GetIdentifyingService(dataplane)
                     [] name[1] = meshStem   -> dataplane.mesh
                     [] name[1] \in {instanceStem, dataplaneStem} -> dataplane.name)]

Over(labels, others) ==
    [name \in DOMAIN labels \cup DOMAIN others |->
        IF name \in DOMAIN labels THEN labels[name] ELSE others[name]]

\* Mandatory labels on top of the parts of the name, on top of the tags.
dataplaneLabels(dataplane, endpoint) ==
    Over(mandatoryLabels(dataplane, endpoint),
         Over(extensionLabels(dataplane.extensions), tagLabels(dataplane.tags)))

addressLabel(dataplane, endpoint) == <<dataplane.ip, endpoint[1]>>

assignmentName(dataplane) == <<dataplane.mesh, dataplane.name>>

\* Generate: an assignment for every dataplane of a mesh that has metrics.
Generate(meshes, dataplanes) ==
    LET scrapable == {p \in dataplanes \X meshes : GetPrometheusEndpoint(p[1], p[2]) # << >>} IN
    {[name   |-> assignmentName(p[1]),
      target |-> addressLabel(p[1], GetPrometheusEndpoint(p[1], p[2])),
      labels |-> dataplaneLabels(p[1], GetPrometheusEndpoint(p[1], p[2]))] : p \in scrapable}
-----------------------------------------------------------------------------
(* kuma-prometheus-sd                                                       *)

subSourceName(source, i) == Append(source, i)

\* A group per target; the address becomes the target, the other labels are
\* sanitized again, which changes nothing: the control plane has done it.
Convert(assignment) ==
    {[source |-> subSourceName(assignment.name, 0), targets |-> {assignment.target},
      labels |-> assignment.labels]}

ConvertAll(assignments) == UNION {Convert(a) : a \in assignments}

buildSourceList(groups) == {g.source : g \in groups}

\* A group that is gone is announced as one without targets.
buildRemovedGroups(old, new) ==
    {[source |-> s, targets |-> {}, labels |-> << >>] : s \in old \ new}

\* What Prometheus makes of an announcement: a group replaces the one of its
\* source.
Announced(known, groups) ==
    {g \in known : g.source \notin buildSourceList(groups)} \cup {g \in groups : g.targets # {}}
=============================================================================
