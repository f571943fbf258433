-------------------------- MODULE MCDataplaneSync --------------------------
(* Small instances of DataplaneSync.                                       *)
EXTENDS DataplaneSync, TLC

\* Every input shows in the contents of some type: the dataplane, the mesh and
\* the policies in all of them, the metadata only in the listeners.  The
\* generator fails for "badMesh" and "badPolicy" together.  A resource that
\* was never read is not something the generator can work with.
MCGenerate(d, m, p, n) ==
    CASE NotFound \in {d, m, p}                -> [t \in Types |-> NotFound]
      [] m = "badMesh" /\ p = "badPolicy"      -> Error
      [] OTHER -> [t \in Types |-> IF t = "listeners" THEN {<<d, m, p, n>>} ELSE {<<d, m, p>>}]

MCItems == {{}}
             \cup {{x} : x \in Dataplanes \X Meshes \X Policies \X (Metas \cup {EmptyMeta})}
             \cup {{x} : x \in Dataplanes \X Meshes \X Policies}

\* Streams are told apart by nothing, and the version a tick draws is any
\* one that nobody holds.
MCSymmetry == Permutations(Streams) \cup Permutations(UUIDs)
=============================================================================
