---------------------------- MODULE MCResourceApi ----------------------------
EXTENDS ResourceApi

Catalog(local, public, token) ==
    [adminLocal |-> local, adminPublic |-> public, tokenPublic |-> token]
FullCatalog == Catalog("local", "public", "public")

\* A command: [kind, type, mesh, name, spec, file, dryRun, size, offset, gateway].
Cmd(kind, type, name) ==
    [kind |-> kind, type |-> type, mesh |-> 1, name |-> name, spec |-> "a", file |-> "file",
     dryRun |-> FALSE, size |-> 0, offset |-> NoOffset, gateway |-> FALSE]
Apply(type, name, spec) == [Cmd("apply", type, name) EXCEPT !.spec = spec]
ListBy(type, size) == [Cmd("list", type, 0) EXCEPT !.size = size]
EditBy(kind, name, overwrite, reachable) ==
    [kind |-> kind, name |-> name, overwrite |-> overwrite, reachable |-> reachable, cert |-> TRUE]

Holding(backend_, recs) ==
    [records |-> recs, revision |-> IF backend_ = "kubernetes" THEN 5 ELSE 0]
Rec(type, mesh, name) == Record(type, mesh, name, 1, "a")
TheMesh == Rec("Mesh", 1, 1)

OneControlPlane ==
    [controlPlanes |-> <<1>>, contexts |-> <<NewContext(1, TRUE)>>, currentContext |-> 1]

\* A store, and how many commands, of which, each user runs.
Deployment(backend_, recs, n1, c1, n2, c2) ==
    [env |-> [backend |-> backend_, readOnly |-> FALSE, catalog |-> FullCatalog,
              sameMachine |-> TRUE, kubectl |-> {}, cached |-> {}, maxTimeouts |-> 0,
              commands |-> [u \in Users |-> IF u = "u1" THEN c1 ELSE c2],
              budget |-> [u \in Users |-> IF u = "u1" THEN n1 ELSE n2]],
     store |-> Holding(backend_, recs),
     configFile |-> OneControlPlane]

\* Two users change and read one dataplane; on Kubernetes others write too.
Writing(backend_, recs, n1, timeouts) ==
    [Deployment(backend_, <<TheMesh>> \o recs,
        n1, {Apply("Dataplane", 2, "a"), Cmd("delete", "Dataplane", 2)},
        1, {Apply("Dataplane", 2, "b"), Cmd("delete", "Dataplane", 2), Cmd("get", "Dataplane", 2)})
     EXCEPT !.env.maxTimeouts = timeouts,
            !.env.kubectl = IF backend_ = "kubernetes" THEN {Apply("Dataplane", 2, "c")} ELSE {}]

\* A user lists, page after page, and another inserts and deletes before,
\* within and behind the pages.
Paging(backend_) ==
    Deployment(backend_, <<TheMesh, Rec("Dataplane", 1, 3), Rec("Dataplane", 2, 4),
                           Rec("Dataplane", 1, 5)>>,
        1, {ListBy("Dataplane", 1), ListBy("Dataplane", 2), Cmd("inspect", "Dataplane", 0)},
        2, {Apply("Dataplane", 2, "a"), Apply("Dataplane", 6, "a"), Cmd("delete", "Dataplane", 3)})

\* What the server and kumactl refuse.
Refusing(backend_, readOnly) ==
    [Deployment(backend_, <<TheMesh, Rec("Dataplane", 1, 2), Rec("DataplaneInsight", 1, 2)>>,
        1, {[Apply("Dataplane", 2, "b") EXCEPT !.file = f] : f \in {"unreadable", "invalid", "url404"}}
          \cup {Apply("Dataplane", 7, "a"), Apply("Dataplane", 2, "bad"), Apply("Dataplane", 3, "bad"),
                [Apply("Dataplane", 2, "b") EXCEPT !.dryRun = TRUE],
                [Apply("Dataplane", 2, "b") EXCEPT !.mesh = 2]},
        1, {Cmd("curl", "Dataplane", 2), Cmd("overview", "Dataplane", 2), Cmd("overview", "Dataplane", 3),
         Cmd("delete", "Dataplane", 3), ListBy("Mesh", MaxPageSize + 1),
         [ListBy("Dataplane", 1) EXCEPT !.offset = BadOffset],
         [Cmd("inspect", "Dataplane", 0) EXCEPT !.gateway = TRUE],
         [Cmd("curl", "Dataplane", 0) EXCEPT !.size = BadSize],
         [Cmd("curl", "Dataplane", 0) EXCEPT !.size = 1, !.gateway = TRUE],
         Cmd("get", "DataplaneInsight", 2), Cmd("get", "ProxyTemplate", 2)})
     EXCEPT !.env.readOnly = readOnly]

\* Secrets, at the admin server, from the machine of the control plane or
\* from another.
Secrets(backend_, sameMachine, catalog) ==
    [Deployment(backend_, <<TheMesh>>,
        1, {Apply("Secret", 2, "a"), Cmd("delete", "Secret", 2)},
        1, {Apply("Secret", 2, "b"), Cmd("get", "Secret", 2), Cmd("list", "Secret", 0)})
     EXCEPT !.env.sameMachine = sameMachine, !.env.catalog = catalog]

\* Two processes edit the configuration file.
Configuring(cfg) ==
    LET edits == {EditBy("add", 1, TRUE, TRUE), EditBy("add", 2, FALSE, TRUE),
                  EditBy("add", 3, FALSE, FALSE), EditBy("remove", 1, FALSE, TRUE),
                  EditBy("switch", 2, FALSE, TRUE)}
    IN  [Deployment("memory", <<TheMesh>>, 2, edits, 2, edits \cup {Cmd("get", "Mesh", 1)})
         EXCEPT !.configFile = cfg, !.env.maxTimeouts = 1]

\* Readers of the cache while a user writes.
Caching(kind) ==
    [Deployment("memory", <<TheMesh, Rec("Dataplane", 1, 2)>>,
        2, {Apply("Dataplane", 2, "b"), Cmd("delete", "Dataplane", 2)}, 0, {})
     EXCEPT !.env.cached = {[kind |-> kind, type |-> "Dataplane", mesh |-> 1, name |-> 2]}]

MCDeployments ==
    {Writing("memory", << >>, 2, 0), Writing("memory", <<Rec("Dataplane", 1, 2)>>, 1, 1),
      Writing("postgres", <<Rec("Dataplane", 1, 2)>>, 2, 0), Writing("postgres", << >>, 1, 1),
      Writing("kubernetes", <<Rec("Dataplane", 1, 2)>>, 1, 0),
      Paging("memory"), Paging("postgres"), Paging("kubernetes"),
      Refusing("memory", FALSE), Refusing("postgres", TRUE), Refusing("kubernetes", FALSE),
      Secrets("memory", TRUE, FullCatalog), Secrets("kubernetes", FALSE, FullCatalog),
      Secrets("memory", FALSE, Catalog("local", "", "")),
      Secrets("memory", FALSE, Catalog("local", "public", "")),
      Configuring(DefaultConfiguration), Configuring(OneControlPlane),
      Caching("GET"), Caching("LIST")}
=============================================================================
