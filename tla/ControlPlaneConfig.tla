------------------------- MODULE ControlPlaneConfig -------------------------
(***************************************************************************)
(* What a control plane makes of its configuration before it starts: the   *)
(* defaults autoconfigure fills in, the catalog it publishes to kuma-dp    *)
(* and the certificate and address of the secret discovery server that     *)
(* Envoys are given.  A URL is a triple <<scheme, host, port>>.            *)
(***************************************************************************)
EXTENDS Naturals

NoUrl == << >>
Url(scheme, host, port) == <<scheme, host, port>>
UrlHost(url) == url[2]

\* A TLS certificate: which process made it and the hosts it is valid for.
NoCert == [id |-> << >>, hosts |-> {}]
NewSelfSignedCert(id, hosts) == [id |-> id, hosts |-> hosts]

DefaultDataplaneTokenServerConfig ==
    [enabled |-> TRUE, port |-> 5679, public |-> FALSE, publicPort |-> 0]
DefaultDataplaneTokenApiConfig == [enabled |-> TRUE]

\* The deprecated section wins over the new one as soon as it is not the default.
autoconfigureAdminServer(cfg) ==
    LET old   == cfg.tokenServer
        admin == IF old = DefaultDataplaneTokenServerConfig THEN cfg.admin
                 ELSE [token |-> [enabled |-> old.enabled], port |-> old.port,
                       public |-> old.public, publicPort |-> old.publicPort]
        port  == IF admin.public /\ admin.publicPort = 0 THEN admin.port ELSE admin.publicPort
    IN  [cfg EXCEPT !.admin = [admin EXCEPT !.publicPort = port]]

autoconfigureCatalog(cfg) ==
    LET given(url, otherwise) == IF url = NoUrl THEN otherwise ELSE url
        local  == Url("http", "localhost", cfg.admin.port)
        public == IF cfg.admin.public THEN Url("https", cfg.hostname, cfg.admin.publicPort) ELSE NoUrl
        token  == cfg.admin.token.enabled
    IN  [cfg EXCEPT !.catalog =
            [api       |-> Url("http", cfg.hostname, cfg.ports.api),
             bootstrap |-> given(@.bootstrap, Url("http", cfg.hostname, cfg.ports.bootstrap)),
             mads      |-> given(@.mads, Url("grpc", cfg.hostname, cfg.ports.mads)),
             admin     |-> [local |-> local, public |-> public],
             token     |-> [local |-> IF token THEN local ELSE NoUrl,
                            public |-> IF token THEN public ELSE NoUrl],
             sds       |-> @.sds]]

autoconfigBootstrapXdsParams(cfg) ==
    [cfg EXCEPT !.params.xdsHost = IF @ = "" THEN cfg.hostname ELSE @,
                !.params.xdsPort = IF @ = 0 THEN cfg.ports.xds ELSE @]

\* On Universal every start without a configured certificate makes one of its own.
autoconfigureSds(cfg, id) ==
    LET host == IF cfg.catalog.sds = NoUrl THEN cfg.params.xdsHost ELSE UrlHost(cfg.catalog.sds)
    IN  IF cfg.env = "universal" /\ cfg.sdsCert = NoCert
        THEN [cfg EXCEPT !.sdsCert = NewSelfSignedCert(id, {host, "localhost"})]
        ELSE cfg

\* As autoconfigure, with the certificate made before the host is defaulted.
CertificateFirst(cfg, id) ==
    autoconfigBootstrapXdsParams(autoconfigureSds(autoconfigureCatalog(autoconfigureAdminServer(cfg)), id))

autoconfigure(cfg, id) ==
    autoconfigureSds(autoconfigBootstrapXdsParams(autoconfigureCatalog(autoconfigureAdminServer(cfg))), id)

\* What the xDS server tells Envoys about the secret discovery server.
BuildControlPlaneContext(cfg) ==
    [host |-> IF cfg.catalog.sds = NoUrl THEN cfg.params.xdsHost ELSE UrlHost(cfg.catalog.sds),
     cert |-> cfg.sdsCert]

\* The catalog as kuma-dp reads it.
FromConfig(catalog) ==
    [bootstrap |-> catalog.bootstrap, token |-> catalog.token,
     admin |-> catalog.admin, mads |-> catalog.mads]
DataplaneTokenEnabled(apis) == apis.token.local # NoUrl
=============================================================================
