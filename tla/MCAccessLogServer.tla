-------------------------- MODULE MCAccessLogServer --------------------------
(***************************************************************************)
(* Format strings that use every kind of command operator, and ones that   *)
(* the validator refuses.                                                  *)
(***************************************************************************)
EXTENDS AccessLogServer

MCLowerCase == [h \in {"X-ENVOY-ORIGINAL-PATH", ":PATH", "X-A", "X-B", "CONTENT-TYPE", "X-T"} |->
    CASE h = "X-ENVOY-ORIGINAL-PATH" -> "x-envoy-original-path" [] h = ":PATH" -> ":path" [] h = "X-A" -> "x-a"
      [] h = "X-B" -> "x-b" [] h = "CONTENT-TYPE" -> "content-type" [] h = "X-T" -> "x-t"]

Op(cmd, args, limit) == Command(cmd, TRUE, args, limit)

MCFormats ==
    {<<Op("REQ", <<"X-ENVOY-ORIGINAL-PATH", ":PATH">>, NoLimit), Text(<<" ">>), Simple("KUMA_SOURCE_SERVICE"),
       Text(<<" ">>), Op("REQ", <<"", "X-B">>, 2), Op("REQ", <<"X-A", "X-B">>, 0), Simple("KUMA_UNKNOWN"),
       Op("FILTER_STATE", <<"k">>, 3), Simple("PROTOCOL"), Simple("RESPONSE_CODE")>>,
     <<Text(<<"[">>), Simple("START_TIME"), Text(<<"]">>), Op("RESP", <<"CONTENT-TYPE">>, NoLimit),
       Op("TRAILER", <<"X-T", "">>, 1), Simple("RESPONSE_FLAGS"), Simple("DURATION"), Simple("HOSTNAME"),
       Simple("RESPONSE_TX_DURATION"), Simple("REQUEST_DURATION"), Simple("RESPONSE_DURATION"),
       Simple("KUMA_MESH"), Op("DYNAMIC_METADATA", <<"ns", "a", "b">>, 5), Op("REQ", <<"">>, NoLimit),
       Op("START_TIME", <<"%s">>, 7), Simple("UPSTREAM_HOST"), Simple("DOWNSTREAM_REMOTE_ADDRESS_WITHOUT_PORT"),
       Simple("DOWNSTREAM_PEER_URI_SAN"), Simple("DOWNSTREAM_TLS_CIPHER"), Simple("DOWNSTREAM_TLS_VERSION"),
       Simple("UPSTREAM_CLUSTER"), Simple("BYTES_SENT"), Simple("RESPONSE_CODE_DETAILS")>>,
     <<Text(<<"a">>), StrayPercent>>,
     <<Op("REQ", <<"X-A", "X-B", "X-C">>, NoLimit)>>,
     <<Simple("REQ")>>, <<Op("RESP", <<"X-A">>, Overflowing)>>, <<Op("PROTOCOL", <<"">>, NoLimit)>>,
     <<Op("REQ", <<"bad\n">>, NoLimit)>>, <<Op("START_TIME", <<"%n">>, NoLimit)>>,
     <<Simple("DYNAMIC_METADATA")>>, <<Op("FILTER_STATE", <<"">>, NoLimit)>>}

MCBackends == {<<IF Simple("KUMA_MESH") \in ToSet(f) THEN "logs2" ELSE "logs1", f>> : f \in MCFormats}

MCVariables == [KUMA_SOURCE_SERVICE |-> <<"web">>, KUMA_MESH |-> <<"default">>]

Observed ==
    [kind |-> "http",
     request |-> [h \in {":path", "x-envoy-original-path", "x-b", "x-c"} |-> <<h, "v", "w">>],
     response |-> [h \in {"content-type", "x-a"} |-> <<h, "v">>],
     trailer |-> [h \in {"x-t"} |-> <<"t", "u">>],
     props |-> [START_TIME |-> <<"t0">>, PROTOCOL |-> "HTTP11", RESPONSE_CODE |-> 200, RESPONSE_FLAGS |-> {"UH", "DC", "RL"},
                lastDownstreamTx |-> <<2500000>>, firstUpstreamRx |-> <<4200000>>,
                upstreamRemote |-> <<"192.0.2.1", 80>>, downstreamRemote |-> <<"192.0.2.2", 81>>,
                DOWNSTREAM_PEER_URI_SAN |-> << <<"dns", "d">>, <<"uri", "spiffe-a">>, <<"uri", "spiffe-b">> >>,
                DOWNSTREAM_TLS_CIPHER |-> <<5>>, DOWNSTREAM_TLS_VERSION |-> "TLSv1_2"]]

Plain == [kind |-> "http", request |-> [h \in {":path", "x-a"} |-> <<h>>], response |-> <<>>, trailer |-> <<>>,
          props |-> [upstreamRemote |-> <<"pipe">>, BYTES_SENT |-> 7, DOWNSTREAM_TLS_CIPHER |-> <<65535>>]]

Connection == [kind |-> "tcp", request |-> <<>>, response |-> <<>>, trailer |-> <<>>,
               props |-> [START_TIME |-> <<"t1">>, BYTES_SENT |-> 9, UPSTREAM_CLUSTER |-> <<"backend">>]]

MCTraffic == {<<Observed, Plain>>, <<Connection>>}
=============================================================================
