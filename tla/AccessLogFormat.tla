--------------------------- MODULE AccessLogFormat ---------------------------
(***************************************************************************)
(* The access log format strings of pkg/envoy/accesslog: parsing, binding  *)
(* of the %KUMA_*% placeholders, rendering, the configuration of Envoy's   *)
(* gRPC access log and the formatting of log entries.                      *)
(*                                                                         *)
(* A format string is a sequence of elements, as the regular expression of *)
(* the parser cuts it: a piece of text, a "%" that starts no command       *)
(* operator, or %CMD(args):limit% with the arguments already split at      *)
(* their separator.  A rendered value is a sequence of pieces, so that     *)
(* MaxLength can cut it.                                                   *)
(***************************************************************************)
EXTENDS Integers, Sequences, SequencesExt, FiniteSets, TLC

CONSTANTS
    LowerCase,       \* strings.ToLower on the header names in use
    WithNewline      \* the arguments with a NUL, a CR, a LF or a "%n"

Unspecified == <<"-">>
NoLimit == 0 - 1
Overflowing == 0 - 2

Text(s) == [t |-> "text", s |-> s]
StrayPercent == [t |-> "percent"]
Command(cmd, paren, args, limit) == [t |-> "command", cmd |-> cmd, paren |-> paren, args |-> args, limit |-> limit]
Simple(cmd) == Command(cmd, FALSE, <<"">>, NoLimit)

ToLower(name) == IF name \in DOMAIN LowerCase THEN LowerCase[name] ELSE name

(***************************************************************************)
(* Parsing.  A fragment, or <<>> where the parser returns an error.        *)
(***************************************************************************)
Placeholders == {"KUMA_SOURCE_ADDRESS", "KUMA_SOURCE_ADDRESS_WITHOUT_PORT", "KUMA_SOURCE_SERVICE",
                 "KUMA_DESTINATION_SERVICE", "KUMA_MESH", "KUMA_UNKNOWN"}

IsPlaceholder(cmd) == cmd \in Placeholders

hasNoArguments(e) == ~e.paren

\* The maximum length; Overflowing stands for a limit that Atoi refuses.
MaxLen(e) == IF e.limit = NoLimit THEN 0 ELSE e.limit

parseHeaderOperator(e) ==
    IF hasNoArguments(e) \/ e.limit = Overflowing \/ Len(e.args) > 2 \/ ToSet(e.args) \cap WithNewline # {} THEN <<>>
    ELSE <<[t |-> e.cmd, header |-> ToLower(e.args[1]),
            alt |-> IF Len(e.args) = 2 THEN ToLower(e.args[2]) ELSE "", max |-> MaxLen(e)]>>

parseDynamicMetadataOperator(e) ==
    IF hasNoArguments(e) \/ e.limit = Overflowing THEN <<>>
    ELSE <<[t |-> e.cmd, namespace |-> e.args[1], path |-> Tail(e.args), max |-> MaxLen(e)]>>

parseFilterStateOperator(e) ==
    IF hasNoArguments(e) \/ e.limit = Overflowing \/ e.args[1] = "" THEN <<>>
    ELSE <<[t |-> e.cmd, key |-> e.args[1], max |-> MaxLen(e)]>>

parseStartTimeOperator(e) ==
    IF e.args[1] \in WithNewline THEN <<>> ELSE <<[t |-> e.cmd, format |-> e.args[1]]>>

parseFieldOperator(e) ==
    IF e.paren \/ e.limit # NoLimit THEN <<>>
    ELSE <<[t |-> IF IsPlaceholder(e.cmd) THEN "placeholder" ELSE "field", cmd |-> e.cmd]>>

Headers == {"REQ", "RESP", "TRAILER"}

parseCommandOperator(e) ==
    CASE e.cmd \in Headers            -> parseHeaderOperator(e)
      [] e.cmd = "DYNAMIC_METADATA"   -> parseDynamicMetadataOperator(e)
      [] e.cmd = "FILTER_STATE"       -> parseFilterStateOperator(e)
      [] e.cmd = "START_TIME"         -> parseStartTimeOperator(e)
      [] OTHER                        -> parseFieldOperator(e)

TextSpan(s) == [t |-> "text", s |-> s]

EndsInText(fragments) == fragments # <<>> /\ Last(fragments).t = "text"

\* Text up to the next "%" is one span.
Parse(format) ==
    LET add(r, e) ==
            LET parsed == IF e.t = "command" THEN parseCommandOperator(e) ELSE <<>>
            IN IF ~r.ok THEN r
               ELSE IF e.t = "text"
                    THEN IF EndsInText(r.fragments)
                         THEN [r EXCEPT !.fragments = Append(Front(@), TextSpan(Last(@).s \o e.s))]
                         ELSE [r EXCEPT !.fragments = Append(@, TextSpan(e.s))]
                    ELSE [ok |-> parsed # <<>>, fragments |-> r.fragments \o parsed]
    IN FoldLeft(add, [ok |-> TRUE, fragments |-> <<>>], format)

ValidateFormat(format) == Parse(format).ok

(***************************************************************************)
(* Interpolation and rendering.                                            *)
(***************************************************************************)
Get(variables, name) == IF name \in DOMAIN variables THEN variables[name] ELSE <<>>

Interpolate(fragments, variables) ==
    [i \in DOMAIN fragments |->
        IF fragments[i].t = "placeholder" THEN TextSpan(Get(variables, fragments[i].cmd)) ELSE fragments[i]]

Limit(max) == IF max = 0 THEN NoLimit ELSE max

HeaderFormatterString(f) ==
    Command(f.t, TRUE, IF f.alt # "" THEN <<f.header, f.alt>> ELSE <<f.header>>, Limit(f.max))

DynamicMetadataString(f) == Command(f.t, TRUE, <<f.namespace>> \o f.path, Limit(f.max))

FilterStateString(f) == Command(f.t, TRUE, <<f.key>>, Limit(f.max))

StartTimeString(f) == IF f.format = "" THEN Simple(f.t) ELSE Command(f.t, TRUE, <<f.format>>, NoLimit)

FragmentString(f) ==
    CASE f.t = "text"                    -> IF f.s = <<>> THEN <<>> ELSE <<Text(f.s)>>
      [] f.t \in {"field", "placeholder"} -> <<Simple(f.cmd)>>
      [] f.t \in Headers                 -> <<HeaderFormatterString(f)>>
      [] f.t = "DYNAMIC_METADATA"        -> <<DynamicMetadataString(f)>>
      [] f.t = "FILTER_STATE"            -> <<FilterStateString(f)>>
      [] f.t = "START_TIME"              -> <<StartTimeString(f)>>

String(fragments) == FlattenSeq([i \in DOMAIN fragments |-> FragmentString(fragments[i])])

(***************************************************************************)
(* What Envoy is asked to log beside what it always logs.                  *)
(***************************************************************************)
AlwaysCaptured == {":method", ":scheme", ":authority", ":path", "user-agent", "referer",
                   "x-forwarded-for", "x-request-id", "x-envoy-original-path"}

\* Mutant: the alternative header is forgotten.
GetOperandHeadersMain(f) == {f.header} \ {""}

GetOperandHeaders(f) == {f.header, f.alt} \ {""}

RequestConfigureHttpLog(config, f) == [config EXCEPT !.request = @ \cup (GetOperandHeaders(f) \ AlwaysCaptured)]
ResponseConfigureHttpLog(config, f) == [config EXCEPT !.response = @ \cup GetOperandHeaders(f)]
TrailerConfigureHttpLog(config, f) == [config EXCEPT !.trailer = @ \cup GetOperandHeaders(f)]
FilterStateConfigureHttpLog(config, f) == [config EXCEPT !.state = @ \cup {f.key}]

ConfigureHttpLog(fragments, initial) ==
    LET configure(config, f) ==
            CASE f.t = "REQ"          -> RequestConfigureHttpLog(config, f)
              [] f.t = "RESP"         -> ResponseConfigureHttpLog(config, f)
              [] f.t = "TRAILER"      -> TrailerConfigureHttpLog(config, f)
              [] f.t = "FILTER_STATE" -> FilterStateConfigureHttpLog(config, f)
              [] OTHER                -> config
    IN FoldLeft(configure, initial, fragments)

(***************************************************************************)
(* How a fragment of a format string formats a log entry that Envoy sent.  *)
(*                                                                         *)
(* An entry has a kind ("http" or "tcp"), the headers Envoy captured, and  *)
(* the properties it filled; a property that is absent has the zero value  *)
(* the protobuf getters return.  Durations are in nanoseconds.             *)
(***************************************************************************)

Millisecond == 1000000

Prop(entry, name, zero) == IF name \in DOMAIN entry.props THEN entry.props[name] ELSE zero

formatUint(n) == <<ToString(n)>>

\* Integer division truncates towards zero.
Milliseconds(ns) == IF ns >= 0 THEN ns \div Millisecond ELSE 0 - ((0 - ns) \div Millisecond)

formatDuration(d) == IF d = <<>> THEN <<>> ELSE formatUint(Milliseconds(d[1]))

formatDurationDelta(outer, inner) ==
    IF outer = <<>> \/ inner = <<>> THEN <<>> ELSE formatUint(Milliseconds(outer[1] - inner[1]))

formatHttpVersion(v) ==
    CASE v = "" -> <<>> [] v = "HTTP10" -> <<"HTTP/1.0">> [] v = "HTTP11" -> <<"HTTP/1.1">>
      [] v = "HTTP2" -> <<"HTTP/2">> [] v = "HTTP3" -> <<"HTTP/3">> [] OTHER -> <<v>>

ResponseFlags == <<"LH", "UH", "UT", "LR", "UR", "UF", "UC", "UO", "NR", "DI", "FI", "RL", "UAEX", "RLSE", "DC",
                   "URX", "SI", "IH", "DPE">>

Join(values) == FoldLeft(LAMBDA s, v : IF s = <<>> THEN v ELSE s \o <<",">> \o v, <<>>, values)

formatResponseFlags(flags) ==
    LET set == SelectSeq(ResponseFlags, LAMBDA f : f \in flags) IN Join([i \in DOMAIN set |-> <<set[i]>>])

\* <<>> is no address, <<path>> a pipe, <<address, port>> a socket.
formatAddress(a, includePort) ==
    IF Len(a) = 2 THEN IF includePort THEN <<a[1], ":", ToString(a[2])>> ELSE <<a[1]>> ELSE a

formatUriSans(sans) ==
    LET uris == SelectSeq(sans, LAMBDA s : s[1] = "uri") IN Join([i \in DOMAIN uris |-> <<uris[i][2]>>])

formatTlsCipherSuite(v) == IF v \in {<<>>, <<65535>>} THEN <<>> ELSE <<"suite", ToString(v[1])>>

formatTlsVersion(v) ==
    CASE v = "" -> <<>> [] v = "TLSv1_1" -> <<"TLSv1.1">> [] v = "TLSv1_2" -> <<"TLSv1.2">>
      [] v = "TLSv1_3" -> <<"TLSv1.3">> [] OTHER -> <<v>>

StringFields ==
    {"UPSTREAM_TRANSPORT_FAILURE_REASON", "UPSTREAM_CLUSTER", "REQUESTED_SERVER_NAME", "ROUTE_NAME",
     "DOWNSTREAM_PEER_SUBJECT", "DOWNSTREAM_LOCAL_SUBJECT", "DOWNSTREAM_TLS_SESSION_ID"}

\* The property whose address a command logs, and whether with its port.
AddressFields ==
    [UPSTREAM_HOST |-> <<"upstreamRemote", TRUE>>,
     UPSTREAM_LOCAL_ADDRESS |-> <<"upstreamLocal", TRUE>>,
     DOWNSTREAM_LOCAL_ADDRESS |-> <<"downstreamLocal", TRUE>>,
     DOWNSTREAM_LOCAL_ADDRESS_WITHOUT_PORT |-> <<"downstreamLocal", FALSE>>,
     DOWNSTREAM_REMOTE_ADDRESS |-> <<"downstreamRemote", TRUE>>,
     DOWNSTREAM_REMOTE_ADDRESS_WITHOUT_PORT |-> <<"downstreamRemote", FALSE>>,
     DOWNSTREAM_DIRECT_REMOTE_ADDRESS |-> <<"downstreamDirectRemote", TRUE>>,
     DOWNSTREAM_DIRECT_REMOTE_ADDRESS_WITHOUT_PORT |-> <<"downstreamDirectRemote", FALSE>>]

formatAccessLogCommon(cmd, entry) ==
    CASE cmd \in StringFields          -> Prop(entry, cmd, <<>>)
      [] cmd \in DOMAIN AddressFields  -> formatAddress(Prop(entry, AddressFields[cmd][1], <<>>), AddressFields[cmd][2])
      [] cmd = "DURATION"              -> formatDuration(Prop(entry, "lastDownstreamTx", <<>>))
      [] cmd = "RESPONSE_FLAGS"        -> formatResponseFlags(Prop(entry, cmd, {}))
      [] cmd \in {"DOWNSTREAM_PEER_URI_SAN", "DOWNSTREAM_LOCAL_URI_SAN"} -> formatUriSans(Prop(entry, cmd, <<>>))
      [] cmd = "DOWNSTREAM_TLS_CIPHER"  -> formatTlsCipherSuite(Prop(entry, cmd, <<>>))
      [] cmd = "DOWNSTREAM_TLS_VERSION" -> formatTlsVersion(Prop(entry, cmd, ""))
      [] OTHER                          -> <<"UNSUPPORTED_COMMAND", cmd>>

FieldFormatHttpLogEntry(cmd, entry) ==
    CASE cmd \in {"BYTES_RECEIVED", "BYTES_SENT", "RESPONSE_CODE"} -> formatUint(Prop(entry, cmd, 0))
      [] cmd = "PROTOCOL"              -> formatHttpVersion(Prop(entry, cmd, ""))
      [] cmd = "RESPONSE_CODE_DETAILS" -> Prop(entry, cmd, <<>>)
      [] cmd = "REQUEST_DURATION"      -> formatDuration(Prop(entry, "lastRx", <<>>))
      [] cmd = "RESPONSE_DURATION"     -> formatDuration(Prop(entry, "firstUpstreamRx", <<>>))
      [] cmd = "RESPONSE_TX_DURATION"  ->
            formatDurationDelta(Prop(entry, "lastDownstreamTx", <<>>), Prop(entry, "firstUpstreamRx", <<>>))
      [] OTHER                         -> formatAccessLogCommon(cmd, entry)

FieldFormatTcpLogEntry(cmd, entry) ==
    CASE cmd \in {"BYTES_RECEIVED", "BYTES_SENT"} -> formatUint(Prop(entry, cmd, 0))
      [] cmd = "RESPONSE_CODE"                    -> <<"0">>
      [] cmd \in {"PROTOCOL", "RESPONSE_CODE_DETAILS", "REQUEST_DURATION", "RESPONSE_DURATION",
                  "RESPONSE_TX_DURATION"}         -> <<>>
      [] OTHER                                    -> formatAccessLogCommon(cmd, entry)

\* The headers that can be got of a request: the ones that are always captured
\* are its properties, of which the empty string stands for an absent one.
RequestHeadersGet(captured) ==
    Restrict(captured, {h \in DOMAIN captured : h \in AlwaysCaptured => captured[h] # <<>>})

\* The value of a header as a sequence of one, or <<>>.
HeaderMapGet(captured, name) == IF name \in DOMAIN captured THEN <<captured[name]>> ELSE <<>>

Truncate(value, max) == IF max > 0 /\ Len(value) > max THEN SubSeq(value, 1, max) ELSE value

HeaderFormatterFormat(f, headers) ==
    LET main == IF f.header = "" THEN <<>> ELSE HeaderMapGet(headers, f.header)
        found == IF main = <<>> /\ f.alt # "" THEN HeaderMapGet(headers, f.alt) ELSE main
    IN IF found = <<>> THEN <<>> ELSE Truncate(found[1], f.max)

StartTimeFormat(entry) == Prop(entry, "START_TIME", <<>>)

FormatHttpFragment(f, entry) ==
    CASE f.t = "text"        -> f.s
      [] f.t = "placeholder" -> <<"%", f.cmd, "%">>
      [] f.t = "field"       -> FieldFormatHttpLogEntry(f.cmd, entry)
      [] f.t = "REQ"         -> HeaderFormatterFormat(f, RequestHeadersGet(entry.request))
      [] f.t = "RESP"        -> HeaderFormatterFormat(f, entry.response)
      [] f.t = "TRAILER"     -> HeaderFormatterFormat(f, entry.trailer)
      [] f.t = "START_TIME"  -> StartTimeFormat(entry)
      [] OTHER               -> <<"UNSUPPORTED_COMMAND", f.t>>

FormatTcpFragment(f, entry) ==
    CASE f.t = "field"    -> FieldFormatTcpLogEntry(f.cmd, entry)
      [] f.t \in Headers  -> <<>>
      [] OTHER            -> FormatHttpFragment(f, entry)

OrUnspecified(value) == IF value = <<>> THEN Unspecified ELSE value

FormatHttpLogEntry(fragments, entry) ==
    FlattenSeq([i \in DOMAIN fragments |-> OrUnspecified(FormatHttpFragment(fragments[i], entry))])

FormatTcpLogEntry(fragments, entry) ==
    FlattenSeq([i \in DOMAIN fragments |-> OrUnspecified(FormatTcpFragment(fragments[i], entry))])
=============================================================================
