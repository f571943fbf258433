--------------------------- MODULE AccessLogServer ---------------------------
(***************************************************************************)
(* Access logs from the format string of a mesh to the TCP logging         *)
(* backend: the control plane parses the format, binds the placeholders    *)
(* and renders it into the name of a gRPC access log; Envoy opens a stream *)
(* to kuma-dp for each configuration; kuma-dp parses the name of the first *)
(* message, connects to the backend, and formats and forwards the entries. *)
(***************************************************************************)
EXTENDS AccessLogFormat

CONSTANTS
    Addresses,       \* the TCP logging backends
    Backends,        \* the addresses and format strings a user may configure
    Variables,       \* the values the placeholders are bound to
    Traffic,         \* what Envoy can observe: entries with all their headers
    MaxStreams,
    MaxEntries       \* entries logged on one stream

VARIABLES
    backend,         \* <<>>, or the address and the format of the mesh's logging backend
    config,          \* the access log that Envoy is configured with, or <<>>
    streams,         \* the streams that Envoy opened, in order
    up,              \* the backends that accept connections
    records          \* the records each backend received

vars == <<backend, config, streams, up, records>>

NoConfig == [request |-> {}, response |-> {}, trailer |-> {}, state |-> {}]

\* ghost: the format the user wrote, to compare the records with
tcpAccessLog(fragments, address, format) ==
    [address |-> address, format |-> String(fragments), headers |-> ConfigureHttpLog(fragments, NoConfig), ghost |-> format]

BindPlaceholders(format) == Interpolate(Parse(format).fragments, Variables)

Init ==
    /\ backend = <<>> /\ config = <<>> /\ streams = <<>>
    /\ up = Addresses
    /\ records = [a \in Addresses |-> <<>>]

\* The mesh is validated and stored, and Envoy is configured anew.
UpdateBackend(address, format) ==
    /\ ValidateFormat(format)
    /\ backend # <<address, format>>
    /\ backend' = <<address, format>>
    /\ config' = <<tcpAccessLog(BindPlaceholders(format), address, format)>>
    /\ UNCHANGED <<streams, up, records>>

\* External: Envoy keeps one stream for a configuration and opens another
\* one when it was closed.
OpenStream ==
    /\ config # <<>> /\ Len(streams) < MaxStreams
    /\ \A i \in DOMAIN streams : streams[i].open => streams[i].config # config[1]
    /\ streams' = Append(streams, [config |-> config[1], open |-> TRUE, handler |-> <<>>, sent |-> <<>>])
    /\ UNCHANGED <<backend, config, up, records>>

\* External: what Envoy puts into an entry.
Capture(observed, headers) ==
    [observed EXCEPT !.request = Restrict(@, DOMAIN @ \cap (AlwaysCaptured \cup headers.request)),
                     !.response = Restrict(@, DOMAIN @ \cap headers.response),
                     !.trailer = Restrict(@, DOMAIN @ \cap headers.trailer)]

\* Handler of the first message; an error, also of the connection, ends the
\* stream.
defaultHandler(c) ==
    LET parsed == Parse(c.format)
    IN IF parsed.ok /\ c.address \in up
       THEN <<[format |-> parsed.fragments, address |-> c.address, connected |-> TRUE]>> ELSE <<>>

Format(handler, entry) ==
    IF entry.kind = "http" THEN FormatHttpLogEntry(handler.format, entry) ELSE FormatTcpLogEntry(handler.format, entry)

\* The records of a message, which are sent one by one.  ghost: the stream,
\* the position and the observation.
Handle(i, handler, entries, first) ==
    [k \in DOMAIN entries |->
        [stream |-> i, n |-> first + k, observed |-> entries[k],
         line |-> Format(handler, Capture(entries[k], streams[i].config.headers))]]

HandlerOf(s) == IF s.handler = <<>> THEN defaultHandler(s.config) ELSE s.handler

\* One message of a stream.  On a connection that the backend closed a write
\* may still succeed, and what was written is lost; the next one fails.
StreamAccessLogs(i, entries) ==
    LET s == streams[i]
        handler == HandlerOf(s)
        connected == handler # <<>> /\ handler[1].connected
    IN /\ s.open /\ Len(s.sent) + Len(entries) <= MaxEntries
       /\ \E open \in IF connected THEN {TRUE} ELSE IF handler = <<>> THEN {FALSE} ELSE BOOLEAN :
             streams' = [streams EXCEPT ![i] = [s EXCEPT !.open = open, !.sent = @ \o entries,
                                                         !.handler = IF open THEN handler ELSE <<>>]]
       /\ records' = IF connected
                     THEN [records EXCEPT ![handler[1].address] = @ \o Handle(i, handler[1], entries, Len(s.sent))]
                     ELSE records
       /\ UNCHANGED <<backend, config, up>>

Disconnected(address) ==
    [i \in DOMAIN streams |->
        IF streams[i].handler # <<>> /\ streams[i].handler[1].address = address
        THEN [streams[i] EXCEPT !.handler = <<[@[1] EXCEPT !.connected = FALSE]>>] ELSE streams[i]]

\* Mutant: a record that cannot be sent is skipped.
SentOthers(sent, taken) == SelectSeq(sent, LAMBDA r : r # sent[taken + 1])

Sent(sent, taken) == SubSeq(sent, 1, taken)

\* The backend goes away after it took only some of the records of a message:
\* the others are dropped with the stream.
PartialSend(i, entries) ==
    LET s == streams[i]
        handler == HandlerOf(s)
    IN /\ s.open /\ Len(s.sent) + Len(entries) <= MaxEntries
       /\ handler # <<>> /\ handler[1].connected
       /\ \E taken \in 0..(Len(entries) - 1) :
             records' = [records EXCEPT ![handler[1].address] = @ \o Sent(Handle(i, handler[1], entries, Len(s.sent)), taken)]
       /\ streams' = [Disconnected(handler[1].address) EXCEPT
                         ![i].handler = <<>>, ![i].open = FALSE, ![i].sent = @ \o entries]
       /\ up' = up \ {handler[1].address}
       /\ UNCHANGED <<backend, config>>

Outage(address) ==
    /\ address \in up /\ up' = up \ {address}
    /\ streams' = Disconnected(address)
    /\ UNCHANGED <<backend, config, records>>

\* External: Envoy ends the streams of configurations it no longer has.
CloseStream(i) ==
    /\ streams[i].open /\ <<streams[i].config>> # config
    /\ streams' = [streams EXCEPT ![i].open = FALSE, ![i].handler = <<>>]
    /\ UNCHANGED <<backend, config, up, records>>

Restore ==
    /\ up # Addresses /\ up' = Addresses
    /\ UNCHANGED <<backend, config, streams, records>>

Next ==
    \/ \E b \in Backends : UpdateBackend(b[1], b[2])
    \/ OpenStream
    \/ \E i \in DOMAIN streams, entries \in Traffic : StreamAccessLogs(i, entries) \/ PartialSend(i, entries)
    \/ \E i \in DOMAIN streams : CloseStream(i)
    \/ \E address \in Addresses : Outage(address)
    \/ Restore

Spec == Init /\ [][Next]_vars

(***************************************************************************)
(* Properties.                                                             *)
(***************************************************************************)
\* The state has the shape the control plane and kuma-dp give it, and only
\* formats that parse are configured.
TypeOK ==
    /\ backend # <<>> => backend \in Backends /\ ValidateFormat(backend[2])
    /\ up \subseteq Addresses
    /\ \A i \in DOMAIN streams : streams[i].open \in BOOLEAN /\ Len(streams[i].sent) <= MaxEntries

\* What Envoy itself would log for a fragment of the user's format, given
\* everything it observed.
Reference(f, observed) ==
    CASE f.t = "placeholder" -> Get(Variables, f.cmd)
      [] OTHER -> OrUnspecified(IF observed.kind = "http" THEN FormatHttpFragment(f, observed) ELSE FormatTcpFragment(f, observed))

\* A record is what the user's format says of what was observed: binding the
\* placeholders, rendering, parsing again and capturing only the configured
\* headers lose nothing, also when the format changed while a stream was open
\* (convertLoggingBackend, tcpAccessLog, defaultHandler, handler.Handle).
RecordsFaithful ==
    \A a \in Addresses : \A k \in DOMAIN records[a] :
        LET r == records[a][k]
            fragments == Parse(streams[r.stream].config.ghost).fragments
        IN r.line = FlattenSeq([i \in DOMAIN fragments |-> Reference(fragments[i], r.observed)])

\* A backend gets the records of a stream in order, none of them twice and
\* none from the middle of a stream left out (handler.Handle, sender.Send).
RecordsInOrder ==
    \A a \in Addresses, i \in DOMAIN streams :
        LET mine == SelectSeq(records[a], LAMBDA r : r.stream = i)
        IN /\ \A k \in DOMAIN mine : mine[k].n = k /\ mine[k].observed = streams[i].sent[k]
           /\ mine # <<>> => streams[i].config.address = a
=============================================================================
