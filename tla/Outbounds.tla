----------------------------- MODULE Outbounds ------------------------------
(***************************************************************************)
(* One use of an outbound: a TCP connect, or one datagram and its answer.  *)
(* A connector is the sequence of what it does, in the order of the code:  *)
(* what it checks, dials, says to the server and waits to hear from it,    *)
(* the worker it leaves the transport to, and the bridge between the local *)
(* socket the caller is given and a stream that is not a socket.           *)
(***************************************************************************)
EXTENDS OutboundConfig

CONSTANTS
  Configs,        \* the outbounds
  MaxResets       \* MAX_UDP_CONNECTION_RESET_RETRIES

\* The steps of a connector. A check that fails ends it with the given error.
Check(error, ok) == [does |-> "check", error |-> error, ok |-> ok]
Dial == [does |-> "dial"]                    \* connects or resolves, in time
Say == [does |-> "say"]                      \* writes, in time
Hear(timed) == [does |-> "hear", timed |-> timed]
Receive == [does |-> "receive"]              \* a datagram, in time
Start(steps, relay) == [does |-> "start", steps |-> steps, idle |-> relay.idle]
Await == [does |-> "await"]                  \* the worker's word, in time
Local == [does |-> "local"]                  \* a pair of sockets, parsing: may fail
\* tells   the server hears of the end of the uploads
\* header  the server's answer is waited for: "no"; "at once", beside the
\*         uploads; or "once used", the uploads waiting too
\* timed   the server's silence ends the download
Bridge(tells, header, timed) ==
  [does |-> "bridge", tells |-> tells, header |-> header, timed |-> timed]

-----------------------------------------------------------------------------
\* What the connectors take from the configuration themselves.
Server(o) == Check("invalid", ~Blank(o.address) /\ o.port # None)
shadowsocks_outbound_server(o) == Server(o)
trojan_outbound_server(o) == Server(o)
vless_outbound_server(o) == Server(o)
vmess_outbound_server(o) == Server(o)
shadowsocks_outbound_password(o) == Check("invalid", ~Blank(o.password))
vless_outbound_user_id(o) == Check("invalid", o.username \in SomeUuids)
vmess_outbound_user_id(o) == Check("invalid", o.username \in SomeUuids)
vmess_outbound_security(o) ==
  Check("unsupported", to_ascii_lowercase(Or(o.method, "auto")) \in Ciphers \cup {"auto", "none"})
ShadowsocksMethod_parse(o) == Check("unsupported", is_supported_shadowsocks_cipher(o.method))

\* The name a certificate is checked against: the configured one, or the host.
ValidName(o) == Or(o.tls.server_name, o.address) # "bad name"
trojan_tls_server_name(o) == Check("invalid", ValidName(o))
vless_tls_server_name(o) == Check("invalid", ValidName(o))
vmess_tls_server_name(o) == Check("invalid", ValidName(o))
http2_tls_server_name(o) == Check("invalid", ValidName(o))
grpc_tls_server_name(o) == Check("invalid", ValidName(o))
quic_server_name(o) == Check("invalid", o.tls # None => ValidName(o))
http2_method(o) == Check("invalid", o.transport.method # "bad method")

Network(o) == to_ascii_lowercase(outbound_transport_network(o))
KnownNetwork(o) ==
  Check("unsupported", Network(o) \in {"tcp", "ws", "httpupgrade", "grpc", "h2", "http", "quic"})

-----------------------------------------------------------------------------
\* Transports.
connect_target == <<Dial>>
connect_proxy(o) == <<Server(o), Dial>>
validate_client_upgrade_response == Hear(TRUE)
connect_websocket_client == <<Say, validate_client_upgrade_response>>
validate_httpupgrade_response == Hear(TRUE)
connect_httpupgrade_client == <<Say, validate_httpupgrade_response>>

\* The handshake reads from a socket that has its timeouts.
connect_trojan_tls_stream(o) == connect_target \o <<trojan_tls_server_name(o), Hear(TRUE)>>
connect_vless_tls_stream(o) == connect_target \o <<vless_tls_server_name(o), Hear(TRUE)>>
connect_vmess_tls_stream(o) == connect_target \o <<vmess_tls_server_name(o), Hear(TRUE)>>

\* What a worker's relay does when the server is silent: nothing, or end.
h2_relay == [idle |-> FALSE]
grpc_relay == [idle |-> FALSE]
relay_local_to_quic == [idle |-> TRUE]

\* A worker's stream asks, and waits for the answer without a timeout.
run_http2_client_stream(o) == <<Say, http2_method(o), Say, Hear(FALSE)>>
run_http2_client(o) ==
  connect_target \o (IF o.tls = None THEN <<>> ELSE <<http2_tls_server_name(o), Hear(TRUE)>>)
    \o run_http2_client_stream(o)
connect_http2_client(o) == <<Start(run_http2_client(o), h2_relay), Await>>

run_grpc_client_stream == <<Say, Hear(FALSE)>>
run_grpc_client(o) ==
  connect_target \o (IF o.tls = None THEN <<>> ELSE <<grpc_tls_server_name(o), Hear(TRUE)>>)
    \o run_grpc_client_stream
connect_grpc_client(o) == <<Start(run_grpc_client(o), grpc_relay), Await>>

\* No security takes no key, and headers are not implemented.
validate_quic_transport(o) ==
  Check("unsupported",
        o.transport # None =>
          /\ Or(o.transport.quic_security, "none") \in Ciphers \cup {"none"}
          /\ Or(o.transport.quic_security, "none") = "none" => Blank(o.transport.quic_key)
          /\ Or(o.transport.quic_header_type, "none") = "none")
\* Both the handshake and the opening of the stream are timed; the connection
\* ends by itself when the server is silent for long.
quic_packet_security(o) ==
  Check("unsupported", o.transport # None =>
                         Or(o.transport.quic_security, "none") \in Ciphers \cup {"none"})
quic_client_endpoint(o) == <<quic_packet_security(o), Local>>
run_quic_client(o) ==
  <<Dial>> \o quic_client_endpoint(o) \o <<quic_server_name(o), Hear(TRUE), Hear(TRUE)>>
connect_quic_client_stream(o) ==
  <<validate_quic_transport(o), Local, Start(run_quic_client(o), relay_local_to_quic), Await>>

-----------------------------------------------------------------------------
\* Bridges. Those that only flush at the end of the uploads tell nobody.
local_bridge_for_http2 == <<Local, Bridge(FALSE, "no", FALSE)>>
trojan_local_bridge_for_websocket == <<Local, Bridge(FALSE, "no", FALSE)>>
vless_local_bridge_for_websocket == <<Local, Bridge(FALSE, "no", FALSE)>>
trojan_local_bridge_for_grpc == <<Local, Bridge(TRUE, "no", FALSE)>>
vless_local_bridge_for_grpc == <<Local, Bridge(TRUE, "no", FALSE)>>
relay_plain_to_vless_vision == <<Local, Bridge(FALSE, "no", FALSE)>>
relay_plain_to_vmess == Bridge(TRUE, "once used", FALSE)
local_bridge_for_vmess == <<Local, relay_plain_to_vmess>>
relay_plain_to_vmess_tcp == Bridge(TRUE, "at once", TRUE)
local_bridge_for_vmess_tcp == <<Local, relay_plain_to_vmess_tcp>>
relay_plain_to_shadowsocks == <<Bridge(FALSE, "no", TRUE)>>

relay_plain_to_tls == <<Local, Bridge(TRUE, "no", FALSE)>>

-----------------------------------------------------------------------------
\* SOCKS5 and HTTP. The server may ask for the credentials.
authenticate_socks5 == <<Say, Hear(TRUE)>>
negotiate_socks5 == <<Say, Hear(TRUE)>> \o authenticate_socks5
drain_socks5_bound_address == Hear(TRUE)
connect_socks5(o) ==
  connect_proxy(o) \o negotiate_socks5 \o <<Say, Hear(TRUE), drain_socks5_bound_address>>
read_http_connect_response == Hear(TRUE)
connect_http(o) == connect_proxy(o) \o <<Say, read_http_connect_response>>

\* Shadowsocks: the pair is made before the request is written.
connect_shadowsocks_tcp_outbound(o) ==
  <<ShadowsocksMethod_parse(o), shadowsocks_outbound_password(o), shadowsocks_outbound_server(o)>>
    \o connect_target \o <<Local, Say>> \o relay_plain_to_shadowsocks

\* Trojan: the request is all; no answer is read.
write_trojan_tcp_request == <<Say>>
connect_trojan_h2_tcp_outbound(o) ==
  connect_http2_client(o) \o write_trojan_tcp_request \o local_bridge_for_http2
connect_trojan_quic_tcp_outbound(o) ==
  connect_quic_client_stream(o) \o write_trojan_tcp_request
connect_trojan_grpc_tcp_outbound(o) ==
  connect_grpc_client(o) \o write_trojan_tcp_request \o trojan_local_bridge_for_grpc
connect_trojan_httpupgrade_tcp_outbound(o) ==
  IF o.tls # None
  THEN connect_trojan_tls_stream(o) \o connect_httpupgrade_client \o write_trojan_tcp_request
         \o relay_plain_to_tls
  ELSE connect_target \o connect_httpupgrade_client \o write_trojan_tcp_request
connect_trojan_websocket_tcp_outbound(o) ==
  (IF o.tls # None THEN connect_trojan_tls_stream(o) ELSE connect_target)
    \o connect_websocket_client \o write_trojan_tcp_request \o trojan_local_bridge_for_websocket
connect_trojan_tls_tcp_outbound(o) ==
  connect_trojan_tls_stream(o) \o write_trojan_tcp_request \o relay_plain_to_tls
connect_trojan_tcp_outbound(o) ==
  <<trojan_outbound_server(o), Check("invalid", ~Blank(o.password)), KnownNetwork(o)>> \o
  CASE Network(o) = "ws" -> connect_trojan_websocket_tcp_outbound(o)
    [] Network(o) = "httpupgrade" -> connect_trojan_httpupgrade_tcp_outbound(o)
    [] Network(o) = "grpc" -> connect_trojan_grpc_tcp_outbound(o)
    [] Network(o) \in {"h2", "http"} -> connect_trojan_h2_tcp_outbound(o)
    [] Network(o) = "quic" -> connect_trojan_quic_tcp_outbound(o)
    [] OTHER -> IF o.tls # None THEN connect_trojan_tls_tcp_outbound(o)
                ELSE connect_target \o write_trojan_tcp_request

\* VLESS: the answer is read before the stream is handed over.
write_vless_tcp_request == <<Say>>
read_vless_response_header(timed) == <<Hear(timed)>>
VlessExchange(timed) == write_vless_tcp_request \o read_vless_response_header(timed)
connect_vless_h2_tcp_outbound(o) ==
  connect_http2_client(o) \o VlessExchange(FALSE) \o local_bridge_for_http2
connect_vless_quic_tcp_outbound(o) ==
  connect_quic_client_stream(o) \o VlessExchange(FALSE)
connect_vless_grpc_tcp_outbound(o) ==
  connect_grpc_client(o) \o VlessExchange(FALSE) \o vless_local_bridge_for_grpc
connect_vless_httpupgrade_tcp_outbound(o) ==
  IF o.tls # None
  THEN connect_vless_tls_stream(o) \o connect_httpupgrade_client \o VlessExchange(TRUE)
         \o relay_plain_to_tls
  ELSE connect_target \o connect_httpupgrade_client \o VlessExchange(TRUE)
connect_vless_websocket_tcp_outbound(o) ==
  (IF o.tls # None THEN connect_vless_tls_stream(o) ELSE connect_target)
    \o connect_websocket_client \o VlessExchange(TRUE) \o vless_local_bridge_for_websocket
connect_vless_tls_tcp_outbound(o) ==
  connect_vless_tls_stream(o) \o VlessExchange(TRUE)
    \o (IF o.method = "xtls-rprx-vision" THEN relay_plain_to_vless_vision ELSE relay_plain_to_tls)
VlessFlow(o) ==
  Check("unsupported", ~Blank(o.method) => /\ o.method = "xtls-rprx-vision"
                                           /\ o.tls # None
                                           /\ Network(o) = "tcp")
connect_vless_tcp_outbound(o) ==
  <<vless_outbound_server(o), vless_outbound_user_id(o), VlessFlow(o), KnownNetwork(o)>> \o
  CASE Network(o) = "ws" -> connect_vless_websocket_tcp_outbound(o)
    [] Network(o) = "httpupgrade" -> connect_vless_httpupgrade_tcp_outbound(o)
    [] Network(o) = "grpc" -> connect_vless_grpc_tcp_outbound(o)
    [] Network(o) \in {"h2", "http"} -> connect_vless_h2_tcp_outbound(o)
    [] Network(o) = "quic" -> connect_vless_quic_tcp_outbound(o)
    [] OTHER -> IF o.tls # None THEN connect_vless_tls_tcp_outbound(o)
                ELSE connect_target \o VlessExchange(TRUE)

\* VMess: the answer is read by the bridge.
write_vmess_request(o) == <<vmess_outbound_user_id(o), vmess_outbound_security(o), Say>>
connect_vmess_h2_tcp_outbound(o) ==
  connect_http2_client(o) \o write_vmess_request(o) \o local_bridge_for_vmess
connect_vmess_quic_tcp_outbound(o) ==
  connect_quic_client_stream(o) \o write_vmess_request(o) \o local_bridge_for_vmess
connect_vmess_grpc_tcp_outbound(o) ==
  connect_grpc_client(o) \o write_vmess_request(o) \o local_bridge_for_vmess
connect_vmess_httpupgrade_tcp_outbound(o) ==
  (IF o.tls # None THEN connect_vmess_tls_stream(o) ELSE connect_target)
    \o connect_httpupgrade_client \o write_vmess_request(o) \o local_bridge_for_vmess
connect_vmess_websocket_tcp_outbound(o) ==
  (IF o.tls # None THEN connect_vmess_tls_stream(o) ELSE connect_target)
    \o connect_websocket_client \o write_vmess_request(o) \o local_bridge_for_vmess
connect_vmess_tls_tcp_outbound(o) ==
  connect_vmess_tls_stream(o) \o write_vmess_request(o) \o local_bridge_for_vmess
connect_vmess_tcp_outbound(o) ==
  <<vmess_outbound_server(o), KnownNetwork(o)>> \o
  CASE Network(o) = "ws" -> connect_vmess_websocket_tcp_outbound(o)
    [] Network(o) = "httpupgrade" -> connect_vmess_httpupgrade_tcp_outbound(o)
    [] Network(o) = "grpc" -> connect_vmess_grpc_tcp_outbound(o)
    [] Network(o) \in {"h2", "http"} -> connect_vmess_h2_tcp_outbound(o)
    [] Network(o) = "quic" -> connect_vmess_quic_tcp_outbound(o)
    [] OTHER -> IF o.tls # None THEN connect_vmess_tls_tcp_outbound(o)
                ELSE connect_target \o write_vmess_request(o) \o local_bridge_for_vmess_tcp

-----------------------------------------------------------------------------
\* Datagrams: one is sent, and one answer waited for.
send_direct_udp == <<Dial, Say, Receive>>
read_socks5_reply_target == Hear(TRUE)
relay_socket_addr == Dial
parse_socks5_udp_packet == Local
send_socks5_udp(o) ==
  connect_proxy(o) \o negotiate_socks5
    \o <<Say, read_socks5_reply_target, relay_socket_addr, Say, Receive, parse_socks5_udp_packet,
          Dial>>
send_shadowsocks_udp_outbound(o) ==
  <<ShadowsocksMethod_parse(o), shadowsocks_outbound_password(o), shadowsocks_outbound_server(o),
    Dial, Say, Receive, Local, Dial>>
\* A socket's timeout is taken for "not yet" by the wait for the header.
read_vmess_response_header == <<Hear(FALSE)>>
send_vmess_udp_over_stream(o, timed) ==
  write_vmess_request(o) \o read_vmess_response_header \o <<Say, Hear(timed), Dial>>
send_vmess_udp_outbound(o) ==
  <<vmess_outbound_server(o), KnownNetwork(o)>> \o
  LET socket == IF o.tls # None THEN connect_vmess_tls_stream(o) ELSE connect_target
  IN  CASE Network(o) = "ws" ->
             socket \o connect_websocket_client \o send_vmess_udp_over_stream(o, TRUE)
        [] Network(o) = "httpupgrade" ->
             socket \o connect_httpupgrade_client \o send_vmess_udp_over_stream(o, TRUE)
        [] Network(o) = "grpc" ->
             connect_grpc_client(o) \o send_vmess_udp_over_stream(o, FALSE)
        [] Network(o) \in {"h2", "http"} ->
             connect_http2_client(o) \o send_vmess_udp_over_stream(o, FALSE)
        [] Network(o) = "quic" ->
             connect_quic_client_stream(o) \o send_vmess_udp_over_stream(o, FALSE)
        [] OTHER -> socket \o send_vmess_udp_over_stream(o, TRUE)

Protocol(o) == to_ascii_lowercase(o.protocol)

connect_tcp_outbound(o) ==
  CASE Protocol(o) = "freedom" -> connect_target
    [] Protocol(o) \in {"socks", "socks5"} -> connect_socks5(o)
    [] Protocol(o) = "http" -> connect_http(o)
    [] Protocol(o) = "shadowsocks" -> connect_shadowsocks_tcp_outbound(o)
    [] Protocol(o) = "trojan" -> connect_trojan_tcp_outbound(o)
    [] Protocol(o) = "vless" -> connect_vless_tcp_outbound(o)
    [] Protocol(o) = "vmess" -> connect_vmess_tcp_outbound(o)
    [] OTHER -> <<Check("unsupported", FALSE)>>

send_udp_outbound(o) ==
  CASE Protocol(o) = "freedom" -> send_direct_udp
    [] Protocol(o) \in {"socks", "socks5"} -> send_socks5_udp(o)
    [] Protocol(o) = "shadowsocks" -> send_shadowsocks_udp_outbound(o)
    [] Protocol(o) = "vmess" -> send_vmess_udp_outbound(o)
    [] OTHER -> <<Check("unsupported", FALSE)>>

-----------------------------------------------------------------------------
VARIABLES
  outbound, udp,  \* the outbound; whether a datagram is sent over it
  steps,          \* what the caller has still to do
  result,         \* what the caller got
  resets,         \* how often its datagram was answered with a reset
  worker,         \* the transport's worker
  ready,          \* the worker's word to the caller
  bridge,
  user,           \* whoever was given the stream
  server,         \* "answers", "silent" for good, "gone", or "resets" datagrams
  told            \* the server knows that no more will come

vars == <<outbound, udp, steps, result, resets, worker, ready, bridge, user, server, told>>

NoWorker == [state |-> "none", steps |-> <<>>, idle |-> FALSE]
NoBridge == [state |-> "none", tells |-> FALSE, header |-> "no", timed |-> FALSE,
             up |-> FALSE, down |-> FALSE]

Init ==
  /\ outbound \in Configs
  /\ udp \in BOOLEAN
  /\ steps = IF udp THEN send_udp_outbound(outbound) ELSE connect_tcp_outbound(outbound)
  /\ result = "none"
  /\ resets = 0
  /\ worker = NoWorker
  /\ ready = "none"
  /\ bridge = NoBridge
  /\ user = "none"
  /\ server = "answers"
  /\ told = FALSE

\* The connection, or what carries it, is no more.
Lost == server = "gone" \/ worker.state = "over"

\* How a step can end: "done", or an error.
Outcomes(step) ==
  CASE step.does = "check" -> {IF step.ok THEN "done" ELSE step.error}
    [] step.does = "dial" -> IF server = "gone" THEN {"error"} ELSE {"done", "error"}
    [] step.does \in {"say", "local"} -> {"done", "error"}
    [] step.does = "hear" ->
         (IF server = "answers" THEN {"done", "error"} ELSE {})
           \cup (IF step.timed \/ Lost THEN {"error"} ELSE {})
    [] step.does = "await" ->
         {"error"} \cup (CASE ready = "none" -> {}
                          [] ready = "ok" -> {"done"}
                          [] OTHER -> {ready})
    [] OTHER -> {}

Advance(outcome) ==
  IF outcome = "done"
  THEN steps' = Tail(steps) /\ UNCHANGED result
  ELSE steps' = <<>> /\ result' = outcome

Step ==
  /\ steps # <<>>
  /\ \E outcome \in Outcomes(Head(steps)) : Advance(outcome)
  /\ UNCHANGED <<outbound, udp, resets, worker, ready, bridge, user, server, told>>

\* Mutant: a reset is not counted.
ResetsWithoutEnd ==
  /\ steps # <<>> /\ Head(steps).does = "receive"
  /\ IF server = "resets"
     THEN UNCHANGED <<resets, steps, result>>
     ELSE /\ \E outcome \in (IF server = "answers" THEN {"done"} ELSE {}) \cup {"error"} :
               Advance(outcome)
          /\ UNCHANGED resets
  /\ UNCHANGED <<outbound, udp, worker, ready, bridge, user, server, told>>

\* An answer, a timeout, or a reset: the wait starts again, so often.
recv_udp_response ==
  /\ steps # <<>> /\ Head(steps).does = "receive"
  /\ IF server = "resets"
     THEN /\ resets' = resets + 1
          /\ IF resets' > MaxResets THEN Advance("error") ELSE UNCHANGED <<steps, result>>
     ELSE /\ \E outcome \in (IF server = "answers" THEN {"done"} ELSE {}) \cup {"error"} :
               Advance(outcome)
          /\ UNCHANGED resets
  /\ UNCHANGED <<outbound, udp, worker, ready, bridge, user, server, told>>

StartWorker ==
  /\ steps # <<>> /\ Head(steps).does = "start"
  /\ worker' = [state |-> "steps", steps |-> Head(steps).steps, idle |-> Head(steps).idle]
  /\ Advance("done")
  /\ UNCHANGED <<outbound, udp, resets, ready, bridge, user, server, told>>

\* The bridge takes a thread of the pool, which may have none left.
StartBridge ==
  /\ steps # <<>> /\ Head(steps).does = "bridge"
  /\ \/ /\ bridge' = [state |-> CASE Head(steps).header = "no" -> "runs"
                                  [] Head(steps).header = "at once" -> "waits"
                                  [] OTHER -> "idle",
                       tells |-> Head(steps).tells, header |-> Head(steps).header,
                       timed |-> Head(steps).timed, up |-> FALSE, down |-> FALSE]
        /\ Advance("done")
     \/ Advance("error") /\ UNCHANGED bridge
  /\ UNCHANGED <<outbound, udp, resets, worker, ready, user, server, told>>

Return ==
  /\ steps = <<>> /\ result = "none"
  /\ result' = "ok"
  /\ user' = IF udp THEN "none" ELSE "uses"
  /\ UNCHANGED <<outbound, udp, steps, resets, worker, ready, bridge, server, told>>

-----------------------------------------------------------------------------
\* The worker takes its own steps, whether the caller still waits or not. The
\* last of them makes the stream ready; a failure is the worker's last word.
WorkerStep ==
  /\ worker.state = "steps"
  /\ IF worker.steps = <<>>
     THEN worker' = [worker EXCEPT !.state = "relays"] /\ ready' = "ok"
     ELSE \E outcome \in Outcomes(Head(worker.steps)) :
            IF outcome = "done"
            THEN worker' = [worker EXCEPT !.steps = Tail(@)] /\ UNCHANGED ready
            ELSE worker' = [worker EXCEPT !.state = "over", !.steps = <<>>] /\ ready' = outcome
  /\ UNCHANGED <<outbound, udp, steps, result, resets, bridge, user, server, told>>

\* Nobody is left at the near end of the worker's stream.
Deserted ==
  /\ result # "none"
  /\ result = "ok" /\ ~udp =>
       IF bridge.state = "none" THEN user = "gone" ELSE bridge.state = "over"

\* The half of a worker that writes ends with what it is given, and says so.
write_h2_data ==
  /\ worker.state = "relays" /\ Deserted /\ ~told
  /\ told' = TRUE
  /\ UNCHANGED <<outbound, udp, steps, result, resets, worker, ready, bridge, user, server>>

\* The half that reads ends with the server's stream; a QUIC connection also
\* ends when the server is silent.
read_h2_data ==
  /\ worker.state = "relays"
  /\ server = "gone" \/ (worker.idle /\ server = "silent")
  /\ worker' = [worker EXCEPT !.state = "over"]
  /\ UNCHANGED <<outbound, udp, steps, result, resets, ready, bridge, user, server, told>>

-----------------------------------------------------------------------------
BridgeSet(b) ==
  /\ bridge' = b
  /\ UNCHANGED <<outbound, udp, steps, result, resets, worker, ready, user, server>>

\* The uploads begin, and the answer is waited for.
BridgeUsed ==
  /\ bridge.state = "idle" /\ user = "uses"
  /\ BridgeSet([bridge EXCEPT !.state = "waits"])
  /\ UNCHANGED told

\* The end of the uploads; one that waits for the answer does not see it.
BridgeUp ==
  /\ user = "gone" /\ ~bridge.up
  /\ bridge.state \in {"idle", "runs"} \/ (bridge.state = "waits" /\ bridge.header = "at once")
  /\ BridgeSet([bridge EXCEPT !.up = TRUE, !.state = IF @ = "idle" THEN "waits" ELSE @])
  /\ told' = (told \/ bridge.tells)

\* The answer, or the end of the stream instead of it.
BridgeHears ==
  /\ bridge.state = "waits"
  /\ \/ server = "answers" /\ BridgeSet([bridge EXCEPT !.state = "runs"])
     \/ /\ Lost
        /\ BridgeSet(IF bridge.header = "at once"
                     THEN [bridge EXCEPT !.state = "runs", !.down = TRUE]
                     ELSE [bridge EXCEPT !.state = "over"])
  /\ UNCHANGED told

BridgeDown ==
  /\ bridge.state = "runs" /\ ~bridge.down
  /\ Lost \/ bridge.timed
  /\ BridgeSet([bridge EXCEPT !.down = TRUE])
  /\ UNCHANGED told

\* Both directions are over, or a write failed.
BridgeEnds ==
  /\ bridge.state = "runs"
  /\ (bridge.up /\ bridge.down) \/ Lost
  /\ BridgeSet([bridge EXCEPT !.state = "over"])
  /\ UNCHANGED told

-----------------------------------------------------------------------------
\* Whoever has the stream is done with it.
UserGoes ==
  /\ user = "uses"
  /\ user' = "gone"
  /\ UNCHANGED <<outbound, udp, steps, result, resets, worker, ready, bridge, server, told>>

\* The server, or the way to it, fails.
ServerFails ==
  /\ server = "answers"
  /\ \/ server' \in {"silent", "gone"}
     \/ server' = "resets" /\ steps # <<>> /\ Head(steps).does = "receive"
  /\ UNCHANGED <<outbound, udp, steps, result, resets, worker, ready, bridge, user, told>>

\* A server that knows that no more will come ends its stream too.
ServerCloses ==
  /\ server = "answers" /\ told
  /\ server' = "gone"
  /\ UNCHANGED <<outbound, udp, steps, result, resets, worker, ready, bridge, user, told>>

Caller == Step \/ recv_udp_response \/ StartWorker \/ StartBridge \/ Return
Worker == WorkerStep \/ write_h2_data \/ read_h2_data
Relay == BridgeUp \/ BridgeHears \/ BridgeDown \/ BridgeEnds

Next ==
  \/ Caller \/ Worker \/ Relay
  \/ BridgeUsed \/ UserGoes \/ ServerFails \/ ServerCloses

Spec == Init /\ [][Next]_vars

\* The caller, the worker and the bridge are threads and tasks of their own;
\* each goes on while it can. A server that was told closes.
Fairness == WF_vars(Caller) /\ WF_vars(Worker) /\ WF_vars(Relay) /\ WF_vars(ServerCloses)

FairSpec == Spec /\ Fairness

\* What validation leaves to the connector: the name of a certificate, and the
\* method of an HTTP/2 request.
LeftToTheConnector(o) ==
  \/ o.tls # None /\ ~ValidName(o)
  \/ o.transport # None /\ o.transport.method = "bad method"

\* An outbound that validation accepts is one its connector can use: no connect
\* over it is refused for the sake of the configuration alone, and no datagram
\* either where the protocol carries datagrams.
AcceptedOutboundsWork ==
  validate_outbound(outbound) /\ ~LeftToTheConnector(outbound) =>
    /\ {result, ready} \cap {"invalid"} = {}
    /\ result = "unsupported" => udp /\ Protocol(outbound) \in {"http", "trojan", "vless"}

\* Where an answer is waited for without a timeout.
Untimed ==
  IF udp THEN Protocol(outbound) = "vmess"
  ELSE Protocol(outbound) = "vless" /\ Network(outbound) \in {"h2", "http", "grpc"}

\* Whatever the server does, a caller gets its stream, its datagram or an error;
\* the exceptions are the answers that are waited for without a timeout.
ConnectsReturn == []<>(Untimed \/ result # "none")

\* The server is silent for good, and somebody listens to it without a timeout.
Deaf ==
  /\ server = "silent"
  /\ \/ bridge.state = "waits"
     \/ bridge.state = "runs" /\ ~bridge.timed
     \/ worker.state \in {"steps", "relays"} /\ ~worker.idle
\* The bridges that do not say that the uploads are over.
Untold ==
  /\ bridge.state = "runs"
  /\ Protocol(outbound) \in {"trojan", "vless"}
  /\ Network(outbound) \in {"ws", "h2", "http"} \/ outbound.method = "xtls-rprx-vision"

\* Nothing works on for nobody: when the caller has failed, or the stream it
\* got is no longer used, the worker and the bridge come to an end, unless the
\* server is silent for good, or was never told.
NothingLeftBehind ==
  []<>(result \notin {"none", "ok"} \/ user = "gone" =>
         Deaf \/ Untold \/ (worker.state \in {"none", "over"} /\ bridge.state \in {"none", "over"}))

\* Every connect comes to an end, for its caller and for those it set to work.
ConnectsEnd == ConnectsReturn /\ NothingLeftBehind
=============================================================================
