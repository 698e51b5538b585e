--------------------------- MODULE InboundHandlers ---------------------------
(***************************************************************************)
(* What every inbound protocol does with a connection between its accept   *)
(* and its relay: the tables of failing addresses, the TLS or QUIC         *)
(* handshake, the upgrade, the source rule, the credentials, the second    *)
(* look at the user table, the device guard, the connect to the target,    *)
(* the answer, and who owns the guard while the bytes flow.                *)
(*                                                                         *)
(* A handler is a record: the order of its steps, and what sets it apart.  *)
(* Each kind of step is one action, taken at the handler's position. The   *)
(* relay itself is TcpRelay and UdpSessions; here it may end at any time.  *)
(***************************************************************************)
EXTENDS ClientFailureBackoff, Sequences

CONSTANTS
  Conns,
  Settings,        \* what a behaviour is about: the table that is modelled, the handler,
                   \* the address and the source of each connection, and the events that
                   \* may happen to them
  BlockedSources,  \* addresses a source rule of the routes refuses
  Slots            \* connections a QUIC listener takes at once

Tasks == {"handler", "stream"}

\* A handler of a plain TCP connection, wrapped by the authentication backoff:
\*   steps     in the order of the code;
\*   own       how many of them the connection's own task takes: the others are
\*             taken by a task for each stream of a connection that carries many;
\*   timed     the reads that are given up after a time;
\*   refusals  what the reader of the request refuses it for;
\*   connects  what a connect to the target may fail with;
\*   relays    what the relay may end with;
\*   records   when the outcome is told to the table: at the return of the handler,
\*             at the authentication, or never;
\*   knows     whether it is told the client's address;
\*   must      a user that is gone at the second look is an error;
\*   watches   the client is watched while the target is being connected;
\*   detaches  the relay is handed to the pool with the guard, and the handler
\*             returns;
\*   udp       who relays datagrams: nobody, the handler, or the pool;
\*   joins     ends of a connection that wait for its streams;
\*   fatal     a stream that fails ends its connection.
Plain ==
  [steps |-> <<"auth_backoff", "source", "auth", "lookup", "guard", "connect", "answer",
               "relay">>,
   own |-> 8, timed |-> {}, refusals |-> {}, connects |-> {}, relays |-> {"ok", "error"},
   records |-> "return", knows |-> TRUE, must |-> FALSE, watches |-> FALSE,
   detaches |-> FALSE, udp |-> "nobody", joins |-> {}, fatal |-> FALSE]

WithSteps(handler, steps) == [handler EXCEPT !.steps = steps, !.own = Len(steps)]

Upgraded(handler) ==
  WithSteps(handler, <<"auth_backoff", "upgrade">> \o Tail(handler.steps))

OverTls(handler) ==
  WithSteps(handler, <<"auth_backoff", "tls_backoff", "tls">> \o Tail(handler.steps))

\* The streams of a gRPC connection reach their handler without backoff and without
\* an address.
OverGrpc(handler) ==
  [handler EXCEPT !.steps = <<"tls", "upgrade">> \o Tail(handler.steps), !.own = 2,
                  !.timed = {}, !.records = "never", !.knows = FALSE]

\* What the readers of requests refuse them for: credentials, a user that is not
\* known, or the flow of the account. Listeners were started with users, else SOCKS5
\* and HTTP ask nobody who they are. Mieru reads on until something decodes.
socks5_read_request == {"auth", "user"}
http_read_request == {"auth"}
shadowsocks_read_request == {"user"}
vmess_read_request == {"auth", "user"}
trojan_read_request == {"user"}
validate_request_flow == {"flow"}
vless_read_request == {"user"} \cup validate_request_flow
anytls_read_auth == {"user"}
mieru_accept == {}
authenticate_http3 == {"auth"}
tuic_authenticate == {"auth", "user"}
naive_parse_request == {"auth"}

\* What connects fail with: an error, a name that is refused, a blocked target, or
\* the refusal of an upstream, as it came or with a text around it. Over QUIC a
\* blocked target is no failure.
connect_tcp_with_decision == {"error", "name", "outbound", "route"}
socks5_connect == {"error", "name", "outbound", "route"}
vmess_connect_for_request == {"error", "name", "outbound", "route"}
naive_connect_remote == {"error", "name", "outbound", "route"}
connect_trojan_direct_target == {"error", "name"}
connect_trojan_route_tcp_outbound == {"error", "wrapped"}
connect_trojan_routed_tcp ==
  connect_trojan_direct_target \cup connect_trojan_route_tcp_outbound \cup {"route"}
connect_vless_route_tcp_outbound == {"error", "wrapped"}
vless_connect_for_request == {"error", "name", "route"} \cup connect_vless_route_tcp_outbound
hysteria2_connect == {"error", "name", "wrapped", "ok"}
tuic_connect == {"error", "name", "outbound", "ok"}

\* What is done for each stream of a connection that carries many.
handle_syn == <<"connect", "relay">>
handle_mieru_session == <<"request", "guard", "connect", "answer", "relay">>
handle_tcp_stream == <<"request", "connect", "answer", "relay">>
handle_connect_stream == <<"request", "connect", "relay">>
handle_h2_request ==
  <<"source", "auth_backoff", "auth", "lookup", "guard", "connect", "answer", "relay">>
handle_h3_request == handle_h2_request

Multiplexed(handler, own, stream) ==
  [handler EXCEPT !.steps = own \o stream, !.own = Len(own)]

socks5 ==
  [Plain EXCEPT !.refusals = socks5_read_request, !.connects = socks5_connect,
                !.udp = "handler", !.relays = @ \cup {"outbound", "name"}]

http_proxy ==
  [Plain EXCEPT !.refusals = http_read_request, !.connects = connect_tcp_with_decision]

shadowsocks ==
  [WithSteps(Plain, <<"auth_backoff", "source", "auth", "guard", "connect", "relay">>) EXCEPT
     !.refusals = shadowsocks_read_request, !.connects = connect_tcp_with_decision]

vmess_tcp ==
  [Plain EXCEPT !.refusals = vmess_read_request, !.connects = vmess_connect_for_request,
                !.udp = "handler", !.relays = @ \cup {"outbound", "name"}]
vmess_websocket == Upgraded(vmess_tcp)
vmess_tls == OverTls(vmess_tcp)
vmess_tls_websocket == OverTls(vmess_websocket)
vmess_grpc == OverGrpc(vmess_tcp)

trojan_tcp ==
  [Plain EXCEPT !.timed = {"auth"}, !.refusals = trojan_read_request,
                !.connects = connect_trojan_routed_tcp, !.udp = "handler",
                !.relays = @ \cup {"outbound", "name"}]
trojan_httpupgrade == Upgraded(trojan_tcp)

trojan_websocket ==
  [WithSteps(trojan_tcp, <<"auth_backoff", "upgrade", "source", "auth", "lookup", "guard",
                           "closed", "connect", "answer", "relay">>) EXCEPT
     !.timed = {"upgrade", "auth"}, !.watches = TRUE, !.detaches = TRUE, !.udp = "pool"]

trojan_tls == [OverTls(trojan_tcp) EXCEPT !.timed = {"tls", "auth"}, !.detaches = TRUE]
trojan_tls_httpupgrade ==
  [OverTls(trojan_httpupgrade) EXCEPT !.timed = {"tls", "auth"}, !.detaches = TRUE]
trojan_tls_websocket == [OverTls(trojan_httpupgrade) EXCEPT !.timed = {"tls", "auth"}]
trojan_grpc == OverGrpc(trojan_tcp)

vless_tcp ==
  [WithSteps(Plain, Tail(Plain.steps)) EXCEPT
     !.refusals = vless_read_request, !.connects = vless_connect_for_request,
     !.records = "never", !.udp = "handler", !.relays = @ \cup {"wrapped", "name"}]

vless_httpupgrade ==
  [WithSteps(vless_tcp, <<"auth_backoff", "upgrade">> \o vless_tcp.steps) EXCEPT
     !.timed = {"auth"}, !.records = "return"]

vless_websocket ==
  [WithSteps(vless_httpupgrade, <<"auth_backoff", "upgrade", "source", "auth", "lookup", "guard",
                                  "closed", "connect", "answer", "relay">>) EXCEPT
     !.timed = {}, !.watches = TRUE, !.detaches = TRUE]

vless_tls ==
  [WithSteps(vless_tcp, <<"auth_backoff", "tls_backoff", "tls">> \o vless_tcp.steps) EXCEPT
     !.timed = {"tls", "auth"}, !.records = "return", !.detaches = TRUE]
vless_tls_httpupgrade ==
  [OverTls(vless_httpupgrade) EXCEPT !.timed = {"tls", "auth"}, !.detaches = TRUE]
vless_vision == [vless_tls EXCEPT !.detaches = FALSE]
vless_tls_websocket == [OverTls(vless_httpupgrade) EXCEPT !.timed = {"tls", "auth"}]

vless_reality ==
  [WithSteps(vless_tcp, <<"tls">> \o vless_tcp.steps) EXCEPT !.timed = {"tls", "auth"}]

vless_grpc ==
  [OverGrpc(vless_tcp) EXCEPT !.steps = <<"tls", "upgrade">> \o vless_tcp.steps,
                              !.detaches = TRUE]

\* One TCP connection, many streams: the guard belongs to the connection.
anytls ==
  [Multiplexed(Plain, <<"auth_backoff", "source", "auth", "guard">>, handle_syn) EXCEPT
     !.refusals = anytls_read_auth, !.connects = connect_tcp_with_decision,
     !.udp = "handler", !.relays = @ \cup {"outbound", "name"},
     !.joins = {"ok", "error"}, !.fatal = TRUE]

\* A bridge over the loopback interface hides the client's address.
anytls_tls ==
  [Multiplexed(anytls, <<"auth_backoff", "tls_backoff", "tls", "source", "auth", "guard">>,
               handle_syn) EXCEPT !.timed = {"tls"}, !.knows = FALSE]

\* The guard belongs to the session.
mieru ==
  [Multiplexed(Plain, <<"auth_backoff", "source", "auth">>, handle_mieru_session) EXCEPT
     !.timed = {"auth"}, !.refusals = mieru_accept, !.connects = connect_tcp_with_decision,
     !.udp = "handler", !.relays = @ \cup {"outbound", "name"}, !.joins = {"ok"}]

hysteria2 ==
  [Multiplexed(Plain, <<"slot", "source", "auth_backoff", "tls", "auth", "guard">>,
               handle_tcp_stream) EXCEPT
     !.timed = {"tls", "auth"}, !.refusals = authenticate_http3,
     !.connects = hysteria2_connect, !.records = "auth"]

tuic ==
  [Multiplexed(Plain, <<"slot", "source", "tls", "auth", "guard">>, handle_connect_stream) EXCEPT
     !.refusals = tuic_authenticate, !.connects = tuic_connect, !.records = "never"]

\* Every request of an HTTP/2 or HTTP/3 connection is authenticated.
naive_tcp ==
  [Multiplexed(Plain, <<"source", "tls_backoff", "tls", "upgrade">>, handle_h2_request) EXCEPT
     !.refusals = naive_parse_request, !.connects = naive_connect_remote,
     !.records = "auth", !.must = TRUE]

naive_quic ==
  Multiplexed(naive_tcp, <<"slot", "source", "tls_backoff", "tls", "upgrade">>,
              handle_h3_request)

Handlers ==
  [socks5 |-> socks5, http_proxy |-> http_proxy, shadowsocks |-> shadowsocks,
   vmess_tcp |-> vmess_tcp, vmess_websocket |-> vmess_websocket, vmess_tls |-> vmess_tls,
   vmess_tls_websocket |-> vmess_tls_websocket, vmess_grpc |-> vmess_grpc,
   trojan_tcp |-> trojan_tcp, trojan_httpupgrade |-> trojan_httpupgrade,
   trojan_websocket |-> trojan_websocket, trojan_tls |-> trojan_tls,
   trojan_tls_httpupgrade |-> trojan_tls_httpupgrade,
   trojan_tls_websocket |-> trojan_tls_websocket, trojan_grpc |-> trojan_grpc,
   vless_tcp |-> vless_tcp, vless_httpupgrade |-> vless_httpupgrade,
   vless_websocket |-> vless_websocket, vless_tls |-> vless_tls,
   vless_tls_httpupgrade |-> vless_tls_httpupgrade, vless_vision |-> vless_vision,
   vless_tls_websocket |-> vless_tls_websocket, vless_reality |-> vless_reality,
   vless_grpc |-> vless_grpc, anytls |-> anytls, anytls_tls |-> anytls_tls, mieru |-> mieru,
   hysteria2 |-> hysteria2, tuic |-> tuic, naive_tcp |-> naive_tcp, naive_quic |-> naive_quic]

\* The handler a listener gives its connections to. gRPC is modelled over TLS, which
\* it may lack; a REALITY listener looks at the network only to leave gRPC aside.
Networks == {"tcp", "ws", "httpupgrade", "grpc"}

start_grpc_transport_listener(protocol) ==
  [trojan |-> "trojan_grpc", vmess |-> "vmess_grpc", vless |-> "vless_grpc"][protocol]

start_trojan_listener(network, tls) ==
  CASE network = "grpc" -> start_grpc_transport_listener("trojan")
    [] network = "ws" -> IF tls THEN "trojan_tls_websocket" ELSE "trojan_websocket"
    [] network = "httpupgrade" -> IF tls THEN "trojan_tls_httpupgrade" ELSE "trojan_httpupgrade"
    [] network = "tcp" -> IF tls THEN "trojan_tls" ELSE "trojan_tcp"

start_vmess_listener(network, tls) ==
  CASE network = "grpc" -> start_grpc_transport_listener("vmess")
    [] network \in {"ws", "httpupgrade"} ->
         IF tls THEN "vmess_tls_websocket" ELSE "vmess_websocket"
    [] network = "tcp" -> IF tls THEN "vmess_tls" ELSE "vmess_tcp"

start_vless_reality_listener == "vless_reality"

vless_tls_listener(network, vision) ==
  CASE network = "ws" -> "vless_tls_websocket"
    [] network = "httpupgrade" -> "vless_tls_httpupgrade"
    [] network = "tcp" -> IF vision THEN "vless_vision" ELSE "vless_tls"

vless_plain_listener(network) ==
  CASE network = "ws" -> "vless_websocket"
    [] network = "httpupgrade" -> "vless_httpupgrade"
    [] network = "tcp" -> "vless_tcp"

start_vless_listener(network, tls, reality, vision) ==
  IF network = "grpc" THEN start_grpc_transport_listener("vless")
  ELSE IF reality THEN start_vless_reality_listener
  ELSE IF tls THEN vless_tls_listener(network, vision)
  ELSE vless_plain_listener(network)

start_anytls_listener(tls) == IF tls THEN "anytls_tls" ELSE "anytls"
start_naive_listener(quic) == IF quic THEN "naive_quic" ELSE "naive_tcp"
start_socks_listener == "socks5"
start_http_listener == "http_proxy"
start_shadowsocks_listener == "shadowsocks"
start_mieru_listener == "mieru"
start_hysteria2_listener == "hysteria2"
start_tuic_listener == "tuic"

start_listener ==
  {start_trojan_listener(n, tls) : n \in Networks, tls \in BOOLEAN}
    \cup {start_vmess_listener(n, tls) : n \in Networks, tls \in BOOLEAN}
    \cup {start_vless_listener(n, tls, r, v) :
             n \in Networks, tls \in BOOLEAN, r \in BOOLEAN, v \in BOOLEAN}
    \cup {start_anytls_listener(tls) : tls \in BOOLEAN}
    \cup {start_naive_listener(quic) : quic \in BOOLEAN}
    \cup {start_socks_listener, start_http_listener, start_shadowsocks_listener,
          start_mieru_listener, start_hysteria2_listener, start_tuic_listener}

\* The connections of a setting are of handlers of this module, from known addresses.
ASSUME SettingsAssumption ==
  \A s \in Settings :
    /\ DOMAIN s.kind \subseteq Conns
    /\ \A c \in DOMAIN s.kind : s.kind[c] \in DOMAIN Handlers /\ s.ip[c] \in IpAddrs

VARIABLES
  setting,   \* the member of Settings this behaviour is about
  users,     \* whether the user is in the table of the listener
  at,        \* per connection and task: the index of its step, 0 when it does not run
  held,      \* per connection: the tasks that own a device guard of it
  client,    \* per connection: the client talks, is silent for good, or is gone
  authed,    \* per connection: the credentials were accepted
  lost,      \* per connection: the second look did not find the user
  blame,     \* per connection: why its last run was held against its address
  entries,   \* the table that is modelled
  recent     \* per address: the ages of its last failures, the latest first, since
             \* the last success

handlers_vars == <<setting, users, at, held, client, authed, lost, blame, entries, recent>>
known == <<setting, users, client>>
tables == <<entries, recent>>

Kind(c) == Handlers[setting.kind[c]]
Ip(c) == setting.ip[c]
Live == DOMAIN setting.kind
Idle == [handler |-> 0, stream |-> 0]

\* A connection that carries streams is served after its own steps, and may have to
\* wait for its streams before it returns.
StepOf(c, t) ==
  LET n == at[c][t] IN
  IF n = 0 THEN "none"
  ELSE IF t = "stream" \/ n <= Kind(c).own THEN Kind(c).steps[n]
  ELSE IF n = Kind(c).own + 1 THEN "serving"
  ELSE IF n = Kind(c).own + 2 THEN "closing" ELSE "failing"

Reads == {"tls", "upgrade", "auth", "request"}
Refusals == {"auth", "user", "flow", "source", "device", "route", "outbound", "wrapped", "name"}
Results == Refusals \cup {"ok", "error"}

ASSUME ResultsAssumption == Absent \notin Results

\* The words of an error's text that its reader looks for, for refusals: other errors
\* are of a kind that is never counted. The text around an upstream's refusal says
\* "route"; a name is one whose address is private, and which happens to contain such
\* a word.
Words ==
  [auth |-> {"auth"}, user |-> {"user"}, flow |-> {}, source |-> {"route"},
   device |-> {"device limit", "user"}, route |-> {"route"}, outbound |-> {"auth"},
   wrapped |-> {"auth", "route"}, name |-> {"user"}]

should_record_tcp_auth_failure(words) ==
  words \cap {"route", "device limit"} = {} /\ words \cap {"auth", "user"} # {}

HandlersTypeOK ==
  /\ setting \in Settings
  /\ users \in BOOLEAN
  /\ \A c \in Live :
       /\ at[c].handler \in 0 .. Kind(c).own + 3
       /\ at[c].stream \in 0 .. Len(Kind(c).steps)
       /\ held[c] \subseteq Tasks
       /\ client[c] \in {"talks", "silent", "gone"}
       /\ authed[c] \in BOOLEAN /\ lost[c] \in BOOLEAN
       /\ blame[c] \in Results \cup {Absent}
  /\ entries \in Tables
  /\ recent \in [IpAddrs -> [1 .. Threshold -> 0 .. Window + 1]]

\* The last failures of an address: none that counts, one now, and a tick later.
NoFailures == [n \in 1 .. Threshold |-> Window + 1]
FailedNow(ages) == [n \in 1 .. Threshold |-> IF n = 1 THEN 0 ELSE ages[n - 1]]
Older(ages) == [n \in 1 .. Threshold |-> Least(ages[n] + 1, Window + 1)]

HandlersInit ==
  /\ setting \in Settings
  /\ users = TRUE
  /\ at = [c \in Conns |-> Idle]
  /\ held = [c \in Conns |-> {}]
  /\ client = [c \in Conns |-> "gone"]
  /\ authed = [c \in Conns |-> FALSE]
  /\ lost = [c \in Conns |-> FALSE]
  /\ blame = [c \in Conns |-> Absent]
  /\ entries = Empty
  /\ recent = [ip \in IpAddrs |-> NoFailures]

\* What a task tells a table about the connection's address. A table that is not
\* the modelled one keeps no state here, and may refuse whom it wants.
Nothing == <<"auth", "nothing">>

Tell(c, note) ==
  CASE note[1] # setting.table \/ note[2] = "nothing" -> UNCHANGED tables
    [] note = <<setting.table, "success">> ->
         /\ entries' = record_success(entries, Ip(c))
         /\ recent' = [recent EXCEPT ![Ip(c)] = NoFailures]
    [] note = <<setting.table, "failure">> ->
         /\ entries' \in record_failure(entries, Ip(c))
         /\ recent' = [recent EXCEPT ![Ip(c)] = FailedNow(@)]

\* What the wrapper tells when its handler returns.
ReturnNote(c, result) ==
  IF Kind(c).records # "return" \/ result = "error" THEN Nothing
  ELSE IF result = "ok" THEN <<"auth", "success">>
  ELSE IF should_record_tcp_auth_failure(Words[result]) THEN <<"auth", "failure">>
  ELSE Nothing

\* The tasks end, with what their step has told already. What they own is dropped.
End(c, tasks, result, said) ==
  LET note == IF said # Nothing \/ "handler" \notin tasks THEN said
              ELSE ReturnNote(c, result)
  IN  /\ at' = [at EXCEPT ![c] = [t \in Tasks |-> IF t \in tasks THEN 0 ELSE @[t]]]
      /\ held' = [held EXCEPT ![c] = @ \ tasks]
      /\ blame' = [blame EXCEPT ![c] = IF note = <<"auth", "failure">> THEN result ELSE Absent]
      /\ Tell(c, note)
      /\ UNCHANGED <<known, authed, lost>>

\* A task is over. The end of a stream is the end of its connection when its failure
\* is fatal, or when the connection waits for nothing else: then a session of Mieru
\* that fails that late is the failure of the connection.
OverSaying(c, t, result, said) ==
  LET stage == StepOf(c, "handler")
      fatal == Kind(c).fatal /\ result # "ok" /\ stage = "serving"
      shown == IF fatal \/ (stage = "closing" /\ ~Kind(c).fatal) THEN result
               ELSE IF stage = "failing" THEN "error" ELSE "ok"
  IN  IF t = "stream" /\ (fatal \/ stage \in {"closing", "failing"})
      THEN End(c, Tasks, shown, said)
      ELSE End(c, {t}, result, said)

Over(c, t, result) == OverSaying(c, t, result, Nothing)

Advance(c, t) == at' = [at EXCEPT ![c][t] = @ + 1]
others == <<known, held, authed, lost, blame, tables>>

-----------------------------------------------------------------------------
\* The environment: connections, what clients do, the clock, and user updates.

Accept(c) ==
  /\ at[c] = Idle
  /\ at' = [at EXCEPT ![c].handler = 1]
  /\ client' = [client EXCEPT ![c] = "talks"]
  /\ authed' = [authed EXCEPT ![c] = FALSE]
  /\ lost' = [lost EXCEPT ![c] = FALSE]
  /\ blame' = [blame EXCEPT ![c] = Absent]
  /\ UNCHANGED <<setting, users, held, tables>>

FallSilent(c) ==
  /\ "silence" \in setting.events
  /\ at[c] # Idle /\ client[c] = "talks"
  /\ client' = [client EXCEPT ![c] = "silent"]
  /\ UNCHANGED <<setting, users, at, held, authed, lost, blame, tables>>

Leave(c) ==
  /\ "leaving" \in setting.events
  /\ at[c] # Idle /\ client[c] # "gone"
  /\ client' = [client EXCEPT ![c] = "gone"]
  /\ UNCHANGED <<setting, users, at, held, authed, lost, blame, tables>>

UpdateUsers ==
  /\ "updates" \in setting.events
  /\ users' = ~users
  /\ UNCHANGED <<setting, at, held, client, authed, lost, blame, tables>>

Tick ==
  /\ setting.table # Absent
  /\ entries' = Aged(entries)
  /\ recent' = [ip \in IpAddrs |-> Older(recent[ip])]
  /\ UNCHANGED <<known, at, held, authed, lost, blame>>

-----------------------------------------------------------------------------
\* The steps of a handler.

\* A QUIC listener takes as many connections as it has slots; Hysteria2 takes fewer
\* that are not logged in, and fewer still while the machine is busy.
Slotted == {c \in Live : Kind(c).steps[1] = "slot" /\ at[c].handler > 1}

TakeSlot(c) ==
  /\ StepOf(c, "handler") = "slot"
  /\ \/ Cardinality(Slotted) < Slots /\ Advance(c, "handler") /\ UNCHANGED others
     \/ /\ Cardinality(Slotted) >= Slots \/ setting.kind[c] = "hysteria2"
        /\ Over(c, "handler", "error")

\* is_blocked at the door. The refusal itself is not counted.
CheckBackoff(c, t, role) ==
  /\ StepOf(c, t) = (IF role = "tls" THEN "tls_backoff" ELSE "auth_backoff")
  /\ \/ /\ role = setting.table => ~is_blocked(entries, Ip(c))
        /\ Advance(c, t)
        /\ entries' = IF role = setting.table THEN Checked(entries, Ip(c)) ELSE entries
        /\ UNCHANGED <<known, held, authed, lost, blame, recent>>
     \/ /\ role = setting.table => is_blocked(entries, Ip(c))
        /\ Over(c, t, "error")

\* ensure_source_ip_allowed: an address that is not known passes.
CheckSource(c, t) ==
  /\ StepOf(c, t) = "source"
  /\ IF Kind(c).knows /\ setting.source[c] \in BlockedSources
     THEN Over(c, t, "source")
     ELSE Advance(c, t) /\ UNCHANGED others

\* What a finished read tells, at once.
Said(c, step, outcome) ==
  IF step = "tls" /\ "tls_backoff" \in {Kind(c).steps[n] : n \in 1 .. Kind(c).own}
  THEN <<"tls", outcome>>
  ELSE IF step = "auth" /\ Kind(c).records = "auth" THEN <<"auth", outcome>>
  ELSE Nothing

\* A read waits for the client, but a request of a stream of Naive is there when its
\* task begins.
Waits(c, t) == t = "handler" \/ Kind(c).records # "auth"
Talks(c, t) == Waits(c, t) => client[c] = "talks"

ReadSucceeds(c, t) ==
  /\ StepOf(c, t) \in Reads
  /\ Talks(c, t)
  /\ StepOf(c, t) = "auth" => users
  /\ Advance(c, t)
  /\ authed' = [authed EXCEPT ![c] = @ \/ StepOf(c, t) = "auth"]
  /\ Tell(c, Said(c, StepOf(c, t), "success"))
  /\ UNCHANGED <<known, held, lost, blame>>

CredentialsRefused(c, t) ==
  /\ StepOf(c, t) = "auth"
  /\ Talks(c, t)
  /\ \E refusal \in Kind(c).refusals : OverSaying(c, t, refusal, Said(c, "auth", "failure"))

\* What was read makes no sense. Only a handshake is counted for it.
ReadFails(c, t) ==
  /\ StepOf(c, t) \in Reads
  /\ Talks(c, t)
  /\ OverSaying(c, t, "error",
                IF StepOf(c, t) = "tls" THEN Said(c, "tls", "failure") ELSE Nothing)

\* The client is gone. Over QUIC a handshake that ends so is counted too.
ReadEnds(c, t) ==
  /\ StepOf(c, t) \in Reads
  /\ Waits(c, t) /\ client[c] = "gone"
  /\ OverSaying(c, t, "error",
                IF StepOf(c, t) = "tls" /\ Kind(c).steps[1] = "slot"
                THEN Said(c, "tls", "failure") ELSE Nothing)

\* Mutant: only the handshake is given up.
HandshakeTimesOut(c, t) ==
  /\ StepOf(c, t) \in {"tls"} \cap Kind(c).timed
  /\ client[c] = "silent"
  /\ OverSaying(c, t, "error", Said(c, "tls", "failure"))

\* Whether the load of the machine is above a limit: it may be anything.
cpu_timeout_backoff_active == BOOLEAN

\* A read that is given up. Hysteria2 counts it while the machine is busy.
ReadTimesOut(c, t) ==
  /\ StepOf(c, t) \in Reads \cap Kind(c).timed
  /\ client[c] = "silent"
  /\ \E busy \in cpu_timeout_backoff_active :
       OverSaying(c, t, "error",
                  IF StepOf(c, t) = "tls" /\ Said(c, "tls", "failure") # Nothing
                  THEN Said(c, "tls", "failure")
                  ELSE IF busy /\ setting.kind[c] = "hysteria2" THEN <<"auth", "failure">>
                  ELSE Nothing)

\* request_user: the table may have changed since the credentials were accepted.
LookUpUser(c, t) ==
  /\ StepOf(c, t) = "lookup"
  /\ IF ~users /\ Kind(c).must
     THEN Over(c, t, "error")
     ELSE /\ Advance(c, t)
          /\ lost' = [lost EXCEPT ![c] = ~users]
          /\ UNCHANGED <<known, held, authed, blame, tables>>

\* acquire_user_session: without a user there is nothing to hold.
AcquireGuard(c, t) ==
  /\ StepOf(c, t) = "guard"
  /\ \/ /\ Advance(c, t)
        /\ held' = IF lost[c] THEN held ELSE [held EXCEPT ![c] = @ \cup {t}]
        /\ UNCHANGED <<known, authed, lost, blame, tables>>
     \/ /\ ~lost[c]
        /\ Over(c, t, "device")

\* peer_closed_nonblocking, before the target is connected.
LookForClose(c, t) ==
  /\ StepOf(c, t) = "closed"
  /\ IF client[c] = "gone" THEN Over(c, t, "ok") ELSE Advance(c, t) /\ UNCHANGED others

Connect(c, t) ==
  /\ StepOf(c, t) = "connect"
  /\ \/ Advance(c, t) /\ UNCHANGED others
     \/ \E result \in Kind(c).connects : Over(c, t, result)
     \/ Kind(c).watches /\ client[c] = "gone" /\ Over(c, t, "ok")

\* Mutant: the guard is dropped by the handler that returns.
DetachWithoutGuard(c) ==
  /\ at' = [at EXCEPT ![c] = [handler |-> 0, stream |-> Len(Kind(c).steps)]]
  /\ held' = [held EXCEPT ![c] = {}]
  /\ Tell(c, ReturnNote(c, "ok"))
  /\ UNCHANGED <<known, authed, lost, blame>>

\* The relay is given to the pool together with the guard, and the handler returns. A
\* gRPC stream does the same; there the task that goes on is still called its stream.
Detach(c) ==
  /\ at' = [at EXCEPT ![c] = [handler |-> 0, stream |-> Len(Kind(c).steps)]]
  /\ held' = [held EXCEPT ![c] = IF "handler" \in @ THEN {"stream"} ELSE {}]
  /\ Tell(c, ReturnNote(c, "ok"))
  /\ UNCHANGED <<known, authed, lost, blame>>

\* A request for datagrams goes to their relay without a connect.
Associate(c, t) ==
  /\ StepOf(c, t) = "connect" /\ Kind(c).udp # "nobody"
  /\ IF Kind(c).udp = "pool" THEN Detach(c)
     ELSE /\ at' = [at EXCEPT ![c][t] = Len(Kind(c).steps)]
          /\ UNCHANGED others

Answer(c, t) ==
  /\ StepOf(c, t) = "answer"
  /\ \/ IF Kind(c).detaches /\ t = "handler"
        THEN Detach(c)
        ELSE Advance(c, t) /\ UNCHANGED others
     \/ client[c] = "gone" /\ Over(c, t, "error")

\* A REALITY hello without the right key: the connection is relayed to the site that
\* is imitated, for nobody.
FallBack(c) ==
  /\ setting.kind[c] = "vless_reality" /\ StepOf(c, "handler") = "tls"
  /\ client[c] = "talks"
  /\ at' = [at EXCEPT ![c].handler = Len(Kind(c).steps)]
  /\ UNCHANGED others

RelayEnds(c, t) ==
  /\ StepOf(c, t) = "relay"
  /\ \E result \in Kind(c).relays : Over(c, t, result)

OpenStream(c) ==
  /\ StepOf(c, "handler") = "serving"
  /\ client[c] = "talks" /\ at[c].stream = 0
  /\ at' = [at EXCEPT ![c].stream = Kind(c).own + 1]
  /\ UNCHANGED others

\* The connection ends: its client closed it or broke it, nothing was sent for too
\* long, or the user was revoked. AnyTLS connects its streams in the same task.
StopServing(c) ==
  /\ StepOf(c, "handler") = "serving"
  /\ Kind(c).fatal => StepOf(c, "stream") # "connect"
  /\ \E result \in {"ok", "error"} :
       /\ result = "ok" => client[c] # "talks" \/ ~users
       /\ IF at[c].stream # 0 /\ result \in Kind(c).joins
          THEN /\ at' = [at EXCEPT ![c].handler = @ + IF result = "ok" THEN 1 ELSE 2]
               /\ UNCHANGED others
          ELSE Over(c, "handler", result)

Step(c, t) ==
  \/ t = "handler" /\ TakeSlot(c)
  \/ \E role \in {"auth", "tls"} : CheckBackoff(c, t, role)
  \/ CheckSource(c, t)
  \/ ReadSucceeds(c, t) \/ CredentialsRefused(c, t)
  \/ ReadFails(c, t) \/ ReadEnds(c, t) \/ ReadTimesOut(c, t)
  \/ LookUpUser(c, t)
  \/ AcquireGuard(c, t)
  \/ LookForClose(c, t)
  \/ Connect(c, t) \/ Associate(c, t)
  \/ Answer(c, t)

HandlersNext ==
  \/ Tick
  \/ UpdateUsers
  \/ \E c \in Live :
       \/ Accept(c) \/ FallSilent(c) \/ Leave(c)
       \/ FallBack(c) \/ OpenStream(c) \/ StopServing(c)
       \/ \E t \in Tasks : Step(c, t) \/ RelayEnds(c, t)

\* A task that can go on does: reads fail when their client is gone or their time is
\* over, and a connect has a timeout.
Fairness == \A c \in Conns, t \in Tasks : WF_handlers_vars(c \in Live /\ Step(c, t))

HandlersSpec == HandlersInit /\ [][HandlersNext]_handlers_vars /\ Fairness

-----------------------------------------------------------------------------
\* A connection is held against its address for its credentials, or for a handshake
\* or a login that Hysteria2 waited for in vain; never for a full device limit, a
\* source rule, a blocked target or a flow; and a TCP handler that accepted the
\* credentials holds only what an upstream or a name resolution refused against it
\* (service.rs should_record_tcp_auth_failure reads the texts of errors of all layers).
NotBlamed ==
  \A c \in Live :
    /\ blame[c] \notin {"device", "source", "route", "wrapped", "flow"}
    /\ blame[c] = "error" => setting.kind[c] = "hysteria2" /\ ~authed[c]
    /\ authed[c] /\ Kind(c).records = "return" => blame[c] \in {Absent, "outbound", "name"}

\* An address is blocked only after as many failures as the threshold, counted within
\* one window and without a success of it in between (abuse.rs record_failure_at),
\* whatever other connections of it did meanwhile.
BlockedForFailures ==
  [][\A ip \in IpAddrs :
       ~is_blocked(entries, ip) /\ is_blocked(entries', ip)
         => recent'[ip][Threshold] <= Window]_handlers_vars

\* An address is shut out for its failures only, and what is counted is the client's
\* doing.
ShutOutForCause == []NotBlamed /\ BlockedForFailures

\* A relay of an accepted user runs under a device guard of it, whoever runs it and
\* whatever has returned before, except that of a user removed between its
\* authentication and the second look, which has none. Streams outlive a QUIC
\* connection only until they notice.
DeviceIsHeld ==
  \A c \in Live, t \in Tasks :
    /\ StepOf(c, t) = "relay" /\ authed[c] /\ ~lost[c]
    /\ t = "stream" /\ Kind(c).steps[Kind(c).own] = "guard" => at[c].handler # 0
    => held[c] # {}

Prelude(c, t) == StepOf(c, t) \notin {"none", "serving", "closing", "failing", "relay"}

\* A handler that bounds each of its reads lets a silent client go, or has gone on to
\* serve it: a client that connects and says no more cannot keep its task for ever.
SilentClientsEnd ==
  \A c \in Conns :
    /\ c \in Live /\ Prelude(c, "handler") /\ client[c] = "silent"
    /\ Reads \cap {Kind(c).steps[n] : n \in 1 .. Kind(c).own} \subseteq Kind(c).timed
    ~> ~Prelude(c, "handler")

\* Nothing that is done for a client before its relay outlives it for ever, in any
\* handler, whatever else is going on.
GoneClientsEnd ==
  \A c \in Conns, t \in Tasks :
    c \in Live /\ Prelude(c, t) /\ client[c] = "gone" ~> ~Prelude(c, t)

\* No task outlives its client: neither one that has gone nor, where the reads
\* are bounded, one that has fallen silent.
HandlersEnd == SilentClientsEnd /\ GoneClientsEnd
=============================================================================
