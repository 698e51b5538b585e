---------------------------- MODULE ListenerStart ----------------------------
(***************************************************************************)
(* From an inbound of the configuration to a listener: CoreConfig::validate *)
(* and the start_*_listener functions of service.rs, with the sockets of    *)
(* socket_bind.rs under them. The host may not resolve the address, may be  *)
(* without IPv6, may hold the address for another program that leaves or    *)
(* stays, and may be unable to read the certificate or the key.             *)
(***************************************************************************)
EXTENDS InboundConfig, FiniteSets

CONSTANTS
  Cases,      \* what is tried: an inbound, the policy beside it, the host
  MaxTries    \* binds tried before the deadline of the retries

VARIABLES
  inbound,    \* the inbound asked for
  policy,     \* the times asked for
  host,       \* [resolves, v6, files]: what the machine has
  busy,       \* the kinds of socket another program holds at the address
  stage,      \* where the start is
  at,         \* the address being bound, or None
  unbound,    \* the sockets still to be bound, in order
  tries,      \* binds tried for the first of them
  listener    \* what was started, or None

vars == <<inbound, policy, host, busy, stage, at, unbound, tries, listener>>

-----------------------------------------------------------------------------
\* The times a listener works with.
outbound_connect_timeout(p) ==
  IF p.connect_timeout_secs < 1 THEN 1 ELSE IF p.connect_timeout_secs > 60 THEN 60 ELSE p.connect_timeout_secs
connection_idle_timeout(p) == IF p.connection_idle_secs < 1 THEN 1 ELSE p.connection_idle_secs

reality_dest(dest, server_port) ==
  IF dest_has_explicit_port(dest) THEN dest ELSE [dest EXCEPT !.port = server_port]

\* The options of TLS that a listener on certificate files honours.
TlsUses == {"tls", "alpn", "reject_unknown_sni"}

\* What a listener is: the sockets it binds; whether it finds what it needs in
\* the configuration; whether it reads the certificate, and where ("" for not,
\* "thread" for only once it runs); what it speaks, and which options have a
\* say in it.
Listener(sockets, fits, reads, security, stream, uses) ==
  [sockets |-> sockets, fits |-> fits, reads |-> reads, security |-> security,
   stream |-> stream, uses |-> uses]

tls_acceptor_for(i) == IF i.tls = None THEN "" ELSE "start"
Security(i) == IF i.tls = None THEN "plain" ELSE "tls"
SniNamed(i) == i.tls # None /\ i.tls.reject_unknown_sni => ~Blank(i.tls.server_name)

start_grpc_transport_listener(i) ==
  Listener(<<"tcp">>, TRUE, IF i.tls = None THEN "" ELSE "thread", Security(i), "grpc",
           TlsUses \cup {"service_name"})

\* A listener on a TCP stream: over a WebSocket it looks at the path of the
\* upgrade, over HTTPUpgrade at path and host.
StreamListener(i, uses) ==
  Listener(<<"tcp">>, SniNamed(i), tls_acceptor_for(i), Security(i),
           IF i.network \in {"ws", "httpupgrade"} THEN i.network ELSE "tcp",
           uses \cup (IF i.tls = None THEN {} ELSE TlsUses)
                \cup (CASE i.network = "ws" -> {"path"}
                        [] i.network = "httpupgrade" -> {"path", "host"}
                        [] OTHER -> {}))

start_trojan_listener(i) ==
  IF i.network = "grpc" THEN start_grpc_transport_listener(i) ELSE StreamListener(i, {})

start_vmess_listener(i) ==
  IF i.network = "grpc" THEN start_grpc_transport_listener(i) ELSE StreamListener(i, {})

reality_gateway_config(i) ==
  LET reality == i.tls.reality
  IN  /\ decode_reality_private_key(reality.private_key)
      /\ decode_short_id(reality.short_id)
      /\ reality_dest(reality.dest, reality.server_port).port # None

start_vless_reality_listener(i) ==
  Listener(<<"tcp">>, reality_gateway_config(i), "", "reality", "tcp", {"tls", "reality", "flow"})

start_vless_listener(i) ==
  CASE i.network = "grpc" -> start_grpc_transport_listener(i)
    [] i.network # "grpc" /\ i.tls # None /\ i.tls.reality # None -> start_vless_reality_listener(i)
    [] OTHER -> StreamListener(i, IF i.tls # None /\ i.network = "tcp" THEN {"flow"} ELSE {})

start_anytls_listener(i) == StreamListener(i, {"padding_scheme"})

shadowsocks_udp_enabled(i) == to_ascii_lowercase(i.network) = "tcp,udp"
start_shadowsocks_listener(i) ==
  Listener(IF shadowsocks_udp_enabled(i) THEN <<"tcp", "udp">> ELSE <<"tcp">>,
           TRUE, "", "plain", "tcp", {"cipher"})

start_plain_listener(i) == Listener(<<"tcp">>, TRUE, "", "plain", "tcp", {})

\* apply_quic_congestion_control, with the default of the protocol for a blank
apply_quic_congestion_control(w) ==
  normalize_quic_congestion_control(Or(w, "bbr")) \in {"cubic", "bbr", "new_reno", "newreno", "reno"}

hysteria2_obfs_config(i) ==
  IF Blank(i.obfs) /\ i.obfs_password = 0 THEN None ELSE [kind |-> i.obfs, password |-> i.obfs_password]

\* The Salamander socket refuses a password shorter than four bytes.
SalamanderUdpSocket(obfs) == obfs = None \/ obfs.password >= 4

Hysteria2Bind(i) ==
  LET obfs == hysteria2_obfs_config(i)
  IN  /\ SniNamed(i)
      /\ apply_quic_congestion_control(i.congestion_control)
      /\ obfs # None => obfs.kind = "salamander"
      /\ SalamanderUdpSocket(obfs)

start_hysteria2_listener(i) ==
  Listener(<<"udp">>, i.tls # None /\ Hysteria2Bind(i), "start", "quic", "quic",
           TlsUses \cup {"up_mbps", "down_mbps", "ignore_client_bandwidth", "congestion_control",
                         "obfs", "obfs_password"})

TuicBind(i) == SniNamed(i) /\ apply_quic_congestion_control(i.congestion_control)

start_tuic_listener(i) ==
  Listener(<<"udp">>, i.tls # None /\ TuicBind(i), "start", "quic", "quic",
           TlsUses \cup {"congestion_control"})

bind_quic(i) == SniNamed(i)

start_naive_listener(i) ==
  IF naive_uses_quic(i)
  THEN Listener(<<"udp">>, i.tls # None /\ bind_quic(i), "start", "quic", "quic", TlsUses)
  ELSE Listener(<<"tcp">>, i.tls # None /\ SniNamed(i), "start", "tls", "tcp", TlsUses)

start_listener_handle(i) ==
  CASE i.protocol \in {"socks", "http", "mieru"} -> start_plain_listener(i)
    [] i.protocol = "vless" -> start_vless_listener(i)
    [] i.protocol = "vmess" -> start_vmess_listener(i)
    [] i.protocol = "trojan" -> start_trojan_listener(i)
    [] i.protocol = "shadowsocks" -> start_shadowsocks_listener(i)
    [] i.protocol = "anytls" -> start_anytls_listener(i)
    [] i.protocol = "tuic" -> start_tuic_listener(i)
    [] i.protocol = "hysteria2" -> start_hysteria2_listener(i)
    [] i.protocol = "naive" -> start_naive_listener(i)

\* What the types of config.rs give: a protocol is one of these, a time is a
\* number of seconds. None is not a listener.
Protocols == {"socks", "http", "vless", "vmess", "trojan", "shadowsocks", "anytls", "tuic",
              "hysteria2", "mieru", "naive"}
CasesAreTyped ==
  /\ MaxTries \in Nat
  /\ \A c \in Cases :
       /\ c.inbound.protocol \in Protocols
       /\ c.policy.connection_idle_secs \in Nat
       /\ start_listener_handle(c.inbound) # None

-----------------------------------------------------------------------------
Init ==
  /\ \E c \in Cases : inbound = c.inbound /\ policy = c.policy /\ host = c.host /\ busy = c.busy
  /\ stage = "new" /\ at = None /\ unbound = <<>> /\ tries = 0 /\ listener = None

Going(s) == stage' = s /\ UNCHANGED <<inbound, policy, host, busy>>

Validate ==
  /\ stage = "new"
  /\ Going(IF validate(inbound) /\ validate_policy(policy) THEN "accepted" ELSE "refused")
  /\ UNCHANGED <<at, unbound, tries, listener>>

\* resolve_listen_addr: every way to write "any address" becomes ::
resolve_listen_addr(w) == IF w \in {"", "0.0.0.0", "::", "[::]"} THEN "::" ELSE w

\* The start function runs up to its first bind.
Start ==
  /\ stage = "accepted"
  /\ LET l == start_listener_handle(inbound)
     IN  IF host.resolves /\ l.fits /\ (inbound.protocol = "naive" => host.files)
         THEN /\ Going("binding")
              /\ at' = resolve_listen_addr(inbound.listen)
              /\ unbound' = l.sockets /\ listener' = l
         ELSE Going("failed") /\ UNCHANGED <<at, unbound, listener>>
  /\ UNCHANGED tries

\* bind_ipv6_*: without IPv6 the bind of :: falls back to 0.0.0.0.
should_fallback_to_ipv4 ==
  /\ stage = "binding" /\ at = "::" /\ ~host.v6
  /\ at' = "0.0.0.0"
  /\ Going("binding") /\ UNCHANGED <<unbound, tries, listener>>

Bindable == stage = "binding" /\ (at = "::" => host.v6)

\* The socket is bound, and the next one, or what follows the sockets, is on.
Bound ==
  /\ Bindable /\ Head(unbound) \notin busy
  /\ unbound' = Tail(unbound) /\ tries' = 0
  /\ at' = resolve_listen_addr(inbound.listen)
  /\ Going(IF Len(unbound) = 1 THEN "bound" ELSE "binding")
  /\ UNCHANGED listener

\* A TCP address in use is tried again until the deadline, a UDP one is not.
bind_tcp_socket_with_retry ==
  /\ Bindable /\ Head(unbound) \in busy
  /\ IF Head(unbound) = "tcp" /\ tries < MaxTries
     THEN tries' = tries + 1 /\ Going("binding")
     ELSE Going("failed") /\ UNCHANGED tries
  /\ UNCHANGED <<at, unbound, listener>>

\* server_config_from_files after the sockets. The thread of a gRPC listener
\* that cannot read its files ends, and nobody is told.
Load ==
  /\ stage = "bound"
  /\ Going(CASE listener.reads = "" \/ host.files -> "listening"
             [] listener.reads = "start" /\ ~host.files -> "failed"
             [] listener.reads = "thread" /\ ~host.files -> "deaf")
  /\ UNCHANGED <<at, unbound, tries, listener>>

\* The other program leaves the address.
Release ==
  /\ stage = "binding" /\ busy # {}
  /\ busy' = {}
  /\ UNCHANGED <<inbound, policy, host, stage, at, unbound, tries, listener>>

\* The start has come to its end.
Done == stage \in {"refused", "failed", "deaf", "listening"} /\ UNCHANGED vars

Next ==
  \/ Validate \/ Start \/ should_fallback_to_ipv4 \/ Bound \/ bind_tcp_socket_with_retry
  \/ Load \/ Release \/ Done

Spec == Init /\ [][Next]_vars
-----------------------------------------------------------------------------
\* The options of inbound i that are set.
SetOptions(i) ==
  {f \in {"cipher", "flow", "path", "host", "service_name", "obfs", "congestion_control"} : ~Blank(i[f])}
  \cup {f \in {"up_mbps", "down_mbps", "obfs_password"} : i[f] > 0}
  \cup {f \in {"proxy_protocol", "ignore_client_bandwidth", "zero_rtt_handshake"} : i[f]}
  \cup (IF i.padding_scheme = {} THEN {} ELSE {"padding_scheme"})
  \cup (IF i.tls = None THEN {}
        ELSE {"tls"} \cup (IF i.tls.alpn = {} THEN {} ELSE {"alpn"})
                     \cup (IF i.tls.reject_unknown_sni THEN {"reject_unknown_sni"} ELSE {})
                     \cup (IF i.tls.reality = None THEN {} ELSE {"reality"}))

\* Options that validation lets through and the listener does nothing with:
\* the host of a WebSocket inbound, and ALPN and the check of the name beside
\* REALITY.
Idle(i) ==
  (IF i.network = "ws" THEN {"host"} ELSE {})
  \cup (IF i.tls # None /\ i.tls.reality # None THEN {"alpn", "reject_unknown_sni"} ELSE {})

\* What the inbound asks its clients to speak.
Asked(i) ==
  CASE i.protocol \in {"hysteria2", "tuic"} \/ naive_uses_quic(i) -> "quic"
    [] i.tls = None -> "plain"
    [] i.tls # None /\ i.tls.reality # None -> "reality"
    [] OTHER -> "tls"

\* What only the machine can be blamed for.
HostFails ==
  \/ ~host.resolves
  \/ listener # None /\ \E k \in 1..Len(unbound) : unbound[k] \in busy
  \/ inbound.tls # None /\ ~host.files

\* AcceptedInboundsServe: an inbound that InboundConfig::validate accepts is
\* never refused by its start function for anything but the machine it runs
\* on: an address that is still taken, a name that does not resolve, a
\* certificate that cannot be read. Once it listens it speaks the security it
\* was configured with, every option set has a say in it (but for the idle
\* ones above), and the times it works with are the policy's.
AcceptedInboundsServe ==
  /\ stage \in {"failed", "deaf"} => HostFails
  /\ stage = "failed" /\ listener # None /\ host.files => tries = MaxTries \/ Head(unbound) = "udp"
  /\ stage = "listening" =>
       /\ listener.security = Asked(inbound)
       /\ SetOptions(inbound) \subseteq listener.uses \cup Idle(inbound)
       /\ outbound_connect_timeout(policy) = policy.connect_timeout_secs
       /\ connection_idle_timeout(policy) = policy.connection_idle_secs
=============================================================================
