--------------------------- MODULE MCCoreController ---------------------------
(***************************************************************************)
(* A small instance of CoreController: two inbounds, two users, and        *)
(* configs and deltas that between them take every path of apply_config,   *)
(* apply_routes and apply_user_delta. Beside it, the start of one inbound  *)
(* of every protocol. A behaviour is about one of the two, the other one   *)
(* rests.                                                                  *)
(***************************************************************************)
EXTENDS CoreAndStart

VARIABLE part

Users(u, v) == [x \in Uuids |-> IF x = "u" THEN u ELSE v]

In(shape, port, routes, users) ==
  [shape |-> shape, port |-> port, routes |-> routes, users |-> users]

Config(core, routes, a, b) ==
  [core |-> core, routes |-> routes,
   inbounds |-> [t \in Tags |-> IF t = "a" THEN a ELSE b]]

MCTags == {"a", "b"}
MCPorts == {"p1", "p2"}
MCShapes == {"vless", "shadowsocks", "hy2"}
MCTcp == {"vless", "shadowsocks"}
MCUdp == {"shadowsocks", "hy2"}
MCQuic == {"hy2"}
MCRoutes == {"r1", "r2", "bad"}
MCCores == {"k1", "k2"}
MCInvalid == {"bad"}
MCUuids == {"u", "v"}
MCRecords == {1, 2}
MCRevisions == {1, 2}

A == In("vless", "p1", "r1", Users(1, None))

MCConfigs ==
  { Config("k1", "r1", A, None),                                         \* the base
    Config("k1", "r1", In("vless", "p1", "r1", Users(1, 1)), None),      \* a user more
    Config("k1", "r2", A, None),                                         \* other routes
    Config("k1", "r1", A, In("hy2", "p2", "r1", Users(1, 1))),           \* a QUIC inbound more
    Config("k1", "r2", A, In("vless", "p2", "r2", Users(None, 2))),      \* a TCP inbound more
    Config("k1", "r1", In("vless", "p2", "r1", Users(2, None)), None),   \* moved
    Config("k1", "r1", In("shadowsocks", "p1", "r1", Users(1, None)), None), \* reshaped in place
    Config("k2", "r1", A, None),                                         \* another core section
    Config("k1", "r1", A, In("vless", "p1", "r1", NoUsers)),             \* two on one address
    Config("k1", "bad", A, None) }                                       \* fails validation

Delta(full, added, updated, deleted, base, revision) ==
  [full |-> full, added |-> added, updated |-> updated, deleted |-> deleted,
   base_revision |-> base, revision |-> revision]

MCDeltas ==
  { Delta(None, Users(None, 1), NoUsers, {}, None, None),          \* add v
    Delta(None, NoUsers, Users(2, None), {}, None, None),          \* update u
    Delta(None, NoUsers, Users(None, 1), {}, 1, 2),                \* update v from 1 to 2
    Delta(None, NoUsers, NoUsers, {"u"}, None, None),              \* delete u
    Delta(Users(1, None), NoUsers, NoUsers, {}, None, 1) }         \* full snapshot 1

-----------------------------------------------------------------------------
Bare(p, n, t) ==
  [tag |-> "tag", protocol |-> p, listen |-> "0.0.0.0", port |-> 1, users |-> "some",
   cipher |-> IF p = "shadowsocks" THEN "aes-128-gcm" ELSE None, flow |-> "", padding_scheme |-> {},
   network |-> n, path |-> None, host |-> None, service_name |-> None, proxy_protocol |-> FALSE,
   up_mbps |-> 0, down_mbps |-> 0, ignore_client_bandwidth |-> FALSE, obfs |-> None,
   obfs_password |-> 0, congestion_control |-> "", zero_rtt_handshake |-> FALSE, tls |-> t]

Reality == [dest |-> [host |-> "host", port |-> 443], server_port |-> None, private_key |-> "key",
            short_id |-> "id", xver |-> 0, mldsa65_seed |-> None]
Certificate == [server_name |-> "name", cert_file |-> "cert", key_file |-> "key", alpn |-> {},
                reject_unknown_sni |-> FALSE, reality |-> None]

\* Every protocol over every network, plain, behind a certificate and behind
\* REALITY.
Bases ==
  {Bare(p, n, t) :
     p \in {"socks", "http", "vless", "vmess", "trojan", "shadowsocks", "anytls", "tuic",
            "hysteria2", "mieru", "naive"},
     n \in {"tcp", "TCP", "tcp,udp", "ws", "httpupgrade", "grpc", "quic", "tuic", "hysteria2", "kcp"},
     t \in {None, Certificate, [Certificate EXCEPT !.reality = Reality]}}

\* The same with one more setting.
OneMore(i) ==
  {[i EXCEPT !.tag = ""], [i EXCEPT !.listen = ""], [i EXCEPT !.listen = "127.0.0.1"],
   [i EXCEPT !.port = 0], [i EXCEPT !.users = "none"], [i EXCEPT !.users = "blank"],
   [i EXCEPT !.cipher = ""], [i EXCEPT !.cipher = "aes-256-gcm"], [i EXCEPT !.cipher = "rot13"],
   [i EXCEPT !.flow = "xtls-rprx-vision"], [i EXCEPT !.flow = "other"],
   [i EXCEPT !.padding_scheme = {"stop=8"}], [i EXCEPT !.path = "/"], [i EXCEPT !.host = "host"],
   [i EXCEPT !.service_name = "name"], [i EXCEPT !.proxy_protocol = TRUE], [i EXCEPT !.up_mbps = 1],
   [i EXCEPT !.ignore_client_bandwidth = TRUE], [i EXCEPT !.obfs = "salamander"],
   [i EXCEPT !.obfs = "xor"], [i EXCEPT !.obfs_password = 3], [i EXCEPT !.obfs_password = 4],
   [i EXCEPT !.congestion_control = "New-Reno"], [i EXCEPT !.congestion_control = "vegas"],
   [i EXCEPT !.zero_rtt_handshake = TRUE]}
  \cup IF i.tls = None THEN {} ELSE
  {[i EXCEPT !.tls.server_name = ""], [i EXCEPT !.tls.cert_file = None], [i EXCEPT !.tls.key_file = ""],
   [i EXCEPT !.tls.alpn = {"h3"}], [i EXCEPT !.tls.alpn = {"h2"}],
   [i EXCEPT !.tls.reject_unknown_sni = TRUE]}
  \cup IF i.tls.reality = None THEN {} ELSE
  {[i EXCEPT !.tls.reality.dest.host = ""], [i EXCEPT !.tls.reality.dest.port = None],
   [i EXCEPT !.tls.reality.server_port = 443], [i EXCEPT !.tls.reality.private_key = "short"],
   [i EXCEPT !.tls.reality.short_id = "odd"], [i EXCEPT !.tls.reality.xver = 3],
   [i EXCEPT !.tls.reality.mldsa65_seed = "seed"]}

Policy == [handshake_secs |-> 4, connection_idle_secs |-> 300, buffer_size_kib |-> 4,
           sniffing_cache_millis |-> 200, connect_timeout_secs |-> 5]
Machine == [resolves |-> TRUE, v6 |-> TRUE, files |-> TRUE]
Case(i, p, h, b) == [inbound |-> i, policy |-> p, host |-> h, busy |-> b]

Rules == INSTANCE InboundConfig
Proper == {i \in Bases : Rules!validate(i)}

\* Two settings at once on what is accepted, one on what is not; every machine
\* and every policy for what is accepted.
MCCases ==
  {Case(i, Policy, Machine, {}) :
     i \in Bases \cup UNION {UNION {OneMore(j) : j \in OneMore(i)} : i \in Proper}}
  \cup {Case(i, Policy, h, b) :
          i \in Proper, h \in [resolves : BOOLEAN, v6 : BOOLEAN, files : BOOLEAN],
          b \in SUBSET {"tcp", "udp"}}
  \cup {Case(Bare("vless", "tcp", None), p, Machine, {}) :
          p \in {[Policy EXCEPT ![f] = 0] : f \in DOMAIN Policy}
                 \cup {[Policy EXCEPT !.connect_timeout_secs = s] : s \in {1, 60, 61}}}

-----------------------------------------------------------------------------
startVars == <<inbound, policy, host, busy, stage, at, unbound, tries, listener>>

StartRests ==
  /\ inbound = None /\ policy = None /\ host = None /\ busy = {} /\ stage = "none"
  /\ at = None /\ unbound = <<>> /\ tries = 0 /\ listener = None

MCInit ==
  \/ part = "core" /\ Init /\ StartRests
  \/ part = "start" /\ Init /\ Start!Init

MCNext ==
  /\ UNCHANGED part
  /\ \/ part = "core" /\ Next /\ UNCHANGED startVars
     \/ part = "start" /\ Start!Next /\ UNCHANGED vars

MCSpec == MCInit /\ [][MCNext]_<<part, vars, startVars>>
=============================================================================
