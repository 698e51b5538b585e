---------------------------- MODULE InboundConfig ----------------------------
(***************************************************************************)
(* What the configuration accepts as an inbound. A field of text is a word *)
(* as in OutboundConfig. users is "none", "some", or "blank" when one of   *)
(* the users has no uuid; an obfs_password is its length; a dest is a host *)
(* with the port it spells out, or None.                                   *)
(***************************************************************************)
EXTENDS OutboundConfig

Streams == {"vless", "vmess", "trojan"}
Networks == {"tcp", "ws", "httpupgrade", "grpc"}

dest_has_explicit_port(dest) == dest.port # None
decode_reality_private_key(w) == w = "key"
decode_short_id(w) == w \in {"", "id"}

\* REALITY stands on VLESS over plain TCP, and needs a name, a place to send
\* strangers to, a key and a short id.
validate_reality_tls_config(protocol, network, tls) ==
  LET reality == tls.reality
  IN  /\ protocol = "vless"
      /\ network = "tcp"
      /\ ~Blank(tls.server_name)
      /\ ~Blank(reality.dest.host)
      /\ dest_has_explicit_port(reality.dest) \/ reality.server_port \notin {None, 0}
      /\ decode_reality_private_key(reality.private_key)
      /\ decode_short_id(reality.short_id)
      /\ reality.xver <= 2
      /\ Blank(reality.mldsa65_seed)

validate_tls_config(protocol, network, tls) ==
  tls = None \/
    /\ network \in Networks
    /\ IF tls.reality # None
       THEN validate_reality_tls_config(protocol, network, tls)
       ELSE /\ ~Blank(tls.cert_file) /\ ~Blank(tls.key_file)
            /\ tls.reject_unknown_sni => ~Blank(tls.server_name)

validate_quic_tls_config(tls) ==
  /\ tls # None
  /\ tls.reality = None
  /\ ~Blank(tls.cert_file) /\ ~Blank(tls.key_file)
  /\ tls.reject_unknown_sni => ~Blank(tls.server_name)

normalize_quic_congestion_control(w) ==
  CASE w = "New-Reno" -> "new_reno" [] w = "BBR" -> "bbr" [] OTHER -> w
is_supported_quic_congestion_control(w) ==
  normalize_quic_congestion_control(w) \in {"", "cubic", "bbr", "new_reno", "newreno", "reno"}

validate_tuic_transport_options(i) ==
  /\ is_supported_quic_congestion_control(i.congestion_control)
  /\ ~i.zero_rtt_handshake

\* Mutant: a password of any length will do.
AnyPassword(i) ==
  /\ is_supported_quic_congestion_control(i.congestion_control)
  /\ Blank(i.obfs) => i.obfs_password = 0
  /\ Blank(i.obfs) \/ i.obfs = "salamander"

validate_hysteria2_transport_options(i) ==
  /\ is_supported_quic_congestion_control(i.congestion_control)
  /\ \/ Blank(i.obfs) /\ i.obfs_password = 0
     \/ i.obfs = "salamander" /\ i.obfs_password >= 4

\* What belongs to one transport is refused on every other one.
validate_protocol_transport_fields(i) ==
  /\ ~i.proxy_protocol
  /\ i.protocol # "hysteria2" =>
       /\ i.up_mbps = 0 /\ i.down_mbps = 0 /\ ~i.ignore_client_bandwidth
       /\ Blank(i.obfs) /\ i.obfs_password = 0
  /\ i.congestion_control # "" => i.protocol \in {"tuic", "hysteria2"}
  /\ i.zero_rtt_handshake => i.protocol = "tuic"
  /\ ~Blank(i.path) \/ ~Blank(i.host) => i.protocol \in Streams /\ i.network \in {"ws", "httpupgrade"}
  /\ ~Blank(i.service_name) => i.protocol \in Streams /\ i.network = "grpc"

validate_protocol_scoped_fields(i) ==
  /\ ~Blank(i.cipher) => i.protocol = "shadowsocks"
  /\ i.padding_scheme # {} => i.protocol = "anytls"
  /\ validate_protocol_transport_fields(i)

validate_flow(i) ==
  ~Blank(i.flow) =>
    /\ i.protocol = "vless"
    /\ i.flow = "xtls-rprx-vision"
    /\ i.network = "tcp"
    /\ i.tls # None

naive_uses_quic(i) ==
  /\ i.protocol = "naive"
  /\ \/ to_ascii_lowercase(i.network) = "quic"
     \/ i.tls # None /\ \E a \in i.tls.alpn : to_ascii_lowercase(a) = "h3"

\* What the protocol of inbound i asks of its network, its TLS and its users.
ProtocolFits(i) ==
  LET tls == i.tls
      network == i.network
  IN  CASE i.protocol \in {"socks", "http"} -> network = "tcp" /\ tls = None
        [] i.protocol \in {"vless", "trojan"} ->
             network \in Networks /\ validate_tls_config(i.protocol, network, tls)
        [] i.protocol = "vmess" ->
             /\ network \in Networks /\ validate_tls_config(i.protocol, network, tls)
             /\ i.users # "none"
        [] i.protocol = "shadowsocks" ->
             /\ to_ascii_lowercase(network) \in {"tcp", "tcp,udp"} /\ tls = None
             /\ i.users # "none"
             /\ ~Blank(i.cipher) /\ is_supported_shadowsocks_cipher(i.cipher)
        [] i.protocol = "anytls" ->
             /\ network = "tcp" /\ validate_tls_config(i.protocol, network, tls)
             /\ i.users # "none"
        [] i.protocol = "mieru" ->
             to_ascii_lowercase(network) = "tcp" /\ tls = None /\ i.users # "none"
        [] i.protocol = "naive" ->
             /\ to_ascii_lowercase(network) \in {"tcp", "quic"} /\ tls # None
             /\ IF naive_uses_quic(i) THEN validate_quic_tls_config(tls)
                                      ELSE validate_tls_config(i.protocol, network, tls)
             /\ i.users # "none"
        [] i.protocol = "tuic" ->
             /\ network = "tuic"
             /\ validate_quic_tls_config(tls) /\ validate_tuic_transport_options(i)
        [] i.protocol = "hysteria2" ->
             /\ network \in {"hysteria", "hysteria2"}
             /\ validate_quic_tls_config(tls)
             /\ i.ignore_client_bandwidth => i.up_mbps = 0 /\ i.down_mbps = 0
             /\ validate_hysteria2_transport_options(i)

\* InboundConfig::validate
validate(i) ==
  /\ ~Blank(i.tag) /\ ~Blank(i.listen) /\ i.port # 0
  /\ i.users # "blank"
  /\ validate_protocol_scoped_fields(i)
  /\ validate_flow(i)
  /\ ProtocolFits(i)

\* validate_policy: the times that must not be zero, and the longest wait for
\* a connection.
validate_policy(p) ==
  /\ p.handshake_secs > 0 /\ p.connection_idle_secs > 0 /\ p.buffer_size_kib > 0
  /\ p.sniffing_cache_millis > 0
  /\ p.connect_timeout_secs \in 1..60
=============================================================================
