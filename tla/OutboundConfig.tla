--------------------------- MODULE OutboundConfig ---------------------------
(***************************************************************************)
(* What the configuration accepts as an outbound. A field of text is a     *)
(* word: None is a field that is not there, "" one of blanks only, and a   *)
(* word in capitals is another spelling of the word it is lowered to.      *)
(***************************************************************************)
EXTENDS Naturals, Sequences

CONSTANT None

Spellings == [TCP |-> "tcp", WS |-> "ws", TROJAN |-> "trojan", AUTO |-> "auto"]
to_ascii_lowercase(w) == IF w \in DOMAIN Spellings THEN Spellings[w] ELSE w

\* .as_deref().map(str::trim).filter(not empty).unwrap_or(default)
Or(w, default) == IF w \in {None, ""} THEN default ELSE w
Blank(w) == w \in {None, ""}

SomeUuids == {"uuid"}
is_supported_shadowsocks_cipher(w) == w \in {"aes-128-gcm", "aes-256-gcm", "chacha20-ietf-poly1305"}
parse_vless_outbound_uuid(w) == w \in SomeUuids

outbound_transport_network(o) ==
  IF o.transport = None THEN "tcp" ELSE Or(o.transport.network, "tcp")

\* The names of packet ciphers that VMess and QUIC share.
Ciphers == {"aes-128-gcm", "aes128-gcm", "chacha20-poly1305", "chacha20-ietf-poly1305"}

\* Whether the transport of outbound o fits the protocol and its network.
validate_outbound_transport(o, protocol) ==
  o.transport = None \/
  LET t == o.transport
      network == to_ascii_lowercase(outbound_transport_network(o))
      security == Or(t.quic_security, "none")
      header == Or(t.quic_header_type, "none")
  IN  /\ protocol \in {"vless", "trojan", "vmess"}
      /\ network \in {"tcp", "ws", "httpupgrade", "grpc", "h2", "http", "quic"}
      /\ network \notin {"ws", "httpupgrade", "h2", "http"} => Blank(t.path) /\ Blank(t.host)
      /\ network # "grpc" => Blank(t.service_name)
      /\ network \notin {"h2", "http"} => Blank(t.method) /\ t.headers = {}
      /\ network # "quic" => security = "none" /\ Blank(t.quic_key) /\ header = "none"
      /\ network = "quic" =>
           /\ security \in Ciphers \cup {"none"}
           /\ security = "none" => Blank(t.quic_key)
           /\ header = "none"
      /\ "bad header" \notin t.headers

\* Mutant: the flow of a VLESS outbound is not held against its network.
FlowOnAnyNetwork(o) ==
  /\ parse_vless_outbound_uuid(o.username)
  /\ ~Blank(o.method) => o.method = "xtls-rprx-vision" /\ o.tls # None

\* The user, and the flow, of a VLESS outbound.
vless_endpoint(o) ==
  /\ parse_vless_outbound_uuid(o.username)
  /\ ~Blank(o.method) => /\ o.method = "xtls-rprx-vision"
                         /\ outbound_transport_network(o) = "tcp"
                         /\ o.tls # None

\* The user, and the security, of a VMess outbound.
vmess_endpoint(o) ==
  /\ parse_vless_outbound_uuid(o.username)
  /\ to_ascii_lowercase(Or(o.method, "auto")) \in Ciphers \cup {"auto", "none"}

\* Whether outbound o has what its protocol needs, and nothing it cannot use.
validate_outbound_endpoint(o) ==
  LET protocol == to_ascii_lowercase(o.protocol)
  IN  /\ validate_outbound_transport(o, protocol)
      /\ o.address # ""
      /\ protocol # "freedom" => ~Blank(o.address) /\ o.port # None
      /\ protocol = "shadowsocks" => is_supported_shadowsocks_cipher(o.method) /\ ~Blank(o.password)
      /\ protocol = "trojan" => ~Blank(o.password)
      /\ protocol = "vless" => vless_endpoint(o)
      /\ protocol = "vmess" => vmess_endpoint(o)
      /\ o.tls # None => protocol \in {"trojan", "vless", "vmess"}

validate_outbound(o) ==
  /\ ~Blank(o.tag)
  /\ to_ascii_lowercase(o.protocol)
       \in {"freedom", "socks", "socks5", "http", "shadowsocks", "trojan", "vless", "vmess"}
  /\ validate_outbound_endpoint(o)
=============================================================================
