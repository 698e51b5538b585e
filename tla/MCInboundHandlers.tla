------------------------- MODULE MCInboundHandlers -------------------------
(***************************************************************************)
(* Each handler by itself, with tables that refuse as they please; and     *)
(* pairs of connections that share a table, with the table modelled.       *)
(***************************************************************************)
EXTENDS InboundHandlers

CONSTANTS c1, c2, near, far

Alone(kind, source) ==
  [kind |-> [c \in {c1} |-> kind], ip |-> [c \in {c1} |-> near],
   source |-> [c \in {c1} |-> source], table |-> Absent,
   events |-> {"silence", "leaving", "updates"}]

Pairs(table, kinds, ips, events) ==
  {[kind |-> [c \in {c1, c2} |-> IF c = c1 THEN kinds[1] ELSE kinds[2]],
    ip |-> [c \in {c1, c2} |-> IF c = c1 THEN near ELSE ip],
    source |-> [c \in {c1, c2} |-> near], table |-> table, events |-> events] : ip \in ips}

\* The global table of logins, for one address and with a shard that two addresses
\* fill; the table of Hysteria2; and the handshakes of a listener.
MCSettings ==
  {Alone(kind, source) : kind \in start_listener, source \in IpAddrs}
    \cup Pairs("auth", <<"shadowsocks", "naive_tcp">>, {near}, {})
    \cup Pairs("auth", <<"shadowsocks", "shadowsocks">>, {far}, {})
    \cup Pairs("auth", <<"hysteria2", "hysteria2">>, {near}, {"silence"})
    \cup Pairs("tls", <<"anytls_tls", "naive_quic">>, {near}, {})
=============================================================================
