------------------------------ MODULE Datagrams ------------------------------
(***************************************************************************)
(* Packets carried in datagrams: by Hysteria2 and TUIC, which cut a packet *)
(* up when it does not fit and put it together again in a store of         *)
(* fragments, and by SOCKS5 and Shadowsocks, where a packet is a datagram. *)
(*                                                                         *)
(* A datagram is lost, repeated or overtaken, but it is not underway for   *)
(* longer than Lifetime; a sender does not come round to the same packet   *)
(* id while a datagram or a fragment with it may still be there.           *)
(***************************************************************************)
EXTENDS Requests

CONSTANTS
  Sessions, PacketIds,      \* ids are taken modulo PacketIds, for 2^16
  PayloadSizes, MaxSizes,   \* of bytes in a packet, in a datagram
  MaxSends, MaxTime,
  Lifetime, Expiry,         \* Expiry for UDP_FRAGMENT_IDLE_TIMEOUT_MS
  MaxFragments,             \* for u8::MAX
  HYSTERIA2_MAX_FRAGMENT_SETS, TUIC_MAX_FRAGMENT_SETS, UDP_MAX_REASSEMBLED_BYTES

VARIABLES
  protocol,
  sent,        \* every packet given to the sender
  flying,      \* datagrams, with the time they left
  fragments,   \* incomplete packets by session and id
  receiver,    \* "open", or "failed" when the store refused a datagram
  full,        \* the refused one began a packet, and there were too many
  received,    \* the packets taken out
  now

vars == <<protocol, sent, flying, fragments, receiver, full, received, now>>

Nowhere == Target(<<>>, 0)

\* A parsed datagram; its fragment is the only one when its count is 1.
UdpDatagram(session, id, fragment, count, target, data) ==
  [good |-> TRUE, session |-> session, id |-> id, fragment |-> fragment, count |-> count,
   target |-> target, data |-> data]
NoDatagram == [UdpDatagram(0, 0, 0, 0, Nowhere, <<>>) EXCEPT !.good = FALSE]
TargetOf(a) == Target(a.host, a.port)

-----------------------------------------------------------------------------
(* Hysteria2.                                                              *)
encode_udp_datagram(session, id, fragment, count, address, data) ==
  <<session, id, fragment, count>> \o append_varint(Len(address)) \o address \o data
encoded_udp_datagram_len(address, n) == 4 + quic_varint_len(Len(address)) + Len(address) + n

parse_udp_datagram(b) ==
  LET len == read_varint(b, 5)
      end == len.next + len.value
      a == parse_target_address(SubSeq(b, len.next, end - 1))
  IN IF Len(b) < 4 \/ len.next = 0 \/ len.value = 0 \/ Len(b) < end - 1 \/ a.is = "bad" THEN NoDatagram
     ELSE UdpDatagram(b[1], b[2], b[3], b[4], TargetOf(a), From(b, end))

\* The pieces of a packet, none when it cannot be sent.
Cut(data, room) ==
  LET pieces == IF room <= 0 THEN <<>> ELSE Pieces(data, room) IN
  IF Len(pieces) > MaxFragments THEN <<>> ELSE pieces

send_udp_datagram_fragments(max_size, session, id, t, data) ==
  LET address == format_socket_addr(t)
      pieces == Cut(data, max_size - encoded_udp_datagram_len(address, 0))
  IN {encode_udp_datagram(session, id, i - 1, Len(pieces), address, pieces[i]) : i \in DOMAIN pieces}

-----------------------------------------------------------------------------
(* TUIC. Another implementation names the target in the first fragment     *)
(* only.                                                                   *)
VERSION == 5
COMMAND_PACKET == 2
COMMAND_DISSOCIATE == 3
COMMAND_HEARTBEAT == 4

encode_udp_packet(session, id, count, fragment, t, data) ==
  <<VERSION, COMMAND_PACKET, session, id, count, fragment>> \o u16(Len(data)) \o encode_address(t) \o data
encoded_udp_packet_len(t, n) == 8 + encoded_address_len(t) + n

parse_udp_packet(b) ==
  LET a == parse_address_from(b, 9) IN
  IF Len(b) < 8 \/ a.is = "bad" THEN NoDatagram
  ELSE IF Len(b) - (a.next - 1) # PortAt(b, 7) THEN NoDatagram
  ELSE UdpDatagram(b[3], b[4], b[6], b[5], TargetOf(a), From(b, a.next))

\* The other commands carry no packet.
parse_udp_command(b) ==
  IF Len(b) < 2 \/ b[1] # VERSION \/ b[2] # COMMAND_PACKET THEN NoDatagram ELSE parse_udp_packet(b)

send_udp_packet_fragments(max_size, session, id, t, data) ==
  LET pieces == Cut(data, max_size - encoded_udp_packet_len(t, 0)) IN
  {encode_udp_packet(session, id, Len(pieces), i - 1, t, pieces[i]) : i \in DOMAIN pieces}

foreign_udp_packet_fragments(max_size, session, id, t, data) ==
  LET pieces == Cut(data, max_size - encoded_udp_packet_len(t, 0)) IN
  {encode_udp_packet(session, id, Len(pieces), i - 1, IF i = 1 THEN t ELSE Nowhere, pieces[i]) : i \in DOMAIN pieces}
foreign_heartbeat == <<VERSION, COMMAND_HEARTBEAT>>

-----------------------------------------------------------------------------
(* SOCKS5 and Shadowsocks. A Shadowsocks packet is sealed under a salt.    *)
UdpSalt == 3
Only(a, b) == IF a.is = "bad" THEN NoDatagram ELSE UdpDatagram(0, 0, 0, 1, TargetOf(a), From(b, a.next))

ss_encode_udp_packet(source, data) == Clear(<<UdpSalt>>) \o Seal(UdpSalt, encode_target(source) \o data)
send_shadowsocks_udp_outbound(t, data) == Clear(<<UdpSalt>>) \o Seal(UdpSalt, ss_encode_socks_target(t) \o data)

Unsealed(cells) == Open(From(cells, 2))
receive_shadowsocks_udp_outbound(cells) ==
  IF Len(cells) <= 1 \/ ~Opens(Value(cells, 1), From(cells, 2)) THEN NoDatagram
  ELSE Only(parse_request_payload(Unsealed(cells)), Unsealed(cells))
read_udp_request(cells) ==
  IF Len(cells) <= 2 \/ ~Opens(Value(cells, 1), From(cells, 2)) THEN NoDatagram
  ELSE Only(parse_request_payload(Unsealed(cells)), Unsealed(cells))

-----------------------------------------------------------------------------
(* The store: what it keeps and what comes out of it, a packet, nothing or *)
(* an error.                                                               *)
\* Mutant: a set is kept to the end of the moment it expires in.
prune_later(store, time) ==
  [key \in {k \in DOMAIN store : time - store[k].created <= Expiry} |-> store[key]]

prune_expired(store, time) ==
  [key \in {k \in DOMAIN store : time - store[k].created < Expiry} |-> store[key]]

Without(store, key) == [k \in DOMAIN store \ {key} |-> store[k]]
Kept(store) == [store |-> store, is |-> "nothing", packet |-> NoDatagram]
Refuses(store) == [store |-> store, is |-> "error", packet |-> NoDatagram]
Out(store, packet) == [store |-> store, is |-> "packet", packet |-> packet]

\* A part that is there already is replaced.
Filled(set, m) ==
  LET there == m.fragment \in DOMAIN set.parts IN
  [set EXCEPT !.parts = (m.fragment :> m.data) @@ @,
              !.bytes = (IF there THEN @ - Len(set.parts[m.fragment]) ELSE @) + Len(m.data),
              !.received = (IF there THEN @ - 1 ELSE @) + 1,
              !.target = IF m.target = Nowhere THEN @ ELSE m.target]

Assembled(set) == FoldLeft(LAMBDA s, i : s \o set.parts[i - 1], <<>>, [i \in 1..set.count |-> i])

Push(store, m, time, max_sets, Agrees(_, _)) ==
  LET kept == prune_expired(store, time)
      key == <<m.session, m.id>>
      set == IF key \in DOMAIN kept THEN kept[key]
             ELSE [target |-> m.target, count |-> m.count, parts |-> <<>>, created |-> time,
                   bytes |-> 0, received |-> 0]
      next == Filled(set, m)
  IN IF m.count = 0 \/ m.fragment >= m.count THEN Refuses(store)
     ELSE IF m.count = 1 THEN Out(store, m)
     ELSE IF key \notin DOMAIN kept /\ Cardinality(DOMAIN kept) >= max_sets THEN Refuses(kept)
     ELSE IF set.count # m.count \/ ~Agrees(set, m) \/ next.bytes > UDP_MAX_REASSEMBLED_BYTES
     THEN Refuses(Without(kept, key))
     ELSE IF next.received # next.count \/ next.target = Nowhere THEN Kept((key :> next) @@ kept)
     ELSE Out(Without(kept, key), UdpDatagram(m.session, m.id, 0, 1, next.target, Assembled(next)))

hysteria2_push_with_now(store, m, time) ==
  Push(store, m, time, HYSTERIA2_MAX_FRAGMENT_SETS, LAMBDA set, x : set.target = x.target)
tuic_push_with_now(store, m, time) ==
  Push(store, m, time, TUIC_MAX_FRAGMENT_SETS,
       LAMBDA set, x : Nowhere \in {set.target, x.target} \/ set.target = x.target)

-----------------------------------------------------------------------------
(* The protocols: what the sender puts out, what the receiver makes of it. *)
Protocols ==
  {"hysteria2", "tuic", "tuic foreign", "tuic stream", "socks5 request", "socks5 answer",
   "shadowsocks request", "shadowsocks answer"}
Stored == {"hysteria2", "tuic", "tuic foreign", "tuic stream"}

Sources == {Target(<<1, 2>>, 9), Target(<<1, Colon, 2, Colon, 3>>, 6)}
Targets == Sources \cup {Target(<<5, 6, 7>>, 9)}
Ends(p) == IF p \in {"hysteria2", "tuic", "socks5 answer", "shadowsocks answer"} THEN Sources ELSE Targets

SendDatagrams(p, max_size, session, id, t, data) ==
  CASE p = "hysteria2" -> send_udp_datagram_fragments(max_size, session, id, t, data)
    [] p = "tuic" -> send_udp_packet_fragments(max_size, session, id, t, data)
    [] p = "tuic foreign" -> foreign_udp_packet_fragments(max_size, session, id, t, data) \cup {foreign_heartbeat}
    [] p = "tuic stream" -> {encode_udp_packet(session, id, 1, 0, t, data)}
    [] p = "socks5 request" -> {encode_socks5_udp_packet(t, data)}
    [] p = "socks5 answer" -> {encode_udp_response(t, data)}
    [] p = "shadowsocks request" -> {send_shadowsocks_udp_outbound(t, data)}
    [] p = "shadowsocks answer" -> {ss_encode_udp_packet(t, data)}

ParseDatagram(p, b) ==
  CASE p = "hysteria2" -> parse_udp_datagram(b)
    [] p \in {"tuic", "tuic foreign", "tuic stream"} -> parse_udp_command(b)
    [] p = "socks5 request" -> Only(parse_udp_request(b), b)
    [] p = "socks5 answer" -> Only(parse_socks5_udp_packet(b), b)
    [] p = "shadowsocks request" -> read_udp_request(b)
    [] p = "shadowsocks answer" -> receive_shadowsocks_udp_outbound(b)

PushDatagram(p, store, m, time) ==
  CASE p = "hysteria2" -> hysteria2_push_with_now(store, m, time)
    [] p \in {"tuic", "tuic foreign", "tuic stream"} -> tuic_push_with_now(store, m, time)
    [] OTHER -> Out(store, m)

-----------------------------------------------------------------------------
Init ==
  /\ protocol \in Protocols
  /\ sent = {} /\ flying = {} /\ fragments = <<>>
  /\ receiver = "open" /\ full = FALSE /\ received = {} /\ now = 0

\* The sender counts the packets of a session; the path decides what fits.
Send(session, t, n, max_size) ==
  LET earlier == {p \in sent : p.session = session}
      id == Cardinality(earlier) % PacketIds
      data == [i \in 1..n |-> (10 * (Cardinality(sent) + 1)) + i]
  IN /\ Cardinality(sent) < MaxSends
     /\ \A p \in earlier : p.id = id => p.at + Lifetime + Expiry <= now
     /\ sent' = sent \cup {[session |-> session, id |-> id, target |-> t, data |-> data, at |-> now]}
     /\ flying' = flying \cup {[bytes |-> d, at |-> now] : d \in SendDatagrams(protocol, max_size, session, id, t, data)}
     /\ UNCHANGED <<protocol, fragments, receiver, full, received, now>>

\* What does not parse is skipped, what the store refuses ends the reading.
Receive(d) ==
  LET m == ParseDatagram(protocol, d.bytes)
      r == PushDatagram(protocol, fragments, m, now)
  IN /\ receiver = "open" /\ now <= d.at + Lifetime
     /\ m.good
     /\ fragments' = r.store
     /\ receiver' = IF r.is = "error" THEN "failed" ELSE receiver
     /\ full' = (r.is = "error" /\ m.count > 1 /\ <<m.session, m.id>> \notin DOMAIN prune_expired(fragments, now))
     /\ received' = IF r.is = "packet" THEN received \cup {[target |-> r.packet.target, data |-> r.packet.data]}
                    ELSE received
     /\ UNCHANGED <<protocol, sent, flying, now>>

\* The Hysteria2 loop also looks at the clock by itself.
Cleanup ==
  /\ protocol = "hysteria2" /\ receiver = "open"
  /\ fragments' = prune_expired(fragments, now)
  /\ UNCHANGED <<protocol, sent, flying, receiver, full, received, now>>

Tick ==
  /\ now < MaxTime
  /\ now' = now + 1
  /\ flying' = {d \in flying : now + 1 <= d.at + Lifetime}
  /\ UNCHANGED <<protocol, sent, fragments, receiver, full, received>>

\* The bounds are reached.
Done == now = MaxTime /\ UNCHANGED vars

Next ==
  \/ \E session \in Sessions, t \in Ends(protocol), n \in PayloadSizes, max_size \in MaxSizes :
       Send(session, t, n, max_size)
  \/ \E d \in flying : Receive(d)
  \/ Cleanup \/ Tick \/ Done

Spec == Init /\ [][Next]_vars

-----------------------------------------------------------------------------
\* However datagrams are lost, repeated and overtaken, a packet taken out is
\* one that was sent, whole and to its target; what was sent is understood; a
\* store refuses a fragment only because it holds too many packets, it counts
\* what it holds exactly, and it never keeps a packet of which all is there
\* (hysteria2.rs 1330-1409, tuic.rs 827-917).
PacketsAreWhole ==
  /\ \A r \in received : \E p \in sent : p.target = r.target /\ p.data = r.data
  /\ \A d \in flying : d.bytes = foreign_heartbeat \/ ParseDatagram(protocol, d.bytes).good
  /\ receiver = "failed" => full
  /\ \A key \in DOMAIN fragments :
       LET set == fragments[key] IN
       /\ set.received = Cardinality(DOMAIN set.parts) /\ set.received < set.count
       /\ set.bytes = FoldFunction(LAMBDA part, sum : Len(part) + sum, 0, set.parts)
=============================================================================
