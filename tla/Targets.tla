------------------------------- MODULE Targets -------------------------------
(***************************************************************************)
(* How a target, a host and a port, is written and read: as an address     *)
(* with a type byte in the binary protocols, as an authority in the others.*)
(*                                                                         *)
(* A byte is a number and so is a character. Lengths are scaled down: a    *)
(* digit has Base values and a u16 two digits, an IPv4 address has two     *)
(* bytes and an IPv6 address three, and a port is one character of text.   *)
(***************************************************************************)
EXTENDS Integers, Sequences, SequencesExt

Base == 4
U16Max == Base * Base - 1
MaxName == 6               \* of bytes in a name, for u8::MAX

From(s, i) == SubSeq(s, i, Len(s))
u16(n) == <<n \div Base, n % Base>>

-----------------------------------------------------------------------------
(* Hosts, as the text every SocksTarget holds.                             *)
Colon == 20
OpenBracket == 21
CloseBracket == 22
Brackets == {OpenBracket, CloseBracket}

IsIpv4(host) == Len(host) = 2 /\ \A i \in DOMAIN host : host[i] < Base
IsIpv6(host) == Len(host) = 5 /\ host[2] = Colon /\ host[4] = Colon
Octets(host) == SelectSeq(host, LAMBDA x : x # Colon)
Ipv6Text(octets) == <<octets[1], Colon, octets[2], Colon, octets[3]>>

Trimmed(host) ==
  LET kept == {i \in DOMAIN host : host[i] \notin Brackets} IN
  IF kept = {} THEN <<>> ELSE SubSeq(host, Min(kept), Max(kept))

Target(host, port) == [host |-> host, port |-> port]
Name(target) == Trimmed(target.host) \o <<Colon, target.port>>

-----------------------------------------------------------------------------
(* Addresses. A parser finds a target and the place after it, needs more   *)
(* bytes, or refuses what it sees; an encoder that refuses writes nothing. *)
Found(host, port, next) == [is |-> "found", host |-> host, port |-> port, next |-> next]
Short == [is |-> "short", host |-> <<>>, port |-> 0, next |-> 0]
Bad == [is |-> "bad", host |-> <<>>, port |-> 0, next |-> 0]

SocksAtyps == [ipv4 |-> 1, domain |-> 3, ipv6 |-> 4]
VlessAtyps == [ipv4 |-> 1, domain |-> 2, ipv6 |-> 3]
UotAtyps == [ipv4 |-> 0, domain |-> 2, ipv6 |-> 1]
TuicAtyps == [ipv4 |-> 1, domain |-> 0, ipv6 |-> 2]
ATYP_NONE == 19

Named(atyps, name) == IF Len(name) \in 1..MaxName THEN <<atyps.domain, Len(name)>> \o name ELSE <<>>

Address(atyps, host) ==
  IF IsIpv4(host) THEN <<atyps.ipv4>> \o host
  ELSE IF IsIpv6(host) THEN <<atyps.ipv6>> \o Octets(host)
  ELSE Named(atyps, Trimmed(host))

\* The two orders; nothing follows an address that is refused.
AddressPort(atyps, t) == LET a == Address(atyps, t.host) IN IF a = <<>> THEN <<>> ELSE a \o u16(t.port)
PortAddress(atyps, t) == LET a == Address(atyps, t.host) IN IF a = <<>> THEN <<>> ELSE u16(t.port) \o a

AddressAt(atyps, b, i) ==
  LET Taken(from, n, text(_)) ==
        IF Len(b) < from + n - 1 THEN Short ELSE Found(text(SubSeq(b, from, from + n - 1)), 0, from + n)
      Same(s) == s
  IN IF Len(b) < i THEN Short
     ELSE CASE b[i] = atyps.ipv4 -> Taken(i + 1, 2, Same)
            [] b[i] = atyps.ipv6 -> Taken(i + 1, 3, Ipv6Text)
            [] b[i] = atyps.domain -> IF Len(b) <= i THEN Short ELSE Taken(i + 2, b[i + 1], Same)
            [] OTHER -> Bad

PortAt(b, i) == b[i] * Base + b[i + 1]

PortAfter(a, b) ==
  IF a.is # "found" THEN a
  ELSE IF Len(b) < a.next + 1 THEN Short
  ELSE Found(a.host, PortAt(b, a.next), a.next + 2)

AddressPortAt(atyps, b, i) == PortAfter(AddressAt(atyps, b, i), b)

PortAddressAt(atyps, b, i) ==
  IF Len(b) < i + 1 THEN Short
  ELSE LET a == AddressAt(atyps, b, i + 2) IN
       IF a.is # "found" THEN a ELSE Found(a.host, PortAt(b, i), a.next)

\* In a datagram nothing more can come.
Whole(a) == IF a.is = "short" THEN Bad ELSE a

write_trojan_target(t) == AddressPort(SocksAtyps, t)
read_trojan_target(b, i) == AddressPortAt(SocksAtyps, b, i)
read_trojan_target_from_async_websocket(b, i) == AddressPortAt(SocksAtyps, b, i)
parse_trojan_target_from_bytes(b) == AddressPortAt(SocksAtyps, b, 1)

write_vless_target(t) == PortAddress(VlessAtyps, t)
read_vless_target(b, i) == PortAddressAt(VlessAtyps, b, i)
read_vless_target_async(b, i) == PortAddressAt(VlessAtyps, b, i)
read_vless_target_from_async_websocket(b, i) == PortAddressAt(VlessAtyps, b, i)

write_vmess_target_header(t) == PortAddress(VlessAtyps, t)
read_vmess_target(b, i) == PortAddressAt(VlessAtyps, b, i)

ss_encode_socks_target(t) == AddressPort(SocksAtyps, t)
parse_request_payload(b) == Whole(AddressPortAt(SocksAtyps, b, 1))

write_socks5_address(t) == AddressPort(SocksAtyps, t)
read_socks5_target_body(b, i) == AddressPortAt(SocksAtyps, b, i)
read_socks5_target_body_from_read(b, i) == Whole(AddressPortAt(SocksAtyps, b, i))

\* The place after an address nobody looks at.
drain_socks5_bound_address(b, i) == AddressPortAt(SocksAtyps, b, i)

-----------------------------------------------------------------------------
(* SOCKS over Mieru. A request may come with the greeting before it.       *)
SOCKS_VERSION == 5
SOCKS_CMD_CONNECT == 1
SOCKS_CMD_UDP_ASSOCIATE == 3

mieru_encode_socks_target(t) == AddressPort(SocksAtyps, t)

socks_request_offset(b) ==
  CASE Len(b) < 2 -> [is |-> "short", at |-> 0]
    [] Len(b) >= 2 /\ b[1] # SOCKS_VERSION -> [is |-> "bad", at |-> 0]
    [] OTHER ->
         IF Len(b) >= 4 /\ b[3] = 0 /\ b[4] \in {1, 3, 4} THEN [is |-> "found", at |-> 0]
         ELSE [is |-> IF Len(b) < 2 + b[2] THEN "short" ELSE "found", at |-> 2 + b[2]]

parse_socks_request(b) ==
  LET offset == socks_request_offset(b) IN
  CASE offset.is = "bad" -> Bad
    [] offset.is = "short" \/ (offset.is = "found" /\ Len(b) < offset.at + 4) -> Short
    [] OTHER ->
         LET header == SubSeq(b, offset.at + 1, offset.at + 4) IN
         IF header[1] # SOCKS_VERSION \/ header[3] # 0 \/ header[2] \notin {SOCKS_CMD_CONNECT, SOCKS_CMD_UDP_ASSOCIATE}
         THEN Bad
         ELSE AddressPortAt(SocksAtyps, b, offset.at + 4)

-----------------------------------------------------------------------------
(* UDP over SOCKS: two reserved bytes, the fragment, the target, the data. *)
SocksUdp(target, s) == IF target = <<>> THEN <<>> ELSE <<0, 0, 0>> \o target \o s
SocksUdpTarget(b) ==
  IF Len(b) < 4 \/ b[1] # 0 \/ b[2] # 0 \/ b[3] # 0 THEN Bad ELSE Whole(AddressPortAt(SocksAtyps, b, 4))

encode_socks_udp_packet(t, s) == SocksUdp(mieru_encode_socks_target(t), s)
parse_socks_udp_packet(b) == SocksUdpTarget(b)
encode_socks5_udp_packet(t, s) == SocksUdp(write_socks5_address(t), s)
parse_socks5_udp_packet(b) ==
  IF Len(b) < 4 \/ b[1] # 0 \/ b[2] # 0 \/ b[3] # 0 THEN Bad ELSE read_socks5_target_body_from_read(b, 4)
parse_udp_request(b) == SocksUdpTarget(b)

\* The source of a datagram is an address, never a name.
encode_target(t) == AddressPort(SocksAtyps, t)
encode_udp_response(t, s) == SocksUdp(encode_target(t), s)

-----------------------------------------------------------------------------
(* AnyTLS. A UDP stream mixes two sets of address types: the first parser  *)
(* that knows the type wins.                                               *)
parse_socks_addr(b) == IF b = <<>> THEN Bad ELSE AddressPortAt(SocksAtyps, b, 1)
parse_uot_addr(b) == AddressPortAt(UotAtyps, b, 1)
encode_uot_addr(t) == AddressPort(UotAtyps, t)

OrElse(a, other) == IF a.is = "bad" THEN other ELSE a
parse_socks_or_uot_addr(b) == OrElse(parse_socks_addr(b), parse_uot_addr(b))
parse_uot_or_socks_addr(b) == OrElse(parse_uot_addr(b), parse_socks_addr(b))

After(a, n) == IF a.is = "found" THEN [a EXCEPT !.next = @ + n] ELSE a
parse_uot_request(b) == IF b = <<>> THEN Short ELSE After(parse_socks_or_uot_addr(From(b, 2)), 1)

-----------------------------------------------------------------------------
(* TUIC. The later fragments of a packet go without an address.            *)
encode_address(t) == IF t.host = <<>> THEN <<ATYP_NONE>> ELSE AddressPort(TuicAtyps, t)
encoded_address_len(t) ==
  IF t.host = <<>> THEN 1
  ELSE 3 + IF IsIpv4(t.host) THEN 2 ELSE IF IsIpv6(t.host) THEN 3 ELSE 1 + Len(t.host)

read_address(b, i) == AddressPortAt(TuicAtyps, b, i)
parse_address_from(b, i) ==
  IF Len(b) >= i /\ b[i] = ATYP_NONE THEN Found(<<>>, 0, i + 1) ELSE Whole(AddressPortAt(TuicAtyps, b, i))

-----------------------------------------------------------------------------
(* Authorities.                                                            *)
IsPort(text) == Len(text) = 1 /\ text[1] <= U16Max

\* Where a text is split at its last colon, or 0.
LastColon(text) == SelectLastInSeq(text, LAMBDA x : x = Colon)
FirstClose(text) == SelectInSeq(text, LAMBDA x : x = CloseBracket)

target_authority(t) ==
  LET host == Trimmed(t.host) IN
  (IF IsIpv6(host) THEN <<OpenBracket>> \o host \o <<CloseBracket>> ELSE host) \o <<Colon, t.port>>

format_socket_addr(t) ==
  (IF IsIpv6(t.host) THEN <<OpenBracket>> \o t.host \o <<CloseBracket>> ELSE t.host) \o <<Colon, t.port>>

\* What stands after the host: the port behind a colon, or else the default.
PortOr(rest, default) ==
  IF rest # <<>> /\ rest[1] = Colon /\ IsPort(Tail(rest)) THEN rest[2] ELSE default

parse_target_address(text) ==
  IF text # <<>> /\ text[1] = OpenBracket THEN
    LET end == FirstClose(text) rest == From(text, end + 1) IN
    IF end = 0 \/ rest = <<>> THEN Bad
    ELSE IF rest[1] = Colon /\ IsPort(Tail(rest)) THEN Found(SubSeq(text, 2, end - 1), rest[2], 0) ELSE Bad
  ELSE
    LET at == LastColon(text) IN
    IF at > 1 /\ IsPort(From(text, at + 1)) THEN Found(SubSeq(text, 1, at - 1), text[at + 1], 0) ELSE Bad

\* The HTTP proxy looks for a port first.
http_parse_authority(text, default) ==
  LET at == LastColon(text)
      host == SubSeq(text, 1, at - 1)
      end == FirstClose(text)
  IN CASE text = <<>> -> Bad
       [] text # <<>> /\ at > 0 /\ ~Contains(host, CloseBracket) ->
            IF IsPort(From(text, at + 1)) /\ Trimmed(host) # <<>>
            THEN Found(Trimmed(host), text[at + 1], 0) ELSE Bad
       [] OTHER ->
            IF text[1] = OpenBracket /\ end > 0
            THEN Found(SubSeq(text, 2, end - 1), PortOr(From(text, end + 1), default), 0)
            ELSE Found(Trimmed(text), default, 0)

\* Naive looks for a bracket first.
naive_parse_authority(text, default) ==
  LET at == LastColon(text)
      host == SubSeq(text, 1, at - 1)
      end == FirstClose(text)
  IN CASE text = <<>> -> Bad
       [] text # <<>> /\ text[1] = OpenBracket ->
            IF end = 0 THEN Bad ELSE Found(SubSeq(text, 2, end - 1), PortOr(From(text, end + 1), default), 0)
       [] OTHER ->
            IF at > 0 /\ ~Contains(host, Colon)
            THEN IF IsPort(From(text, at + 1)) /\ host # <<>> THEN Found(host, text[at + 1], 0) ELSE Bad
            ELSE Found(text, default, 0)
=============================================================================
