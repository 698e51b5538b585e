------------------------------- MODULE Requests -------------------------------
(***************************************************************************)
(* The head of a connection: the request that names the target, or the     *)
(* head of the answer. An encoder gives the bytes of the head, nothing if  *)
(* it refuses the target; a decoder takes what has arrived, as in Framing, *)
(* and its data is the target.                                             *)
(***************************************************************************)
EXTENDS Framing

UserKey == <<9, 9>>        \* a password's hash, a user's id
COMMAND_TCP == 1

\* A head is there once the target it names and what must follow is.
Heading(a, c) == Data(a.next - 1, Name(a), [c EXCEPT !.named = TRUE])
HeadAt(a, c) == CASE a.is = "bad" -> Fails(c) [] a.is = "short" -> More(c) [] OTHER -> Heading(a, c)
Nameless(n, c) == Other(n, [c EXCEPT !.named = TRUE])

-----------------------------------------------------------------------------
(* Trojan.                                                                 *)
write_trojan_tcp_request(t) ==
  LET target == write_trojan_target(t) IN
  IF target = <<>> THEN <<>> ELSE Clear(UserKey \o <<Crlf, COMMAND_TCP>> \o target \o <<Crlf>>)

TrojanRequest(c, v, TargetAt(_, _)) ==
  IF Len(v) < 4 THEN More(c)
  ELSE IF SubSeq(v, 1, 4) # UserKey \o <<Crlf, COMMAND_TCP>> THEN Fails(c)
  ELSE LET a == TargetAt(v, 5) IN
       IF a.is # "found" THEN HeadAt(a, c)
       ELSE IF Len(v) < a.next THEN More(c)
       ELSE IF v[a.next] # Crlf THEN Fails(c)
       ELSE Heading([a EXCEPT !.next = @ + 1], c)

trojan_read_request(c, v) == TrojanRequest(c, v, read_trojan_target)
trojan_read_request_from_async_websocket(c, v) == TrojanRequest(c, v, read_trojan_target_from_async_websocket)

-----------------------------------------------------------------------------
(* VLESS. The addon is a message of fields; field 1 is the flow.           *)
Flow == <<6, 6>>

write_vless_addon(flow) ==
  IF flow = <<>> THEN <<0>> ELSE <<2 + Len(flow), DataField, Len(flow)>> \o flow

\* Another implementation may send further fields.
foreign_vless_addon ==
  LET fields == <<VarintField, 3, BytesField, 1, 8, DataField, Len(Flow)>> \o Flow \o <<VarintField, 1>> IN
  <<Len(fields)>> \o fields

\* The last flow among the fields, or that they are not understood.
parse_addon_flow(addon) ==
  LET Unknown == [known |-> FALSE, flow |-> <<>>]
      fields[i \in 1..(Len(addon) + 1)] ==
        IF i = Len(addon) + 1 THEN [known |-> TRUE, flow |-> <<>>]
        ELSE IF i = Len(addon) \/ addon[i] \notin {DataField, VarintField, BytesField} THEN Unknown
        ELSE LET number == decode_varint(addon, i + 1)
                 next == number.next + IF addon[i] = VarintField THEN 0 ELSE number.value
             IN IF next > Len(addon) + 1 THEN Unknown
                ELSE IF addon[i] = DataField /\ fields[next].known /\ fields[next].flow = <<>>
                THEN [known |-> TRUE, flow |-> SubSeq(addon, number.next, next - 1)]
                ELSE fields[next]
  IN fields[1]

vless_addon(flow) ==
  CASE flow = "none" -> write_vless_addon(<<>>)
    [] flow = "vision" -> write_vless_addon(Flow)
    [] flow = "foreign" -> foreign_vless_addon

write_vless_tcp_request(t, flow) ==
  LET target == write_vless_target(t) IN
  IF target = <<>> THEN <<>> ELSE Clear(<<0>> \o UserKey \o vless_addon(flow) \o <<COMMAND_TCP>> \o target)

\* expected is the flow the inbound is configured with.
VlessRequest(c, v, expected, TargetAt(_, _)) ==
  LET n == v[4]                   \* of bytes in the addon
      addon == parse_addon_flow(SubSeq(v, 5, 4 + n))
  IN IF Len(v) < 4 THEN More(c)
     ELSE IF SubSeq(v, 1, 3) # <<0>> \o UserKey THEN Fails(c)
     ELSE IF Len(v) < 5 + n THEN More(c)
     ELSE IF ~addon.known \/ addon.flow # expected \/ v[5 + n] # COMMAND_TCP THEN Fails(c)
     ELSE HeadAt(TargetAt(v, 6 + n), c)

vless_read_request(c, v, flow) == VlessRequest(c, v, flow, read_vless_target)
vless_read_request_async(c, v, flow) == VlessRequest(c, v, flow, read_vless_target_async)
vless_read_request_from_async_websocket(c, v, flow) == VlessRequest(c, v, flow, read_vless_target_from_async_websocket)

write_vless_response == Clear(<<0, 0>>)

read_vless_response_header(c, v) ==
  IF Len(v) < 2 THEN More(c)
  ELSE IF v[1] # 0 THEN Fails(c)
  ELSE IF Len(v) < 2 + v[2] THEN More(c) ELSE Nameless(2 + v[2], c)

-----------------------------------------------------------------------------
(* VMess. The length of the head and the head are sealed with keys that    *)
(* depend on the authentication id and a nonce.                            *)
AuthId == 8
HeaderNonce == 7
ResponseHeader == 6
HEADER_LENGTH_KEY == 100
HEADER_PAYLOAD_KEY == 200
RESPONSE_HEADER_LENGTH_KEY == 300
RESPONSE_HEADER_PAYLOAD_KEY == 400
MAX_HEADER_LEN == 30

Kdf(salt, auth_id, nonce) == salt + 10 * auth_id + nonce
LongU16(n) == <<n \div 16, n % 16>>
fnv1a(s) == FoldLeft(LAMBDA sum, x : ((sum * 3) + x) % 16, 1, s)

vmess_header(t, padding) ==
  LET target == write_vmess_target_header(t)
      head == <<1, 4, 5, ResponseHeader, padding, COMMAND_TCP>> \o target \o Filler(padding)
  IN IF target = <<>> THEN <<>> ELSE head \o <<fnv1a(head)>>

seal_request_header(header) ==
  IF header = <<>> THEN <<>>
  ELSE Clear(<<AuthId>>) \o Seal(Kdf(HEADER_LENGTH_KEY, AuthId, HeaderNonce), LongU16(Len(header)))
         \o Clear(<<HeaderNonce>>) \o Seal(Kdf(HEADER_PAYLOAD_KEY, AuthId, HeaderNonce), header)

Ending(a, next) == IF a.is = "found" /\ a.next # next THEN Bad ELSE a

parse_request_header(h) ==
  LET end == Len(h) - 1
  IN IF Len(h) < 10 \/ h[Len(h)] # fnv1a(SubSeq(h, 1, end)) \/ h[1] # 1 \/ h[6] # COMMAND_TCP THEN Bad
     ELSE Ending(Whole(read_vmess_target(SubSeq(h, 1, end), 7)), end + 1 - h[5])

open_aead_header(c, b) ==
  LET key(salt) == Kdf(salt, Value(b, 1), Value(b, 5))
      len == (Value(b, 2) * 16) + Value(b, 3)
      sealed == SubSeq(b, 6, 6 + len)
  IN IF Len(b) < 5 THEN More(c)
     ELSE IF ~Opens(key(HEADER_LENGTH_KEY), SubSeq(b, 2, 4)) \/ len > MAX_HEADER_LEN THEN Fails(c)
     ELSE IF Len(b) < 6 + len THEN More(c)
     ELSE IF ~Opens(key(HEADER_PAYLOAD_KEY), sealed) THEN Fails(c)
     ELSE HeadAt([parse_request_header(Open(sealed)) EXCEPT !.next = 7 + len], c)

write_response_header ==
  Seal(RESPONSE_HEADER_LENGTH_KEY, LongU16(4)) \o Seal(RESPONSE_HEADER_PAYLOAD_KEY, <<ResponseHeader, 0, 0, 0>>)

read_vmess_response_header(c, b) ==
  LET len == (Value(b, 1) * 16) + Value(b, 2)
      sealed == SubSeq(b, 4, 4 + len)
  IN IF Len(b) < 3 THEN More(c)
     ELSE IF ~Opens(RESPONSE_HEADER_LENGTH_KEY, SubSeq(b, 1, 3)) THEN Fails(c)
     ELSE IF Len(b) < 4 + len THEN More(c)
     ELSE IF ~Opens(RESPONSE_HEADER_PAYLOAD_KEY, sealed) \/ len < 4 \/ Open(sealed)[1] # ResponseHeader THEN Fails(c)
     ELSE Nameless(4 + len, c)

\* A legacy server may add a command; its cipher keeps the length.
foreign_legacy_response == Clear(<<ResponseHeader, 0, 1, 2, 5, 5>>)

read_legacy_vmess_response_header(c, v) ==
  LET command_len == IF v[3] = 0 THEN 0 ELSE v[4] IN
  IF Len(v) < 4 THEN More(c)
  ELSE IF v[1] # ResponseHeader THEN Fails(c)
  ELSE IF Len(v) < 4 + command_len THEN More(c) ELSE Nameless(4 + command_len, c)

-----------------------------------------------------------------------------
(* SOCKS5, after the greetings.                                            *)
socks5_request(t) ==
  LET target == write_socks5_address(t) IN
  IF target = <<>> THEN <<>> ELSE Clear(<<SOCKS_VERSION, SOCKS_CMD_CONNECT, 0>> \o target)

read_command_request(c, v) ==
  IF Len(v) < 4 THEN More(c)
  ELSE IF v[1] # SOCKS_VERSION \/ v[2] # SOCKS_CMD_CONNECT THEN Fails(c)
  ELSE HeadAt(AddressPortAt(SocksAtyps, v, 4), c)

write_socks5_response_with_bind(t) == Clear(<<SOCKS_VERSION, 0, 0>> \o encode_target(t))

\* The relay a UDP association is given is named, the address of a connection
\* is passed over.
read_socks5_reply_target(c, v) ==
  IF Len(v) < 4 THEN More(c)
  ELSE IF v[1] # SOCKS_VERSION \/ v[2] # 0 THEN Fails(c)
  ELSE HeadAt(read_socks5_target_body(v, 4), c)

read_socks5_connect_reply(c, v) ==
  LET a == drain_socks5_bound_address(v, 4) IN
  IF Len(v) < 4 THEN More(c)
  ELSE IF v[1] # SOCKS_VERSION \/ v[2] # 0 \/ a.is = "bad" THEN Fails(c)
  ELSE IF a.is = "short" THEN More(c) ELSE Nameless(a.next - 1, c)

-----------------------------------------------------------------------------
(* Shadowsocks and AnyTLS: the target starts the first chunk or frame, and *)
(* must be all in it.                                                      *)
FirstOf(r, a) ==
  IF r.is # "data" THEN r
  ELSE IF a.is # "found" THEN Fails(r.codec)
  ELSE [r EXCEPT !.data = Name(a) \o From(r.data, a.next), !.codec.named = TRUE]

shadowsocks_read_request(c, b) == LET r == ss_read_chunk(c, b) IN FirstOf(r, parse_request_payload(r.data))
handle_psh(c, b) == LET r == read_frames(c, b) IN FirstOf(r, parse_socks_addr(r.data))

foreign_uot_request(t) == Clear(<<1>> \o AddressPort(SocksAtyps, t))
handle_udp_psh(c, v) == HeadAt(parse_uot_request(v), c)

-----------------------------------------------------------------------------
(* SOCKS inside Mieru: the client may send its greeting along.             *)
foreign_socks_request(greeting, t) ==
  Clear(greeting \o <<SOCKS_VERSION, SOCKS_CMD_CONNECT, 0>> \o AddressPort(SocksAtyps, t))
read_socks_request_from_mieru(c, v) == HeadAt(parse_socks_request(v), c)

(* TUIC.                                                                   *)
foreign_connect(t) == Clear(<<5, COMMAND_TCP>> \o AddressPort(TuicAtyps, t))
handle_connect_stream(c, v) ==
  IF Len(v) < 2 THEN More(c)
  ELSE IF SubSeq(v, 1, 2) # <<5, COMMAND_TCP>> THEN Fails(c)
  ELSE HeadAt(read_address(v, 3), c)

-----------------------------------------------------------------------------
(* Hysteria2: numbers have a tag that says how long they are; a marker may *)
(* stand before the length of the address.                                 *)
TCP_REQUEST_ID == U16Max

append_varint(n) == IF n < Base THEN <<n>> ELSE <<Base + (n \div Base), n % Base>>
quic_varint_len(n) == IF n < Base THEN 1 ELSE 2

\* A number at i and the place after it, 0 if it is not all there.
read_varint(v, i) ==
  IF Len(v) < i \/ (v[i] >= Base /\ Len(v) = i) THEN [value |-> 0, next |-> 0]
  ELSE IF v[i] < Base THEN [value |-> v[i], next |-> i + 1]
  ELSE [value |-> ((v[i] - Base) * Base) + v[i + 1], next |-> i + 2]

foreign_tcp_request(marked, t) ==
  LET text == format_socket_addr(t) IN
  Clear((IF marked THEN append_varint(TCP_REQUEST_ID) ELSE <<>>)
          \o append_varint(Len(text)) \o text \o append_varint(2) \o Filler(2))

\* The address of the given length, and the padding behind it.
SizedTarget(len, c, v) ==
  LET padding == read_varint(v, len.next + len.value)
  IN IF len.next = 0 THEN More(c)
     ELSE IF len.value = 0 THEN Fails(c)
     ELSE IF Len(v) < len.next + len.value - 1 \/ padding.next = 0 THEN More(c)
     ELSE IF Len(v) < padding.next + padding.value - 1 THEN More(c)
     ELSE HeadAt([parse_target_address(SubSeq(v, len.next, len.next + len.value - 1))
                    EXCEPT !.next = padding.next + padding.value], c)

read_tcp_target(c, v) ==
  LET first == read_varint(v, 1)
  IN IF first.next = 0 THEN More(c)
     ELSE SizedTarget(IF first.value = TCP_REQUEST_ID THEN read_varint(v, first.next) ELSE first, c, v)

-----------------------------------------------------------------------------
(* HTTP and Naive: an authority, which may go without the usual port. What *)
(* the HTTP proxy has read beyond the head of a CONNECT is lost with its   *)
(* buffer: the client waits for the answer before it goes on.              *)
UsualPort == 7

http_connect(t, bare) ==
  Clear((IF bare THEN Front(Front(target_authority(t))) ELSE target_authority(t)) \o <<Crlf, Crlf>>)

FirstCrlf(v) == SelectInSeq(v, LAMBDA x : x = Crlf)
Line(v) == SubSeq(v, 1, FirstCrlf(v) - 1)
AuthorityHead(c, v, a, next) ==
  IF FirstCrlf(v) = 0 \/ Len(v) < FirstCrlf(v) + 1 THEN More(c) ELSE HeadAt([a EXCEPT !.next = next], c)

http_read_request(c, v) == AuthorityHead(c, v, http_parse_authority(Line(v), UsualPort), Len(v) + 1)
parse_connect_target(c, v) ==
  AuthorityHead(c, v, naive_parse_authority(Line(v), UsualPort), FirstCrlf(v) + 2)

\* The answer to a CONNECT: a status, headers, an empty line.
Established == 2
http_connect_response == Clear(<<Established, 9, Crlf, 9, Crlf, Crlf>>)
read_http_connect_response(c, v) ==
  LET ends == {i \in 2..Len(v) : v[i - 1] = Crlf /\ v[i] = Crlf} IN
  IF ends = {} THEN More(c) ELSE IF v[1] # Established THEN Fails(c) ELSE Nameless(Min(ends), c)
=============================================================================
