----------------------------- MODULE FramedStream -----------------------------
(***************************************************************************)
(* One direction of a framed connection: one end writes, the transport     *)
(* delivers the bytes in chunks of any size, and the other end decodes     *)
(* what it has. The writer may finish or break off, and a read may be      *)
(* interrupted by a timeout. A format is a framing of the stream, or the   *)
(* head of a connection with the bytes that follow it as they are.         *)
(***************************************************************************)
EXTENDS Requests

CONSTANTS
  Sizes,       \* of the writes to a stream
  PacketSizes, \* of the packets
  MaxWrites

VARIABLES
  format,     \* one of Formats
  encoder, decoder,
  wire,       \* bytes written and not yet arrived
  input,      \* bytes that arrived and are not decoded
  buffer,     \* decoded bytes the reader has not asked for
  written, delivered,
  writes,     \* left
  writer,     \* "open", "finished" or "cut"
  reader      \* "reading", "ended", "short" or "interrupted", or "failed" on what it read

vars == <<format, encoder, decoder, wire, input, buffer, written, delivered, writes, writer, reader>>

-----------------------------------------------------------------------------
(* A format: its codec, how it carries a VMess size, what it seals and     *)
(* pads, the target its head or its packets name, the form of its head,    *)
(* and whether its reader reads exactly what it needs, so that every end   *)
(* of the transport is an error.                                           *)
Anywhere == Target(<<>>, 0)
Format(name, codec) ==
  [name |-> name, codec |-> codec, size |-> "plain", sealed |-> FALSE, padded |-> FALSE,
   target |-> Anywhere, form |-> "none", packets |-> FALSE, exact |-> FALSE]
Vmess(name, size, sealed, padded, packets) ==
  [Format(name, "vmess") EXCEPT !.size = size, !.sealed = sealed, !.padded = padded, !.packets = packets]
Packets(name, codec, target, exact) ==
  [Format(name, codec) EXCEPT !.target = target, !.packets = TRUE, !.exact = exact]
Request(name, form, target) == [Format(name, "request") EXCEPT !.form = form, !.target = target]
Response(name) == Format(name, "request")

WebSocketReader == Format("WebSocketReader", "ws client")
WebSocketTlsStream == Format("WebSocketTlsStream", "ws client")
AsyncWebSocketStream == Format("AsyncWebSocketStream", "ws client")
WebSocketClientStream == Format("WebSocketClientStream", "ws server")
GrpcHunkReader == Format("GrpcHunkReader", "grpc foreign")
GrpcClientStream == Format("GrpcClientStream", "grpc")
VmessStreams ==
  {Vmess("none", "plain", FALSE, FALSE, FALSE), Vmess("aead", "plain", TRUE, FALSE, FALSE),
   Vmess("masked", "masked", TRUE, FALSE, FALSE), Vmess("padded", "masked", TRUE, TRUE, FALSE),
   Vmess("sealed size", "sealed", TRUE, FALSE, FALSE), Vmess("sealed size padded", "sealed", TRUE, TRUE, FALSE)}
VmessPackets == Vmess("packets", "masked", TRUE, TRUE, TRUE)
ShadowsocksReader == [Format("ShadowsocksReader", "shadowsocks") EXCEPT !.exact = TRUE]
MieruReader == [Format("MieruReader", "mieru") EXCEPT !.padded = TRUE]
MieruSessionReader == Format("MieruSessionReader", "mieru")
AnyTlsSession == Format("AnyTlsSession", "anytls")
H2BodyReader == Format("H2BodyReader", "naive")
VisionReader == Format("VisionReader", "vision")

Sources == {Target(<<1, 2>>, 9), Target(<<1, Colon, 2, Colon, 3>>, 6)}
Places == Sources \cup {Target(<<5, 6, 7>>, UsualPort)}
\* A router may be handed a host in brackets, or a name no encoder accepts.
Hosts == Places \cup {Target(<<OpenBracket, 1, Colon, 2, Colon, 3, CloseBracket>>, 9), Target(<<5, 5, 5, 5, 5, 5, 5>>, 9)}

TrojanUdp == {Packets("trojan udp", "trojan", t, FALSE) : t \in Places}
VlessUdp == Packets("vless udp", "vless", Anywhere, TRUE)
UotUdp == {Packets("uot", "uot", t, FALSE) : t \in Places \cup {Anywhere}}
MieruUdp == {Packets("mieru udp", "mieru udp", t, FALSE) : t \in Places}

TrojanRequests == {Request(name, "none", t) : name \in {"trojan", "trojan websocket"}, t \in Hosts}
VlessRequests ==
  {Request("vless", flow, t) : flow \in {"none", "vision", "foreign"}, t \in Hosts}
    \cup {Request(name, "none", t) : name \in {"vless async", "vless websocket"}, t \in Hosts}
VmessRequests == {Request("vmess", form, t) : form \in {"none", "padded"}, t \in Hosts}
OutboundRequests == {Request(name, "none", t) : name \in {"socks5", "shadowsocks", "http"}, t \in Hosts}
ClientRequests ==
  {Request(name, "none", t) : name \in {"anytls", "shadowsocks client", "uot", "tuic", "naive"}, t \in Places}
    \cup {Request(name, "none", t) : name \in {"socks5 reply", "socks5 connected"}, t \in Sources}
    \cup {Request("mieru", form, t) : form \in {"none", "greeting", "choices"}, t \in Places}
    \cup {Request("hysteria2", form, t) : form \in {"none", "marked"}, t \in Places}
    \cup {Request(name, "bare", Target(<<5, 6, 7>>, UsualPort)) : name \in {"http", "naive"}}
    \cup {Request("naive", "bare", Target(<<1, Colon, 2, Colon, 3>>, UsualPort))}
Responses ==
  {Response(name) : name \in {"vless response", "vmess response", "vmess legacy response", "http connected"}}

Formats ==
  {WebSocketReader, WebSocketTlsStream, AsyncWebSocketStream, WebSocketClientStream, GrpcHunkReader,
   GrpcClientStream, VmessPackets, ShadowsocksReader, MieruReader, MieruSessionReader, AnyTlsSession,
   H2BodyReader, VisionReader, VlessUdp}
    \cup VmessStreams \cup TrojanUdp \cup UotUdp \cup MieruUdp
    \cup TrojanRequests \cup VlessRequests \cup VmessRequests \cup OutboundRequests \cup ClientRequests
    \cup Responses

Looks == {"other", "client_hello", "server_hello", "application"}

\* The bytes of a head.
HeadOf(f) ==
  CASE f.name \in {"trojan", "trojan websocket"} -> write_trojan_tcp_request(f.target)
    [] f.name \in {"vless", "vless async", "vless websocket"} -> write_vless_tcp_request(f.target, f.form)
    [] f.name = "vmess" -> seal_request_header(vmess_header(f.target, IF f.form = "padded" THEN 2 ELSE 0))
    [] f.name = "socks5" -> socks5_request(f.target)
    [] f.name \in {"socks5 reply", "socks5 connected"} -> write_socks5_response_with_bind(f.target)
    [] f.name \in {"http", "naive"} -> http_connect(f.target, f.form = "bare")
    [] f.name = "uot" -> foreign_uot_request(f.target)
    [] f.name = "tuic" -> foreign_connect(f.target)
    [] f.name = "mieru" ->
         foreign_socks_request(CASE f.form = "greeting" -> <<5, 1, 0>> [] f.form = "choices" -> <<5, 2, 0, 2>>
                                 [] OTHER -> <<>>, f.target)
    [] f.name = "hysteria2" -> foreign_tcp_request(f.form = "marked", f.target)
    [] f.name = "vless response" -> write_vless_response
    [] f.name = "vmess response" -> write_response_header
    [] f.name = "vmess legacy response" -> foreign_legacy_response
    [] f.name = "http connected" -> http_connect_response
    [] f.name \in {"shadowsocks", "shadowsocks client", "anytls"} -> Clear(ss_encode_socks_target(f.target))

Refused(f) == f.codec = "request" /\ HeadOf(f) = <<>>

\* The head goes first, with the bytes of the first write behind it or in its
\* first chunk or frame.
Headed(f, c, s, head) ==
  LET named == [c EXCEPT !.named = TRUE]
  IN CASE f.name = "shadowsocks" ->
            IF c.named THEN ShadowsocksWriter(c, s)
            ELSE LET w == ss_write_chunk(named, Values(head)) r == ShadowsocksWriter(w.codec, s) IN
                 Sent(w.cells \o r.cells, r.codec)
       [] f.name = "shadowsocks client" ->
            ShadowsocksWriter(named, IF c.named THEN s ELSE Values(head) \o s)
       [] f.name = "anytls" -> AnyTlsWriter(named, IF c.named THEN s ELSE Values(head) \o s)
       [] OTHER -> Sent(IF c.named THEN Clear(s) ELSE head \o Clear(s), named)

EncodeRequest(f, c, s) == Headed(f, c, s, HeadOf(f))

DecodeHead(f, c, b) ==
  LET v == Values(b)
      flow == IF f.form = "none" THEN <<>> ELSE Flow
  IN CASE f.name = "trojan" -> trojan_read_request(c, v)
       [] f.name = "trojan websocket" -> trojan_read_request_from_async_websocket(c, v)
       [] f.name = "vless" -> vless_read_request(c, v, flow)
       [] f.name = "vless async" -> vless_read_request_async(c, v, flow)
       [] f.name = "vless websocket" -> vless_read_request_from_async_websocket(c, v, flow)
       [] f.name = "vmess" -> open_aead_header(c, b)
       [] f.name = "socks5" -> read_command_request(c, v)
       [] f.name = "socks5 reply" -> read_socks5_reply_target(c, v)
       [] f.name = "socks5 connected" -> read_socks5_connect_reply(c, v)
       [] f.name = "http" -> http_read_request(c, v)
       [] f.name = "naive" -> parse_connect_target(c, v)
       [] f.name \in {"shadowsocks", "shadowsocks client"} -> shadowsocks_read_request(c, b)
       [] f.name = "anytls" -> handle_psh(c, b)
       [] f.name = "uot" -> handle_udp_psh(c, v)
       [] f.name = "mieru" -> read_socks_request_from_mieru(c, v)
       [] f.name = "tuic" -> handle_connect_stream(c, v)
       [] f.name = "hysteria2" -> read_tcp_target(c, v)
       [] f.name = "vless response" -> read_vless_response_header(c, v)
       [] f.name = "vmess response" -> read_vmess_response_header(c, b)
       [] f.name = "vmess legacy response" -> read_legacy_vmess_response_header(c, v)
       [] f.name = "http connected" -> read_http_connect_response(c, v)

DecodeRequest(f, c, b) ==
  CASE ~c.named -> DecodeHead(f, c, b)
    [] c.named /\ f.name \in {"shadowsocks", "shadowsocks client"} -> ss_read_chunk(c, b)
    [] c.named /\ f.name = "anytls" -> read_frames(c, b)
    [] OTHER -> IF b = <<>> THEN More(c) ELSE Data(Len(b), Values(b), c)

\* What a write means to the reader; heads that name no target mean nothing.
Meaning(f, c, s) ==
  CASE f.packets -> Packet(f.target, s)
    [] f.codec = "request" /\ ~c.named /\ f.target.host # <<>> /\ f.name # "socks5 connected" -> Name(f.target) \o s
    [] OTHER -> s

\* What a write puts on the wire; fin and looks matter to the WebSocket client
\* and to Vision.
Encode(f, c, s, fin, looks) ==
  CASE f.codec = "ws client" -> client_frame_bytes(c, s, fin)
    [] f.codec = "ws server" -> server_frame_header(c, s)
    [] f.codec = "grpc" -> encode_grpc_hunk(c, s)
    [] f.codec = "grpc foreign" -> foreign_grpc_hunk(c, s)
    [] f.codec = "vmess" -> IF f.packets THEN write_chunk(f, c, s) ELSE write_plain(f, c, s)
    [] f.codec = "shadowsocks" -> ShadowsocksWriter(c, s)
    [] f.codec = "mieru" -> MieruWriter(f, c, s)
    [] f.codec = "anytls" -> AnyTlsWriter(c, s)
    [] f.codec = "naive" -> NaivePaddedWriter(c, s)
    [] f.codec = "vision" -> VisionEncoder(c, s, looks)
    [] f.codec = "request" -> EncodeRequest(f, c, s)
    [] f.codec = "trojan" -> Sent(encode_trojan_udp_packet(f.target, s), c)
    [] f.codec = "vless" -> Sent(write_vless_udp_payload(s), c)
    [] f.codec = "uot" -> Sent(encode_uot_packet(f.target, s), c)
    [] f.codec = "mieru udp" -> Sent(encode_mieru_udp_frame(encode_socks_udp_packet(f.target, s)), c)

Decode(f, c, b) ==
  CASE f.codec = "ws client" -> parse_buffered_raw_frame(c, b, TRUE)
    [] f.codec = "ws server" -> parse_buffered_raw_frame(c, b, FALSE)
    [] f.codec \in {"grpc", "grpc foreign"} -> take_grpc_message(c, b)
    [] f.codec = "vmess" ->
         LET r == read_next_chunk(f, c, b) IN
         IF f.packets /\ r.is = "data" THEN [r EXCEPT !.data = Marked(@)] ELSE r
    [] f.codec = "shadowsocks" -> ss_read_chunk(c, b)
    [] f.codec = "mieru" -> read_segment(c, b)
    [] f.codec = "anytls" -> read_frames(c, b)
    [] f.codec = "naive" -> NaivePaddedReader(c, b)
    [] f.codec = "vision" -> process_buffer(c, b)
    [] f.codec = "request" -> DecodeRequest(f, c, b)
    [] f.codec = "trojan" -> parse_trojan_udp_packet_from_buffer(c, b)
    [] f.codec = "vless" -> read_vless_udp_payload(c, b)
    [] f.codec = "uot" -> parse_uot_packet(f.target.host = <<>>, c, b)
    [] f.codec = "mieru udp" -> take_mieru_udp_frame(c, b)

\* The last words of a writer that closes.
Farewell(f, c) ==
  CASE f.codec = "ws client" -> client_control_frame(OPCODE_CLOSE)
    [] f.codec = "ws server" -> frame_bytes(OPCODE_CLOSE, <<>>)
    [] f.codec = "vmess" -> write_chunk(f, c, <<>>).cells
    [] f.codec = "mieru" -> encode_segment_body(c, CLOSE_SESSION_REQUEST, <<>>, 0, 0).cells
    [] f.codec = "anytls" -> write_frame(CMD_FIN, <<>>)
    [] f.codec = "vision" -> finish_padding(c).cells
    [] OTHER -> <<>>

\* Frames that carry nothing.
Chatter(f, c) ==
  CASE f.codec = "ws client" -> Sent(client_control_frame(OPCODE_PING), c)
    [] f.codec = "ws server" -> Sent(frame_bytes(OPCODE_PING, <<5>>), c)
    [] f.codec = "anytls" -> Sent(write_frame(CMD_WASTE, <<9>>), c)
    [] f.codec = "vision" -> empty_long_padding_frame(c)
    [] OTHER -> Sent(<<>>, c)

-----------------------------------------------------------------------------
Init ==
  /\ format \in Formats
  /\ encoder = Codec /\ decoder = Codec
  /\ wire = <<>> /\ input = <<>> /\ buffer = <<>> /\ written = <<>> /\ delivered = <<>>
  /\ writes = MaxWrites /\ writer = "open" /\ reader = "reading"

Bytes(n) == [i \in 1..n |-> 1 + ((Len(written) + i) % 13)]

Write(n, fin, looks) ==
  /\ writer = "open" /\ writes > 0 /\ ~Refused(format)
  /\ n \in IF format.packets \/ format.codec = "request" THEN PacketSizes ELSE Sizes
  /\ format.name = "http" => IF encoder.named THEN decoder.named ELSE n = 0   \* the client waits
  /\ format.codec # "ws client" => fin
  /\ format.codec # "vision" => looks = "other"
  /\ format.codec = "vision" => n <= U16Max    \* its callers read 16 KiB at a time
  /\ \E s \in {Bytes(n)} : \E sent \in {Encode(format, encoder, s, fin, looks)} :
     /\ wire' = wire \o sent.cells /\ encoder' = sent.codec
     /\ written' = written \o Meaning(format, encoder, s)
  /\ writes' = writes - 1
  /\ UNCHANGED <<format, decoder, input, buffer, delivered, writer, reader>>

\* An encoder that refuses the target gives the connection up.
Refuse ==
  /\ writer = "open" /\ Refused(format)
  /\ writer' = "cut"
  /\ UNCHANGED <<format, encoder, decoder, wire, input, buffer, written, delivered, writes, reader>>

Chat ==
  /\ writer = "open" /\ writes > 0
  /\ \E sent \in {Chatter(format, encoder)} :
     /\ sent.cells # <<>>
     /\ wire' = wire \o sent.cells /\ encoder' = sent.codec
  /\ writes' = writes - 1
  /\ UNCHANGED <<format, decoder, input, buffer, written, delivered, writer, reader>>

Finish ==
  /\ writer = "open"
  /\ wire' = wire \o Farewell(format, encoder)
  /\ writer' = "finished"
  /\ UNCHANGED <<format, encoder, decoder, input, buffer, written, delivered, writes, reader>>

\* The connection breaks, and what is on the way with it.
Cut ==
  /\ writer = "open" /\ written # <<>>
  /\ wire' = <<>> /\ writer' = "cut"
  /\ UNCHANGED <<format, encoder, decoder, input, buffer, written, delivered, writes, reader>>

\* The reader has used up what it has and reads from the transport.
Waits == reader = "reading" /\ buffer = <<>> /\ Decode(format, decoder, input).is = "more"

Arrive(n) ==
  /\ Waits /\ n <= Len(wire)
  /\ input' = input \o SubSeq(wire, 1, n) /\ wire' = From(wire, n + 1)
  /\ UNCHANGED <<format, encoder, decoder, buffer, written, delivered, writes, writer, reader>>

Process ==
  /\ reader = "reading" /\ buffer = <<>>
  /\ \E r \in {Decode(format, decoder, input)} :
     /\ r.is # "more"
     /\ input' = From(input, r.used + 1) /\ buffer' = r.data /\ decoder' = r.codec
     /\ reader' = CASE r.is = "end" -> "ended" [] r.is = "error" -> "failed" [] OTHER -> reader
  /\ UNCHANGED <<format, encoder, wire, written, delivered, writes, writer>>

\* A read hands out as much as there is room for; a packet goes as a whole.
Read(n) ==
  /\ n = Len(buffer) \/ (n = 1 /\ ~format.packets)
  /\ n \in 1..Len(buffer)
  /\ delivered' = delivered \o SubSeq(buffer, 1, n) /\ buffer' = From(buffer, n + 1)
  /\ UNCHANGED <<format, encoder, decoder, wire, input, written, writes, writer, reader>>

\* The transport is at its end. A VMess reader accepts that between chunks, one
\* that reads exactly never, nor one that reads a head; a Vision reader gives
\* out what it held back.
Eof ==
  /\ Waits /\ wire = <<>> /\ writer # "open"
  /\ reader' = IF format.exact \/ (format.codec \in {"vmess", "mieru udp"} /\ input # <<>>)
                    \/ (format.codec = "request" /\ ~decoder.named)
               THEN "short" ELSE "ended"
  /\ delivered' = IF format.codec = "vision" /\ ~decoder.started THEN delivered \o Values(input) ELSE delivered
  /\ input' = <<>>
  /\ UNCHANGED <<format, encoder, decoder, wire, buffer, written, writes, writer>>

\* The bridge of a Shadowsocks outbound reads with a timeout; a read that is
\* interrupted loses what it took and ends the download.
Interrupt ==
  /\ Waits /\ format.codec = "shadowsocks"
  /\ reader' = "interrupted" /\ input' = <<>>
  /\ UNCHANGED <<format, encoder, decoder, wire, buffer, written, delivered, writes, writer>>

Done == reader # "reading" /\ buffer = <<>> /\ UNCHANGED vars

Next ==
  \/ \E n \in Sizes \cup PacketSizes, fin \in BOOLEAN, looks \in Looks : Write(n, fin, looks)
  \/ Refuse \/ Chat \/ Finish \/ Cut
  \/ \E n \in 1..Len(wire) : Arrive(n)
  \/ Process
  \/ \E n \in 1..Len(buffer) : Read(n)
  \/ Eof \/ Interrupt \/ Done

Spec == Init /\ [][Next]_vars

-----------------------------------------------------------------------------
\* A Vision stream that breaks before its first block is taken for one without
\* Vision: its reader gives out the bytes of the user's id.
Mistaken == format.codec = "vision" /\ ~decoder.started /\ reader = "ended"

\* To VMess an empty packet is the end of the stream.
Hushed ==
  /\ format.codec = "vmess" /\ format.packets /\ reader = "ended"
  /\ \E i \in 1..Len(written) : written[i] = 0 /\ (i > 1 => written[i - 1] = 0)

\* However the transport cuts the bytes up, a reader delivers a prefix of what
\* was written, the target a head or a packet names included, and never refuses
\* what it reads; and when it has read all there is and waits for more, or has
\* come to the end a writer gave the stream, it has delivered everything
\* (websocket.rs 1156-1240, grpc.rs 373-545, vmess.rs 1137-1372 and 1596-1723,
\* shadowsocks.rs 668-775, mieru.rs 734-1170 and 1409-1541, anytls.rs 297-347,
\* naive.rs 785-880, vision.rs 283-354, trojan.rs 500-541, vless.rs 837-893).
FramesAreWhole ==
  /\ Mistaken \/ IsPrefix(delivered \o buffer, written)
  /\ reader # "failed"
  /\ Waits /\ wire = <<>> /\ writer # "cut" => delivered = written
  /\ reader \in {"ended", "short"} /\ buffer = <<>> /\ writer = "finished"
       => delivered = written \/ Hushed
=============================================================================
