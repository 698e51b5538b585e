------------------------------- MODULE Framing -------------------------------
(***************************************************************************)
(* How the protocols frame a stream of bytes or a series of packets:       *)
(* WebSocket frames, gRPC hunks, VMess and Shadowsocks chunks, Mieru       *)
(* segments, AnyTLS frames, Naive padding, Vision blocks and the packets   *)
(* of UDP over streams. An encoder turns a write into the bytes it puts on *)
(* the wire, a decoder takes what has arrived and says what it makes of it.*)
(*                                                                         *)
(* A byte on the wire is a pair: the key it is sealed with (0 if none) and *)
(* its value. Lengths are scaled down as in Targets; a u64 has three       *)
(* digits, a tag has one byte, a random prefix two.                        *)
(***************************************************************************)
EXTENDS Targets, Bitwise

Nonces == 8               \* a nonce is a counter that wraps
MaxPadding == 3
MAX_CHUNK_SIZE == U16Max + 1 - (1 + MaxPadding + 1)
MAX_CHUNK_LEN == 9
MAX_TCP_FRAGMENT_LEN == 9
PADDING_FRAMES == 2
MAX_FRAME == 40
DEFAULT_PACKET_FILTER_COUNT == 2

Lesser(a, b) == IF a <= b THEN a ELSE b
Clear(s) == [i \in DOMAIN s |-> <<0, s[i]>>]
Value(cells, i) == cells[i][2]
Values(cells) == [i \in DOMAIN cells |-> cells[i][2]]
u64(n) == <<n \div (Base * Base)>> \o u16(n % (Base * Base))
U16At(cells, i) == Value(cells, i) * Base + Value(cells, i + 1)
U64At(cells, i) == Value(cells, i) * Base * Base + U16At(cells, i + 1)
Filler(n) == [i \in 1..n |-> 9]
Pieces(s, n) ==
  [i \in 1..((Len(s) + n - 1) \div n) |-> SubSeq(s, (i - 1) * n + 1, Lesser(i * n, Len(s)))]

Tag == 7
Seal(key, s) == [i \in 1..(Len(s) + 1) |-> <<key, IF i <= Len(s) THEN s[i] ELSE Tag>>]
Opens(key, cells) == \A i \in DOMAIN cells : cells[i][1] = key
Open(cells) == SubSeq(Values(cells), 1, Len(cells) - 1)

(* What is remembered from one frame to the next, at either end.           *)
Codec ==
  [started |-> FALSE, named |-> FALSE, nonce |-> 0, length_nonce |-> 0, shake |-> 0, frames |-> 0,
   fragmented |-> FALSE, plain |-> FALSE, command |-> 0, content |-> 0, padding |-> 0,
   tls |-> FALSE, tls12 |-> FALSE, filter |-> DEFAULT_PACKET_FILTER_COUNT]

Sent(cells, c) == [cells |-> cells, codec |-> c]

\* What a decoder makes of the bytes it has: it waits for more, takes some of
\* them for data or for something else, ends, or fails.
More(c) == [is |-> "more", used |-> 0, data |-> <<>>, codec |-> c]
Data(n, s, c) == [is |-> "data", used |-> n, data |-> s, codec |-> c]
Other(n, c) == [is |-> "other", used |-> n, data |-> <<>>, codec |-> c]
End(c) == [is |-> "end", used |-> 0, data |-> <<>>, codec |-> c]
Fails(c) == [is |-> "error", used |-> 0, data |-> <<>>, codec |-> c]

Marked(s) == Append(s, 0)  \* a packet, in a series of them

-----------------------------------------------------------------------------
(* WebSocket.                                                              *)
OPCODE_CONTINUATION == 0
OPCODE_BINARY == 2
OPCODE_CLOSE == 8
OPCODE_PING == 9

Mask == <<1, 2>>
Masked(s) == [i \in DOMAIN s |-> s[i] ^^ Mask[1 + ((i - 1) % 2)]]

frame_head(fin, opcode, masked, n) ==
  LET second(k) == k + IF masked THEN 16 ELSE 0 IN
  <<opcode + IF fin THEN 16 ELSE 0>> \o
    IF n < Base THEN <<second(n)>>
    ELSE IF n <= U16Max THEN <<second(Base)>> \o u16(n)
    ELSE <<second(Base + 1)>> \o u64(n)

frame_bytes(opcode, s) == Clear(frame_head(TRUE, opcode, FALSE, Len(s)) \o s)

server_frame_header(c, s) == Sent(frame_bytes(OPCODE_BINARY, s), c)

\* A client may leave its message open and go on with it in its next frame.
client_frame_bytes(c, s, fin) ==
  Sent(Clear(frame_head(fin, IF c.fragmented THEN OPCODE_CONTINUATION ELSE OPCODE_BINARY, TRUE, Len(s))
               \o Mask \o Masked(s)),
       [c EXCEPT !.fragmented = ~fin])

client_control_frame(opcode) == Clear(frame_head(TRUE, opcode, TRUE, 1) \o Mask \o Masked(<<5>>))

validate_control_frame(fin, s) == fin /\ Len(s) < Base

accept(c, fin, opcode, n, s) ==
  CASE opcode = OPCODE_BINARY ->
         IF c.fragmented THEN Fails(c) ELSE Data(n, s, [c EXCEPT !.fragmented = ~fin])
    [] opcode = OPCODE_CONTINUATION ->
         IF ~c.fragmented THEN Fails(c) ELSE Data(n, s, [c EXCEPT !.fragmented = ~fin])
    [] opcode = OPCODE_PING -> IF validate_control_frame(fin, s) THEN Other(n, c) ELSE Fails(c)
    [] opcode = OPCODE_CLOSE -> IF validate_control_frame(fin, s) THEN End(c) ELSE Fails(c)
    [] OTHER -> Fails(c)

parse_buffered_raw_frame(c, b, expect_masked) ==
  IF Len(b) < 2 THEN More(c)
  ELSE
    LET masked == Value(b, 2) >= 16
        short == Value(b, 2) % 16
        extra == CASE short = Base -> 2 [] short = Base + 1 -> 3 [] OTHER -> 0
        offset == 2 + extra + IF masked THEN Len(Mask) ELSE 0
        len == CASE extra = 2 -> U16At(b, 3) [] extra = 3 -> U64At(b, 3) [] OTHER -> short
    IN CASE masked # expect_masked -> Fails(c)
         [] masked = expect_masked /\ Len(b) < 2 + extra -> More(c)
         [] OTHER ->
              IF len > MAX_FRAME THEN Fails(c)
              ELSE IF Len(b) < offset + len THEN More(c)
              ELSE LET s == Values(SubSeq(b, offset + 1, offset + len)) IN
                   accept(c, Value(b, 1) >= 16, Value(b, 1) % 16, offset + len,
                          IF masked THEN Masked(s) ELSE s)

-----------------------------------------------------------------------------
(* gRPC. A message has fields; only field 1 carries the data.              *)
encode_varint(n) == IF n >= Base THEN <<Base + (n % Base), n \div Base>> ELSE <<n>>

\* A varint at i of a message: its value and the place after it.
decode_varint(m, i) ==
  IF m[i] >= Base THEN [value |-> (m[i] % Base) + Base * m[i + 1], next |-> i + 2]
  ELSE [value |-> m[i], next |-> i + 1]

DataField == 10    \* field 1, bytes
VarintField == 16  \* field 2, a number
BytesField == 18   \* field 2, bytes

encode_hunk_message(s) == <<DataField>> \o encode_varint(Len(s)) \o s

encode_grpc_hunk(c, s) ==
  LET m == encode_hunk_message(s) IN Sent(Clear(<<0>> \o u64(Len(m)) \o m), c)

\* Another implementation may put further fields around the data.
foreign_grpc_hunk(c, s) ==
  LET m == <<VarintField>> \o encode_varint(6) \o encode_hunk_message(s) \o <<BytesField, 2, 3, 3>>
  IN Sent(Clear(<<0>> \o u64(Len(m)) \o m), c)

RECURSIVE decode_hunk_message(_, _, _)
decode_hunk_message(m, cursor, s) ==
  IF cursor > Len(m) THEN s
  ELSE LET v == decode_varint(m, cursor + 1) IN
       CASE m[cursor] = DataField ->
              decode_hunk_message(m, v.next + v.value, SubSeq(m, v.next, v.next + v.value - 1))
         [] m[cursor] = VarintField -> decode_hunk_message(m, v.next, s)
         [] m[cursor] = BytesField -> decode_hunk_message(m, v.next + v.value, s)

take_grpc_message(c, b) ==
  IF Len(b) < 4 THEN More(c)
  ELSE IF Value(b, 1) # 0 \/ U64At(b, 2) > MAX_FRAME THEN Fails(c)
  ELSE IF Len(b) < 4 + U64At(b, 2) THEN More(c)
  ELSE Data(4 + U64At(b, 2), decode_hunk_message(Values(SubSeq(b, 5, 4 + U64At(b, 2))), 1, <<>>), c)

-----------------------------------------------------------------------------
(* VMess. The size of a chunk is clear, masked or sealed. The same stream  *)
(* of pseudorandom numbers gives the lengths of paddings and the masks.    *)
next_mask_from(shake) == (5 + 7 * shake) % (U16Max + 1)

overhead(f) == IF f.sealed THEN 1 ELSE 0

\* The length of the padding, drawn before the size.
next_padding_len(f, c) == IF f.padded THEN next_mask_from(c.shake) % (MaxPadding + 1) ELSE 0
AfterPadding(f, c) == [c EXCEPT !.shake = IF f.padded THEN (@ + 1) % 16 ELSE @]

LengthKey(c) == 100 + c.length_nonce
ChunkKey(c) == 1 + c.nonce
NextNonce(n) == (n + 1) % Nonces

seal_size(c, n) == Sent(Seal(LengthKey(c), u16(n - 1)), [c EXCEPT !.length_nonce = NextNonce(@)])

open_size(c, b) ==
  [ok |-> Opens(LengthKey(c), SubSeq(b, 1, 3)), n |-> U16At(b, 1) + 1,
   codec |-> [c EXCEPT !.length_nonce = NextNonce(@)]]

encode_size(f, c, n) ==
  CASE f.size = "plain" -> Sent(Clear(u16(n)), c)
    [] f.size = "masked" -> Sent(Clear(u16(n ^^ next_mask_from(c.shake))), [c EXCEPT !.shake = (@ + 1) % 16])
    [] f.size = "sealed" -> seal_size(c, n)

size_bytes(f) == IF f.size = "sealed" THEN 3 ELSE 2

decode_size(f, c, b) ==
  CASE f.size = "plain" -> [ok |-> TRUE, n |-> U16At(b, 1), codec |-> c]
    [] f.size = "masked" ->
         [ok |-> TRUE, n |-> U16At(b, 1) ^^ next_mask_from(c.shake), codec |-> [c EXCEPT !.shake = (@ + 1) % 16]]
    [] f.size = "sealed" -> open_size(c, b)

write_chunk(f, c, s) ==
  LET padding == next_padding_len(f, c)
      after == AfterPadding(f, c)
      payload == IF f.sealed THEN Seal(ChunkKey(c), s) ELSE Clear(s)
      size == encode_size(f, after, Len(payload) + padding)
  IN Sent(size.cells \o payload \o Clear(Filler(padding)),
          [size.codec EXCEPT !.nonce = IF f.sealed THEN NextNonce(@) ELSE @])

\* Mutant: the decoder takes the mask of the size before the padding's.
size_before_padding(f, c, b) ==
  IF Len(b) < size_bytes(f) THEN More(c)
  ELSE LET size == decode_size(f, c, b)
           padding == next_padding_len(f, size.codec)
           d == AfterPadding(f, size.codec)
           end == size_bytes(f) + size.n
       IN IF ~size.ok \/ size.n < overhead(f) + padding THEN Fails(c)
          ELSE IF size.n = overhead(f) + padding THEN End(d)
          ELSE IF Len(b) < end THEN More(c)
          ELSE LET chunk == SubSeq(b, size_bytes(f) + 1, end - padding) IN
               IF ~f.sealed THEN Data(end, Values(chunk), d)
               ELSE IF Opens(ChunkKey(d), chunk) THEN Data(end, Open(chunk), [d EXCEPT !.nonce = NextNonce(@)])
               ELSE Fails(c)

read_next_chunk(f, c, b) ==
  IF Len(b) < size_bytes(f) THEN More(c)
  ELSE LET padding == next_padding_len(f, c)
           size == decode_size(f, AfterPadding(f, c), b)
           d == size.codec
           end == size_bytes(f) + size.n
       IN IF ~size.ok \/ size.n < overhead(f) + padding THEN Fails(c)
          ELSE IF size.n = overhead(f) + padding THEN End(d)
          ELSE IF Len(b) < end THEN More(c)
          ELSE LET chunk == SubSeq(b, size_bytes(f) + 1, end - padding) IN
               IF ~f.sealed THEN Data(end, Values(chunk), d)
               ELSE IF Opens(ChunkKey(d), chunk) THEN Data(end, Open(chunk), [d EXCEPT !.nonce = NextNonce(@)])
               ELSE Fails(c)

write_plain(f, c, s) ==
  FoldLeft(LAMBDA sent, piece : LET w == write_chunk(f, sent.codec, piece) IN
                                Sent(sent.cells \o w.cells, w.codec),
           Sent(<<>>, c), Pieces(s, MAX_CHUNK_SIZE))

-----------------------------------------------------------------------------
(* Shadowsocks: a salt, then the length and the payload of each chunk, two *)
(* nonces apart. A write takes no more than a chunk and is repeated.       *)
Salt == Clear(<<6, 6>>)

ss_write_chunk(c, s) ==
  Sent((IF c.started THEN <<>> ELSE Salt) \o Seal(ChunkKey(c), u16(Len(s)))
         \o Seal(1 + NextNonce(c.nonce), s),
       [c EXCEPT !.started = TRUE, !.nonce = NextNonce(NextNonce(@))])

ShadowsocksWriter(c, s) ==
  FoldLeft(LAMBDA sent, piece : LET w == ss_write_chunk(sent.codec, piece) IN
                                Sent(sent.cells \o w.cells, w.codec),
           Sent(<<>>, c), Pieces(s, MAX_CHUNK_LEN))

ss_read_chunk(c, b) ==
  IF ~c.started THEN IF Len(b) < Len(Salt) THEN More(c) ELSE Other(Len(Salt), [c EXCEPT !.started = TRUE])
  ELSE IF Len(b) < 3 THEN More(c)
  ELSE LET len == U16At(b, 1) IN
       IF ~Opens(ChunkKey(c), SubSeq(b, 1, 3)) \/ len \notin 1..MAX_CHUNK_LEN THEN Fails(c)
       ELSE IF Len(b) < 4 + len THEN More(c)
       ELSE IF Opens(1 + NextNonce(c.nonce), SubSeq(b, 4, 4 + len))
            THEN Data(4 + len, Open(SubSeq(b, 4, 4 + len)), [c EXCEPT !.nonce = NextNonce(NextNonce(@))])
            ELSE Fails(c)

-----------------------------------------------------------------------------
(* Mieru: a nonce before the first segment, the sealed metadata of each,   *)
(* its prefix, its sealed payload if it has one, and its suffix.           *)
OPEN_SESSION_REQUEST == 2
CLOSE_SESSION_REQUEST == 4
DATA_CLIENT_TO_SERVER == 6

encode_metadata(type, prefix, n, suffix) == <<type, prefix>> \o u16(n) \o <<suffix>>
ENCRYPTED_METADATA_LEN == 6

encode_segment_body(c, type, s, prefix, suffix) ==
  Sent((IF c.started THEN <<>> ELSE Salt)
         \o Seal(ChunkKey(c), encode_metadata(type, prefix, Len(s), suffix)) \o Clear(Filler(prefix))
         \o (IF s = <<>> THEN <<>> ELSE Seal(1 + NextNonce(c.nonce), s)) \o Clear(Filler(suffix)),
       [c EXCEPT !.started = TRUE, !.nonce = IF s = <<>> THEN NextNonce(@) ELSE NextNonce(NextNonce(@))])

\* The client pads its segments, the server does not.
MieruWriter(f, c, s) ==
  FoldLeft(LAMBDA sent, piece :
             LET pad == IF f.padded THEN Len(piece) % 3 ELSE 0
                 w == encode_segment_body(sent.codec, DATA_CLIENT_TO_SERVER, piece, pad, 2 * pad)
             IN Sent(sent.cells \o w.cells, w.codec),
           Sent(<<>>, c), Pieces(s, MAX_TCP_FRAGMENT_LEN))

parse_metadata(m) ==
  [type |-> Value(m, 1), prefix |-> Value(m, 2), len |-> U16At(m, 3), suffix |-> Value(m, 5),
   ok |-> U16At(m, 3) <= MAX_TCP_FRAGMENT_LEN]

\* The segment with metadata m, whose payload follows the prefix.
SegmentAt(m, start, c, b) ==
  LET payload == start + ENCRYPTED_METADATA_LEN + m.prefix
      sealed == IF m.len = 0 THEN 0 ELSE m.len + 1
      consumed == payload + sealed + m.suffix
      body == SubSeq(b, payload + 1, payload + sealed)
      d == [c EXCEPT !.started = TRUE, !.nonce = IF m.len = 0 THEN NextNonce(@) ELSE NextNonce(NextNonce(@))]
  IN IF ~m.ok THEN Fails(c)
     ELSE IF Len(b) < consumed THEN More(c)
     ELSE IF m.len > 0 /\ ~Opens(1 + NextNonce(c.nonce), body) THEN Fails(c)
     ELSE CASE m.type = DATA_CLIENT_TO_SERVER -> Data(consumed, Open(body), d)
            [] m.type = CLOSE_SESSION_REQUEST -> End(d)
            [] OTHER -> Other(consumed, d)

try_decode_segment(c, b, offset) ==
  LET start == offset + IF c.started THEN 0 ELSE Len(Salt)
      metadata == SubSeq(b, start + 1, start + ENCRYPTED_METADATA_LEN)
  IN IF Len(b) < start + ENCRYPTED_METADATA_LEN THEN More(c)
     ELSE IF ~Opens(ChunkKey(c), metadata) THEN Fails(c)
     ELSE SegmentAt(parse_metadata(metadata), start, c, b)

\* The first place where a segment may start; what is before it is skipped.
read_segment(c, b) ==
  LET offsets == 0..(IF Len(b) > ENCRYPTED_METADATA_LEN THEN Len(b) - ENCRYPTED_METADATA_LEN ELSE 0)
      starts == {o \in offsets : try_decode_segment(c, b, o).is # "error"}
  IN IF starts = {} THEN More(c) ELSE try_decode_segment(c, b, Min(starts))

-----------------------------------------------------------------------------
(* AnyTLS: the frames of one stream among those that carry nothing of it.  *)
CMD_WASTE == 0
CMD_PSH == 2
CMD_FIN == 3

write_frame(command, s) == Clear(<<command, 1>> \o u16(Len(s)) \o s)

\* What is read from the other side is never more than a frame holds.
AnyTlsWriter(c, s) == Sent(FlattenSeq([i \in DOMAIN Pieces(s, U16Max) |-> write_frame(CMD_PSH, Pieces(s, U16Max)[i])]), c)

read_frames(c, b) ==
  IF Len(b) < 4 THEN More(c)
  ELSE IF Len(b) < 4 + U16At(b, 3) THEN More(c)
  ELSE LET end == 4 + U16At(b, 3) IN
       CASE Value(b, 1) = CMD_PSH -> Data(end, Values(SubSeq(b, 5, end)), c)
         [] Value(b, 1) = CMD_WASTE -> Other(end, c)
         [] Value(b, 1) = CMD_FIN -> End(c)
         [] OTHER -> Fails(c)

-----------------------------------------------------------------------------
(* Naive: the first frames are padded, the rest is sent as it is. Content  *)
(* is handed on before its frame is complete.                              *)
NaivePaddedWriter(c, s) ==
  LET pieces == Pieces(s, U16Max)
      framed == Lesser(Len(pieces), PADDING_FRAMES - c.frames)
      frame(i) == LET pad == (Len(s) + i) % 3 IN u16(Len(pieces[i])) \o <<pad>> \o pieces[i] \o Filler(pad)
  IN Sent(Clear(FlattenSeq([i \in DOMAIN pieces |-> IF i <= framed THEN frame(i) ELSE pieces[i]])),
          [c EXCEPT !.frames = @ + framed])

NaivePaddedReader(c, b) ==
  CASE b = <<>> -> More(c)
    [] b # <<>> /\ c.content > 0 ->
         LET n == Lesser(c.content, Len(b)) IN Data(n, Values(SubSeq(b, 1, n)), [c EXCEPT !.content = @ - n])
    [] b # <<>> /\ c.content = 0 /\ c.padding > 0 ->
         LET n == Lesser(c.padding, Len(b)) IN Other(n, [c EXCEPT !.padding = @ - n])
    [] OTHER ->
         IF c.frames >= PADDING_FRAMES THEN Data(Len(b), Values(b), c)
         ELSE IF Len(b) < 3 THEN More(c)
         ELSE Other(3, [c EXCEPT !.frames = @ + 1, !.content = U16At(b, 1), !.padding = Value(b, 3)])

-----------------------------------------------------------------------------
(* Vision: the user's id, then blocks of content and padding until a TLS   *)
(* record of data or the end of the filter; after that, nothing is added.  *)
COMMAND_PADDING_CONTINUE == 0
COMMAND_PADDING_END == 1
COMMAND_PADDING_DIRECT == 2
UserId == <<6, 6>>

Block(c, command, s, pad) ==
  Clear((IF c.started THEN <<>> ELSE UserId) \o <<command>> \o u16(Len(s)) \o u16(pad) \o s \o Filler(pad))

\* What a write looks like to the filter.
filter_tls(c, looks) ==
  [c EXCEPT !.filter = IF looks = "server_hello" THEN 0 ELSE IF @ > 0 THEN @ - 1 ELSE 0,
            !.tls = @ \/ looks \in {"server_hello", "client_hello"},
            !.tls12 = @ \/ looks = "server_hello"]

next_command(c, looks) ==
  IF c.tls /\ looks = "application" THEN COMMAND_PADDING_DIRECT
  ELSE IF ~c.tls12 /\ c.filter <= 1 THEN COMMAND_PADDING_END
  ELSE COMMAND_PADDING_CONTINUE

VisionEncoder(c, s, looks) ==
  IF c.plain \/ s = <<>> THEN Sent(Clear(s), c)
  ELSE LET d == filter_tls(c, looks)
           command == next_command(d, looks)
           payload == SubSeq(s, 1, Lesser(Len(s), U16Max))
       IN Sent(Block(c, command, payload, IF d.tls THEN 3 ELSE Len(s) % 3) \o Clear(From(s, U16Max + 1)),
               [d EXCEPT !.started = TRUE, !.plain = command # COMMAND_PADDING_CONTINUE])

empty_long_padding_frame(c) ==
  IF c.plain THEN Sent(<<>>, c)
  ELSE Sent(Block(c, COMMAND_PADDING_CONTINUE, <<>>, 3), [c EXCEPT !.started = TRUE])

finish_padding(c) ==
  IF c.plain THEN Sent(<<>>, c)
  ELSE Sent(Block(c, COMMAND_PADDING_END, <<>>, 0), [c EXCEPT !.started = TRUE, !.plain = TRUE])

\* A block is over: the next one follows, or the rest is plain.
Settled(c) ==
  IF c.content = 0 /\ c.padding = 0 /\ c.command # COMMAND_PADDING_CONTINUE
  THEN [c EXCEPT !.plain = TRUE] ELSE c

process_buffer(c, b) ==
  CASE b = <<>> -> More(c)
    [] b # <<>> /\ c.plain -> Data(Len(b), Values(b), c)
    [] b # <<>> /\ ~c.plain /\ ~c.started ->
         IF Len(b) < Len(UserId) + 5 THEN More(c)
         ELSE IF Values(SubSeq(b, 1, Len(UserId))) = UserId THEN Other(Len(UserId), [c EXCEPT !.started = TRUE])
         ELSE Data(Len(b), Values(b), [c EXCEPT !.started = TRUE, !.plain = TRUE])
    [] OTHER ->
         IF c.content > 0
         THEN LET n == Lesser(c.content, Len(b)) IN
              Data(n, Values(SubSeq(b, 1, n)), Settled([c EXCEPT !.content = @ - n]))
         ELSE IF c.padding > 0
         THEN LET n == Lesser(c.padding, Len(b)) IN Other(n, Settled([c EXCEPT !.padding = @ - n]))
         ELSE IF Len(b) < 5 THEN More(c)
         ELSE IF Value(b, 1) > COMMAND_PADDING_DIRECT THEN Fails(c)
         ELSE Other(5, Settled([c EXCEPT !.command = Value(b, 1), !.content = U16At(b, 2), !.padding = U16At(b, 4)]))

-----------------------------------------------------------------------------
(* Packets over streams; all but VLESS's name their target.                *)
Packet(target, s) == (IF target.host = <<>> THEN <<>> ELSE Name(target)) \o Marked(s)

Crlf == 11

encode_trojan_udp_packet(t, s) == Clear(write_trojan_target(t) \o u16(Len(s)) \o <<Crlf>> \o s)

\* The length, the separator and the data behind the target a.
TrojanPacketAt(a, c, b) ==
  LET end == a.next + 2 + U16At(b, a.next) IN
  IF a.is = "bad" THEN Fails(c)
  ELSE IF a.is = "short" \/ Len(b) < a.next + 2 THEN More(c)
  ELSE IF Value(b, a.next + 2) # Crlf THEN Fails(c)
  ELSE IF Len(b) < end THEN More(c)
  ELSE Data(end, Packet(a, Values(SubSeq(b, a.next + 3, end))), c)

parse_trojan_udp_packet_from_buffer(c, b) ==
  TrojanPacketAt(parse_trojan_target_from_bytes(Values(b)), c, b)

write_vless_udp_payload(s) == Clear(u16(Len(s)) \o s)

read_vless_udp_payload(c, b) ==
  IF Len(b) < 2 \/ Len(b) < 2 + U16At(b, 1) THEN More(c)
  ELSE Data(2 + U16At(b, 1), Marked(Values(SubSeq(b, 3, 2 + U16At(b, 1)))), c)

\* In connect mode the target was named once and for all.
encode_uot_packet(t, s) ==
  Clear((IF t.host = <<>> THEN <<>> ELSE encode_uot_addr(t)) \o u16(Len(s)) \o s)

UotPacketAt(a, c, b) ==
  LET end == a.next + 1 + U16At(b, a.next) IN
  IF a.is = "bad" THEN Fails(c)
  ELSE IF a.is = "short" \/ Len(b) < a.next + 1 THEN More(c)
  ELSE IF Len(b) < end THEN More(c)
  ELSE Data(end, Packet(a, Values(SubSeq(b, a.next + 2, end))), c)

parse_uot_packet(connect_mode, c, b) ==
  UotPacketAt(IF connect_mode THEN Found(<<>>, 0, 1) ELSE parse_uot_or_socks_addr(Values(b)), c, b)

MIERU_UDP_MARKER_START == 14
MIERU_UDP_MARKER_END == 15

encode_mieru_udp_frame(s) ==
  Clear(<<MIERU_UDP_MARKER_START>> \o u16(Len(s)) \o s \o <<MIERU_UDP_MARKER_END>>)

take_mieru_udp_frame(c, b) ==
  IF b # <<>> /\ Value(b, 1) # MIERU_UDP_MARKER_START THEN Other(1, c)
  ELSE IF Len(b) < 4 \/ Len(b) < 4 + U16At(b, 2) THEN More(c)
  ELSE IF Value(b, 4 + U16At(b, 2)) # MIERU_UDP_MARKER_END THEN Fails(c)
  ELSE LET s == Values(SubSeq(b, 4, 3 + U16At(b, 2)))
           a == parse_socks_udp_packet(s)
       IN IF a.is = "bad" THEN Fails(c) ELSE Data(4 + U16At(b, 2), Packet(a, From(s, a.next)), c)
=============================================================================
