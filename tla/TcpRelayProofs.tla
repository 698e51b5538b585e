---------------------------- MODULE TcpRelayProofs ----------------------------
(***************************************************************************)
(* What a relay owes its peers and its books, for every loop of the core,  *)
(* any timeouts and any window. A relay is over by Finish and does nothing *)
(* more, so what it has recorded then is what Finish records. That it is   *)
(* whole needs what holds while it runs: a direction is done only when its *)
(* peer has sent its last and all of it is written; and, since a vision    *)
(* flow may go on as an orderly relay, that the vision loop has lost       *)
(* nothing as long as it may still do so.                                  *)
(***************************************************************************)
EXTENDS TcpRelay, TLAPS

-----------------------------------------------------------------------------
(* The loops.                                                              *)

Early(l) == l.direct \/ l.severs # {} \/ l.ends.eof = Both

\* What the argument needs to know of a loop. One that does not close early ends
\* a direction with its own end of file only, and fails with a write that takes too
\* long; the vision loop that may go on as such a loop is like it, but for the end
\* of the downloads.
Sound(l) ==
  /\ l \in Loop
  /\ ~Early(l) => l.ends.eof = Own /\ ~l.cancels /\ (l.io_timeout => "write" \in l.errs)
  /\ l.direct /\ l.style # "poll" =>
       /\ l.severs = {} /\ "write" \in l.errs
       /\ l.ends.eof["up"] = {"up"} /\ l.ends.eof["down"] = Dir

LEMMA EndsTypes == Own \in Ends /\ Both \in Ends /\ [up |-> {"up"}, down |-> Dir] \in Ends
BY DEF Ends, Own, Both, Dir

\* A loop that differs in nothing the argument looks at.
LEMMA Alike ==
  ASSUME NEW l, Sound(l), NEW m \in Loop, m.style = l.style, m.direct = l.direct,
         m.severs = l.severs, m.ends = l.ends, m.errs = l.errs,
         m.io_timeout = l.io_timeout, m.cancels = l.cancels
  PROVE  Sound(m)
BY DEF Sound, Early

\* A handler's relay has a limiter or none, registers sockets or none.
LEMMA Given ==
  ASSUME NEW l, Sound(l), NEW given \in SUBSET BOOLEAN
  PROVE  Sound([l EXCEPT !.limiter = given])
<1>1. l \in Loop
  BY DEF Sound
<1>2. [l EXCEPT !.limiter = given] \in Loop
  BY <1>1 DEF Loop
<1> QED
  BY <1>1, <1>2, Alike DEF Loop

LEMMA Registers ==
  ASSUME NEW l, Sound(l), NEW sides \in SUBSET Side
  PROVE  Sound([l EXCEPT !.registers = sides])
<1>1. l \in Loop
  BY DEF Sound
<1>2. [l EXCEPT !.registers = sides] \in Loop
  BY <1>1, SMTT(30) DEF Loop
<1> QED
  BY <1>1, <1>2, Alike DEF Loop

LEMMA PolledLoops ==
  /\ Sound(Poll) /\ Sound(relay_tls_stream_with_timeouts)
  /\ Sound(relay_websocket_tls_stream_stats) /\ Sound(vless_relay_plain_websocket)
  /\ Sound(trojan_relay_plain_websocket) /\ Sound(vmess_relay_single_io)
<1> USE EndsTypes DEF Poll, Loop, Sound, Early, Side, Causes
<1>1. Sound(Poll)
  <2>1. Poll \in Loop
    BY DEF Dir
  <2> QED
    BY <2>1
<1>2. Sound(relay_tls_stream_with_timeouts)
  <2>1. relay_tls_stream_with_timeouts \in Loop
    BY ZenonT(30) DEF relay_tls_stream_with_timeouts, Dir
  <2> QED
    BY <2>1, ZenonT(30) DEF relay_tls_stream_with_timeouts
<1>3. Sound(relay_websocket_tls_stream_stats)
  <2>1. relay_websocket_tls_stream_stats \in Loop
    BY ZenonT(30) DEF relay_websocket_tls_stream_stats, Dir
  <2> QED
    BY <2>1 DEF relay_websocket_tls_stream_stats
<1>4. Sound(vless_relay_plain_websocket)
  <2>1. vless_relay_plain_websocket \in Loop
    BY ZenonT(30) DEF vless_relay_plain_websocket, Dir
  <2> QED
    BY <2>1 DEF vless_relay_plain_websocket
<1>5. Sound(trojan_relay_plain_websocket)
  <2>1. trojan_relay_plain_websocket \in Loop
    BY ZenonT(30) DEF trojan_relay_plain_websocket, Dir
  <2> QED
    BY <2>1 DEF trojan_relay_plain_websocket
<1>6. Sound(vmess_relay_single_io)
  <2>1. vmess_relay_single_io \in Loop
    BY ZenonT(30) DEF vmess_relay_single_io, Dir
  <2> QED
    BY <2>1 DEF vmess_relay_single_io
<1> QED
  BY <1>1, <1>2, <1>3, <1>4, <1>5, <1>6, ZenonT(30)
LEMMA Bridges ==
  /\ Sound(Bridge) /\ Sound([Bridge EXCEPT !.tells = {"down"}])
<1> USE EndsTypes DEF Poll, Loop, Sound, Early, Side, Causes
<1>1. Sound(Bridge)
  <2>1. Bridge \in Loop
    BY ZenonT(30) DEF Bridge, Dir
  <2> QED
    BY <2>1, ZenonT(30) DEF Bridge
<1>2. [Bridge EXCEPT !.tells = {"down"}] \in Loop
  <2>1. Bridge \in Loop /\ {"down"} \in SUBSET Dir
    BY <1>1 DEF Dir
  <2> QED
    BY <2>1
<1>3. Sound([Bridge EXCEPT !.tells = {"down"}])
  BY <1>1, <1>2, Alike, SMTT(30)
<1> QED
  BY <1>1, <1>3

LEMMA SelectLoops ==
  /\ Sound(relay_websocket_async_stream_stats) /\ Sound(relay_tcp_streams_async_with_label)
  /\ Sound(relay_tls_vision_stream_inner) /\ Sound(relay_tls_vision_stream_async)
<1> USE EndsTypes DEF Poll, Loop, Sound, Early, Side, Causes
<1>1. Sound(relay_websocket_async_stream_stats)
  <2>1. relay_websocket_async_stream_stats \in Loop
    BY ZenonT(30) DEF relay_websocket_async_stream_stats, Dir
  <2> QED
    BY <2>1 DEF relay_websocket_async_stream_stats
<1>2. Sound(relay_tcp_streams_async_with_label)
  <2>1. relay_tcp_streams_async_with_label \in Loop
    BY ZenonT(30) DEF relay_tcp_streams_async_with_label, Dir
  <2> QED
    BY <2>1, ZenonT(30) DEF relay_tcp_streams_async_with_label
<1>3. Sound(relay_tls_vision_stream_inner)
  <2>1. relay_tls_vision_stream_inner \in Loop
    BY ZenonT(30) DEF relay_tls_vision_stream_inner, Dir
  <2> QED
    BY <2>1 DEF relay_tls_vision_stream_inner
<1>4. Sound(relay_tls_vision_stream_async)
  <2>1. relay_tls_vision_stream_inner \in Loop
    BY <1>3, Zenon
  <2>2. relay_tls_vision_stream_async \in Loop
    BY <2>1, ZenonT(30) DEF relay_tls_vision_stream_async
  <2>3. relay_tls_vision_stream_inner.ends.eof = [up |-> {"up"}, down |-> Dir]
        /\ relay_tls_vision_stream_inner.severs = {} /\ relay_tls_vision_stream_inner.errs = {"write"}
        /\ relay_tls_vision_stream_inner.direct = TRUE
    BY ZenonT(30) DEF relay_tls_vision_stream_inner
  <2>4. relay_tls_vision_stream_async.ends.eof = [up |-> {"up"}, down |-> Dir]
        /\ relay_tls_vision_stream_async.severs = {} /\ relay_tls_vision_stream_async.errs = {"write"}
        /\ relay_tls_vision_stream_async.direct = TRUE
    BY <2>1, <2>3 DEF relay_tls_vision_stream_async
  <2> QED
    BY <2>2, <2>4
<1> QED
  BY <1>1, <1>2, <1>3, <1>4, Zenon

LEMMA CopyLoops ==
  /\ Sound(relay_tcp_bidirectional_async) /\ Sound(ClosingOnEof)
  /\ Sound(copy_count_best_effort_limited) /\ Sound(hysteria2_relay_streams)
  /\ Sound(relay_streams_unlimited) /\ Sound(tuic_relay_streams) /\ Sound(relay_mieru_streams)
<1> USE EndsTypes DEF Loop, Sound, Early, Side, Causes
<1>1. Sound(relay_tcp_bidirectional_async)
  <2>1. relay_tcp_bidirectional_async \in Loop
    BY ZenonT(30) DEF relay_tcp_bidirectional_async, Poll, Dir
  <2> QED
    BY <2>1 DEF relay_tcp_bidirectional_async, Poll
<1>2. Sound(ClosingOnEof)
  <2>1. ClosingOnEof \in Loop
    BY ZenonT(30) DEF ClosingOnEof, relay_tcp_bidirectional_async, Poll, Dir
  <2> QED
    BY <2>1, ZenonT(30) DEF ClosingOnEof, relay_tcp_bidirectional_async, Poll
<1>3. Sound(copy_count_best_effort_limited)
  <2>1. copy_count_best_effort_limited \in Loop
    BY ZenonT(30) DEF copy_count_best_effort_limited, relay_tcp_bidirectional_async, Poll, Dir
  <2> QED
    BY <2>1, ZenonT(30) DEF copy_count_best_effort_limited, relay_tcp_bidirectional_async, Poll
<1>4. hysteria2_relay_streams \in Loop /\ hysteria2_relay_streams.severs # {}
      /\ hysteria2_relay_streams.direct = FALSE
  <2>1. {<<"eof", "down", "remote">>, <<"limiter", "up", "remote">>, <<"limiter", "down", "remote">>}
          \in SUBSET (Causes \X Dir \X Side)
    BY DEF Dir
  <2>2. relay_tcp_bidirectional_async \in Loop /\ relay_tcp_bidirectional_async.direct = FALSE
    BY <1>1 DEF relay_tcp_bidirectional_async, Poll
  <2> QED
    BY <2>1, <2>2, ZenonT(30) DEF hysteria2_relay_streams
<1>5. relay_streams_unlimited \in Loop /\ relay_streams_unlimited.severs # {}
      /\ relay_streams_unlimited.direct = FALSE
  BY <1>4, ZenonT(30) DEF relay_streams_unlimited
<1>6. Sound(tuic_relay_streams)
  <2>1. tuic_relay_streams \in Loop
    BY ZenonT(30) DEF tuic_relay_streams, relay_tcp_bidirectional_async, Poll, Dir
  <2> QED
    BY <2>1, ZenonT(30) DEF tuic_relay_streams, relay_tcp_bidirectional_async, Poll
<1>7. relay_mieru_streams \in Loop /\ relay_mieru_streams.severs # {}
      /\ relay_mieru_streams.direct = FALSE
  <2> DEFINE severed == {<<c, "down", "client">> : c \in Causes}
  <2>1. severed \in SUBSET (Causes \X Dir \X Side) /\ <<"eof", "down", "client">> \in severed
    BY DEF Dir
  <2>2. copy_count_best_effort_limited \in Loop /\ copy_count_best_effort_limited.direct = FALSE
    BY <1>3, ZenonT(30) DEF copy_count_best_effort_limited, relay_tcp_bidirectional_async, Poll
  <2>3. relay_mieru_streams =
          [copy_count_best_effort_limited EXCEPT !.tells = Dir, !.first = TRUE, !.severs = severed]
    BY DEF relay_mieru_streams
  <2> HIDE DEF severed
  <2> QED
    BY <2>1, <2>2, <2>3, ZenonT(30)
<1> QED
  BY <1>1, <1>2, <1>3, <1>4, <1>5, <1>6, <1>7, Zenon

\* The variants of the copy loop with a field that does not matter.
LEMMA Variants ==
  /\ Sound([relay_websocket_tls_stream_stats EXCEPT !.first = TRUE])
  /\ Sound([relay_websocket_async_stream_stats EXCEPT !.first = TRUE])
  /\ Sound([copy_count_best_effort_limited EXCEPT !.tells = Dir])
  /\ \A sides \in SUBSET Side :
       Sound([[copy_count_best_effort_limited EXCEPT !.registers = sides] EXCEPT !.first = TRUE])
  /\ \A given \in SUBSET BOOLEAN :
       /\ Sound([[copy_count_best_effort_limited EXCEPT !.limiter = given]
                   EXCEPT !.tells = {"down"}, !.counts = FALSE])
       /\ Sound([[relay_tls_stream_with_timeouts EXCEPT !.limiter = given] EXCEPT !.counts = FALSE])
<1>1. ASSUME NEW l, Sound(l)
      PROVE  /\ Sound([l EXCEPT !.first = TRUE]) /\ Sound([l EXCEPT !.tells = Dir])
             /\ Sound([l EXCEPT !.counts = FALSE])
             /\ Sound([l EXCEPT !.tells = {"down"}, !.counts = FALSE])
  <2>1. l \in Loop /\ {"down"} \in SUBSET Dir
    BY <1>1 DEF Sound, Dir
  <2>2. Sound([l EXCEPT !.first = TRUE])
    <3> DEFINE m == [l EXCEPT !.first = TRUE]
    <3>1. /\ m \in Loop /\ m.style = l.style /\ m.direct = l.direct /\ m.severs = l.severs
          /\ m.ends = l.ends /\ m.errs = l.errs /\ m.io_timeout = l.io_timeout /\ m.cancels = l.cancels
      BY <2>1, ZenonT(30) DEF Loop
    <3> HIDE DEF m
    <3>2. Sound(m)
      BY <1>1, <3>1, Alike
    <3> QED
      BY <3>2 DEF m
  <2>3. Sound([l EXCEPT !.tells = Dir])
    <3> DEFINE m == [l EXCEPT !.tells = Dir]
    <3>1. /\ m \in Loop /\ m.style = l.style /\ m.direct = l.direct /\ m.severs = l.severs
          /\ m.ends = l.ends /\ m.errs = l.errs /\ m.io_timeout = l.io_timeout /\ m.cancels = l.cancels
      BY <2>1 DEF Loop
    <3> HIDE DEF m
    <3>2. Sound(m)
      BY <1>1, <3>1, Alike
    <3> QED
      BY <3>2 DEF m
  <2>4. Sound([l EXCEPT !.counts = FALSE])
    <3> DEFINE m == [l EXCEPT !.counts = FALSE]
    <3>1. /\ m \in Loop /\ m.style = l.style /\ m.direct = l.direct /\ m.severs = l.severs
          /\ m.ends = l.ends /\ m.errs = l.errs /\ m.io_timeout = l.io_timeout /\ m.cancels = l.cancels
      BY <2>1, ZenonT(30) DEF Loop
    <3> HIDE DEF m
    <3>2. Sound(m)
      BY <1>1, <3>1, Alike
    <3> QED
      BY <3>2 DEF m
  <2>5. Sound([l EXCEPT !.tells = {"down"}, !.counts = FALSE])
    <3> DEFINE m == [l EXCEPT !.tells = {"down"}, !.counts = FALSE]
    <3>1. /\ m \in Loop /\ m.style = l.style /\ m.direct = l.direct /\ m.severs = l.severs
          /\ m.ends = l.ends /\ m.errs = l.errs /\ m.io_timeout = l.io_timeout /\ m.cancels = l.cancels
      BY <2>1, ZenonT(30) DEF Loop
    <3> HIDE DEF m
    <3>2. Sound(m)
      BY <1>1, <3>1, Alike
    <3> QED
      BY <3>2 DEF m
  <2> QED
    BY <2>2, <2>3, <2>4, <2>5
<1>2. /\ Sound([relay_websocket_tls_stream_stats EXCEPT !.first = TRUE])
      /\ Sound([relay_websocket_async_stream_stats EXCEPT !.first = TRUE])
      /\ Sound([copy_count_best_effort_limited EXCEPT !.tells = Dir])
  BY <1>1, PolledLoops, SelectLoops, CopyLoops, ZenonT(30)
<1>3. ASSUME NEW sides \in SUBSET Side
      PROVE  Sound([[copy_count_best_effort_limited EXCEPT !.registers = sides] EXCEPT !.first = TRUE])
  <2>1. Sound([copy_count_best_effort_limited EXCEPT !.registers = sides])
    BY CopyLoops, Registers, SMTT(30)
  <2> QED
    BY <1>1, <2>1, ZenonT(30)
<1>4. ASSUME NEW given \in SUBSET BOOLEAN
      PROVE  /\ Sound([[copy_count_best_effort_limited EXCEPT !.limiter = given]
                         EXCEPT !.tells = {"down"}, !.counts = FALSE])
             /\ Sound([[relay_tls_stream_with_timeouts EXCEPT !.limiter = given] EXCEPT !.counts = FALSE])
  <2>1. Sound([copy_count_best_effort_limited EXCEPT !.limiter = given])
        /\ Sound([relay_tls_stream_with_timeouts EXCEPT !.limiter = given])
    BY PolledLoops, CopyLoops, Given
  <2> QED
    BY <1>1, <2>1, ZenonT(30)
<1> QED
  BY <1>2, <1>3, <1>4, ZenonT(30)

\* The upload's end closes the remote: this relay closes early.
LEMMA SeveredWebSocket ==
  Sound([Registered(copy_count_best_effort_limited, {"remote"})
           EXCEPT !.severs = {<<c, "up", "remote">> : c \in Causes}])
<1> DEFINE severed == {<<c, "up", "remote">> : c \in Causes}
           l == Registered(copy_count_best_effort_limited, {"remote"})
<1>1. severed \in SUBSET (Causes \X Dir \X Side) /\ <<"eof", "up", "remote">> \in severed
  BY DEF Dir, Side, Causes
<1>2. copy_count_best_effort_limited.direct = FALSE /\ copy_count_best_effort_limited \in Loop
  BY CopyLoops DEF copy_count_best_effort_limited, relay_tcp_bidirectional_async, Poll, Sound
<1>3. {"remote"} \in SUBSET Side
  BY DEF Side
<1>4. l \in Loop /\ l.direct = FALSE
  BY <1>2, <1>3 DEF Registered, Loop
<1> HIDE DEF severed, l
<1>5. [l EXCEPT !.severs = severed] \in Loop /\ [l EXCEPT !.severs = severed].direct = FALSE
      /\ [l EXCEPT !.severs = severed].severs = severed
  BY <1>1, <1>4 DEF Loop
<1>6. Sound([l EXCEPT !.severs = severed])
  BY <1>1, <1>5, Zenon DEF Sound, Early
<1> QED
  BY <1>6 DEF severed, l

\* Whichever loop a handler runs.
LEMMA RelaysAreSound == ASSUME NEW l \in Relays PROVE Sound(l)
<1> USE DEF Registered, Unlimited, Limited
<1>0. /\ {"client"} \in SUBSET Side /\ {"remote"} \in SUBSET Side /\ {} \in SUBSET Side
      /\ {TRUE} \in SUBSET BOOLEAN /\ {FALSE} \in SUBSET BOOLEAN
  BY DEF Side
<1>1. CASE l \in {socks5_relay, http_proxy_handle_connect, trojan_relay}
  BY <1>0, <1>1, CopyLoops, Registers DEF socks5_relay, http_proxy_handle_connect, trojan_relay
<1>2. CASE l \in {trojan_relay_websocket, naive_relay}
  BY <1>0, <1>2, CopyLoops, Registers DEF trojan_relay_websocket, naive_relay
<1>3. CASE l \in {trojan_relay_tls, vless_relay_tls_websocket, vless_relay_tls_websocket_async}
  BY <1>3, PolledLoops, SelectLoops, SMTT(30) DEF trojan_relay_tls, vless_relay_tls_websocket, vless_relay_tls_websocket_async
<1>4. CASE l \in {trojan_relay_tls_websocket, trojan_relay_tls_websocket_async}
  BY <1>4, Variants, ZenonT(30) DEF trojan_relay_tls_websocket, trojan_relay_tls_websocket_async
<1>5. CASE l \in {shadowsocks_relay, relay_plain_to_shadowsocks, local_bridge_for_tls}
  BY <1>0, <1>5, Variants, ZenonT(30) DEF shadowsocks_relay, relay_plain_to_shadowsocks, local_bridge_for_tls
<1>6. CASE l \in {vless_relay_async, vless_relay_tls_async}
  BY <1>0, <1>6, SelectLoops, Registers DEF vless_relay_async, vless_relay_tls_async
<1>7. CASE l \in {trojan_relay_plain_websocket, vless_relay_plain_websocket, vmess_relay_single_io,
                  hysteria2_relay_streams, relay_streams_unlimited, tuic_relay_streams, relay_mieru_streams}
  BY <1>7, PolledLoops, CopyLoops
<1>8. CASE l \in {vless_relay_plain_to_tls, vless_relay_plain_to_grpc, trojan_relay_plain_to_tls,
                  trojan_relay_plain_to_grpc, vless_relay_plain_to_websocket,
                  trojan_relay_plain_to_websocket, relay_plain_to_http2}
  BY <1>8, Bridges DEF vless_relay_plain_to_tls, vless_relay_plain_to_grpc, trojan_relay_plain_to_tls,
     trojan_relay_plain_to_grpc, vless_relay_plain_to_websocket, trojan_relay_plain_to_websocket,
     relay_plain_to_http2
<1>9. CASE l \in vless_relay
  <2>1. /\ Sound([copy_count_best_effort_limited EXCEPT !.registers = {"client"}])
        /\ Sound([relay_tcp_bidirectional_async EXCEPT !.registers = {"client"}])
        /\ Sound([ClosingOnEof EXCEPT !.registers = {"client"}])
    BY <1>0, CopyLoops, Registers
  <2>2. /\ Sound([[relay_tcp_bidirectional_async EXCEPT !.registers = {"client"}] EXCEPT !.limiter = {TRUE}])
        /\ Sound([[ClosingOnEof EXCEPT !.registers = {"client"}] EXCEPT !.limiter = {FALSE}])
    BY <1>0, <2>1, Given, ZenonT(30)
  <2> QED
    BY <1>9, <2>1, <2>2 DEF vless_relay
<1>10. CASE l \in vless_relay_websocket
  BY <1>10, CopyLoops, SeveredWebSocket DEF vless_relay_websocket
<1>11. CASE l \in vless_relay_tls
  BY <1>11, PolledLoops, SelectLoops DEF vless_relay_tls
<1>12. CASE l \in vmess_relay_split_io
  <2>1. /\ Sound([[copy_count_best_effort_limited EXCEPT !.tells = Dir] EXCEPT !.registers = {}])
        /\ Sound([[copy_count_best_effort_limited EXCEPT !.tells = Dir] EXCEPT !.registers = {"client"}])
    BY <1>0, Variants, Registers, ZenonT(30)
  <2> QED
    BY <1>12, <2>1 DEF vmess_relay_split_io
<1> QED
  BY <1>1, <1>2, <1>3, <1>4, <1>5, <1>6, <1>7, <1>8, <1>9, <1>10, <1>11, <1>12, Zenon DEF Relays

\* What a vision flow goes on with: a loop that closes early, or an orderly one.
LEMMA RawRelays ==
  ASSUME NEW l, NEW given \in SUBSET BOOLEAN
  PROVE  /\ Sound([raw_relay(l) EXCEPT !.limiter = given])
         /\ [raw_relay(l) EXCEPT !.limiter = given].direct = FALSE
         /\ l.style = "poll" => Early([raw_relay(l) EXCEPT !.limiter = given])
<1>1. {"client"} \in SUBSET Side
  BY DEF Side
<1>2. Sound(ClosingOnEof) /\ Sound(vless_relay_async)
  BY <1>1, CopyLoops, SelectLoops, Registers DEF vless_relay_async, Registered
<1>3. ClosingOnEof.direct = FALSE /\ ClosingOnEof.ends.eof = Both
  BY DEF ClosingOnEof, relay_tcp_bidirectional_async, Poll
<1>4. vless_relay_async.direct = FALSE
  BY DEF vless_relay_async, Registered, relay_tcp_streams_async_with_label, Poll
<1>5. Sound(raw_relay(l)) /\ raw_relay(l).direct = FALSE
      /\ (l.style = "poll" => raw_relay(l).ends.eof = Both)
  BY <1>2, <1>3, <1>4, Zenon DEF raw_relay
<1>6. raw_relay(l) \in Loop
  BY <1>5 DEF Sound
<1>7. Sound([raw_relay(l) EXCEPT !.limiter = given])
  BY <1>5, Given
<1> QED
  BY <1>5, <1>6, <1>7 DEF Loop, Early

-----------------------------------------------------------------------------
(* Types.                                                                  *)

LEMMA Directions ==
  /\ "up" \in Dir /\ "down" \in Dir
  /\ From \in [Dir -> Side] /\ To \in [Dir -> Side]
  /\ \A d \in Dir : From[d] # To[d]
BY DEF Dir, Side, From, To

Places == {"first", "top", "up", "down", "select", "wait", "run", "over"}

LEMMA PlaceTypes ==
  /\ \A l : Begin(l) \in {"run", "top"}
  /\ \A d \in Dir : After(d) \in {"run", "down", "wait"} /\ d \in {"up", "down"}
BY DEF Begin, After, Dir

LEMMA InitTypes == Init => TypeOK /\ Sound(loop)
<1> SUFFICES ASSUME Init PROVE TypeOK /\ Sound(loop)
  OBVIOUS
<1>1. PICK l \in Relays, given \in BOOLEAN :
        limited = given /\ loop = [l EXCEPT !.limiter = {given}]
  BY ZenonT(30) DEF Init
<1>2. Sound(loop)
  BY <1>1, RelaysAreSound, Given
<1>3. loop \in Loop /\ limited \in BOOLEAN
  BY <1>1, <1>2 DEF Sound
<1>4. at \in Places
  BY DEF Init, Begin, Places
<1>5. inbox \in [Dir -> 0..Window]
  BY RelayAssumption DEF Init
<1>6. /\ revoked = FALSE /\ peer \in [Side -> {"open", "eof", "reset", "cut"}]
      /\ done \in [Dir -> BOOLEAN] /\ writing \in [Dir -> BOOLEAN] /\ decoding = FALSE
      /\ direct \in [Dir -> BOOLEAN] /\ shut \in [Side -> BOOLEAN] /\ progressed = FALSE
      /\ unrecorded \in [Dir -> BOOLEAN] /\ lost = FALSE /\ timed_out = FALSE
      /\ quiet = 0 /\ half = None /\ result = "none"
  BY DEF Init
<1>7. TypeOK
  BY <1>3, <1>4, <1>5, <1>6, ZenonT(30) DEF TypeOK, Places
<1> QED
  BY <1>2, <1>7

LEMMA FinishTypes ==
  ASSUME TypeOK, NEW how \in {"ok", "err"}, NEW d \in Dir, Finish(how, d),
         loop' = loop, limited' = limited, revoked' = revoked, peer' = peer,
         inbox' \in [Dir -> 0..Window], direct' = direct,
         progressed' \in BOOLEAN, timed_out' \in BOOLEAN
  PROVE  TypeOK'
BY ZenonT(30) DEF TypeOK, Finish, Record, time

LEMMA HalfTypes == TypeOK => get_or_insert \in Nat
BY Zenon DEF TypeOK, get_or_insert

LEMMA EndTypes ==
  ASSUME TypeOK, NEW cause, NEW d \in Dir, NEW dropped \in BOOLEAN, End(cause, d, dropped),
         loop' = loop, limited' = limited, revoked' = revoked,
         inbox' \in [Dir -> 0..Window], at' \in Places, decoding' \in BOOLEAN, direct' = direct,
         progressed' \in BOOLEAN, timed_out' = timed_out
  PROVE  TypeOK'
<1>1. shut' \in [Side -> BOOLEAN]
  <2>1. Tell(d) \in [Side -> BOOLEAN]
    BY Directions DEF TypeOK, Tell
  <2> QED
    BY <2>1, Zenon DEF End
<1>2. /\ done' \in [Dir -> BOOLEAN] /\ writing' \in [Dir -> BOOLEAN] /\ lost' \in BOOLEAN
  <2>1. done' = [e \in Dir |-> done[e] \/ e \in Ended(cause, d)]
    BY Zenon DEF End
  <2>2. writing' = [e \in Dir |-> writing[e] /\ e \notin Ended(cause, d)]
    BY Zenon DEF End
  <2>3. lost' = (lost \/ dropped \/ \E e \in Ended(cause, d) \ {d} : writing[e])
    BY DEF End
  <2>4. done' \in [Dir -> BOOLEAN]
    BY <2>1
  <2>5. writing' \in [Dir -> BOOLEAN]
    BY <2>2
  <2>6. lost' \in BOOLEAN
    BY <2>3, Zenon
  <2> QED
    BY <2>4, <2>5, <2>6, Zenon
<1>3. half' \in Nat \cup {None} /\ quiet' \in Nat
  BY Zenon DEF TypeOK, End
<1>4. peer' \in [Side -> {"open", "eof", "reset", "cut"}]
  <2> DEFINE cuts(s) == /\ Ended(cause, d) = Dir \/ <<cause, d, s>> \in loop.severs
                        /\ peer[s] # "reset"
  <2>1. peer' = [s \in Side |-> IF cuts(s) THEN "cut" ELSE peer[s]]
    BY DEF End
  <2> HIDE DEF cuts
  <2> QED
    BY <2>1, Zenon DEF TypeOK
<1> QED
  BY <1>1, <1>2, <1>3, <1>4, Zenon DEF TypeOK, End, Places

\* Only the raw sockets of a vision flow go to another loop.
LEMMA LoopsStaySound ==
  ASSUME TypeOK, Sound(loop), loop' = loop \/ Switch
  PROVE  Sound(loop')
<1>1. {limited} \in SUBSET BOOLEAN
  BY SMTT(30) DEF TypeOK
<1>2. Sound([raw_relay(loop) EXCEPT !.limiter = {limited}])
  BY ONLY <1>1, RawRelays, ZenonT(30)
<1>3. CASE loop' = loop
  BY <1>3, ZenonT(30)
<1>4. CASE Switch
  <2>1. loop' = [raw_relay(loop) EXCEPT !.limiter = {limited}]
    BY ONLY <1>4, ZenonT(30) DEF Switch
  <2> QED
    BY ONLY <1>2, <2>1, ZenonT(30)
<1> QED
  BY ONLY <1>3, <1>4, loop' = loop \/ Switch, ZenonT(30)

LEMMA EnvironmentTypes ==
  ASSUME TypeOK, Environment
  PROVE  TypeOK' /\ loop' = loop
<1> USE DEF relay, book, time
<1>1. ASSUME NEW d \in Dir, Send(d) PROVE TypeOK' /\ loop' = loop
  <2>1. inbox' \in [Dir -> 0..Window]
    BY <1>1, RelayAssumption DEF Send, TypeOK
  <2> QED
    BY <1>1, <2>1 DEF Send, TypeOK
<1>2. ASSUME NEW s \in Side, Leave(s) PROVE TypeOK' /\ loop' = loop
  BY <1>2 DEF Leave, TypeOK
<1>3. ASSUME NEW s \in Side, ShutSocket(s) PROVE TypeOK' /\ loop' = loop
  BY <1>3 DEF ShutSocket, TypeOK
<1>4. CASE Revoke
  BY <1>4, Zenon DEF Revoke, TypeOK
<1>5. CASE Tick
  <2>1. \A t \in Nat : Later(t) \in Nat
    BY DEF Later
  <2>2. quiet' \in Nat /\ half' \in Nat \cup {None}
    BY <1>5, <2>1 DEF Tick, TypeOK
  <2> QED
    BY <1>5, <2>2 DEF Tick, TypeOK
<1> QED
  BY <1>1, <1>2, <1>3, <1>4, <1>5, Zenon DEF Environment

LEMMA RoundTypes ==
  ASSUME TypeOK, Round, ~Decode
  PROVE  TypeOK'
<1> USE DEF relay, book, time
<1>0. "up" \in Dir /\ "ok" \in {"ok", "err"}
  BY Directions
<1>1. CASE FirstPayload
  <2>1. CASE Finish("ok", "up")
    BY <1>0, <1>1, <2>1, FinishTypes DEF FirstPayload, TypeOK
  <2>2. CASE ~Finish("ok", "up")
    BY <1>0, <1>1, <2>2, ZenonT(30) DEF FirstPayload, TypeOK
  <2> QED
    BY <2>1, <2>2, Zenon
<1>2. CASE Top
  <2>1. CASE Finish("ok", "up")
    BY <1>0, <1>2, <2>1, FinishTypes, ZenonT(30) DEF Top, TypeOK
  <2>2. CASE ~Finish("ok", "up")
    <3>1. half' \in Nat \cup {None}
      BY <1>2, <2>2, HalfTypes, Zenon DEF Top, TypeOK
    <3> QED
      BY <1>2, <2>2, <3>1, ZenonT(30) DEF Top, TypeOK
  <2> QED
    BY <2>1, <2>2
<1>3. CASE TimeOut
  BY <1>0, <1>3, FinishTypes, Zenon DEF TimeOut, TypeOK
<1>4. CASE Wait
  <2>1. quiet' \in Nat /\ half' \in Nat \cup {None}
    BY <1>4, HalfTypes DEF Wait, note_progress, TypeOK
  <2> QED
    BY <1>4, <2>1, Zenon DEF Wait, TypeOK
<1>5. CASE Switch
  <2>1. {limited} \in SUBSET BOOLEAN
    BY DEF TypeOK
  <2>2. loop' \in Loop
    BY <1>5, <2>1, RawRelays, ZenonT(30) DEF Switch, Sound
  <2>3. at' \in {"run", "top"}
    BY <1>5, PlaceTypes, Zenon DEF Switch
  <2> QED
    BY <1>5, <2>2, <2>3, Zenon DEF Switch, TypeOK
<1>6. CASE Joined
  BY <1>0, <1>6, FinishTypes DEF Joined, TypeOK
<1> QED
  BY <1>1, <1>2, <1>3, <1>4, <1>5, <1>6 DEF Round

LEMMA ForwardTypes ==
  ASSUME TypeOK, NEW d \in Dir, Forward(d), loop' = loop, limited' = limited, revoked' = revoked,
         inbox' \in [Dir -> 0..Window], decoding' \in BOOLEAN, direct' = direct,
         timed_out' = timed_out
  PROVE  TypeOK'
<1>1. CASE End("limiter", d, TRUE) /\ at' = Begin(loop) /\ UNCHANGED progressed
  <2>1. at' \in Places /\ progressed' \in BOOLEAN
    BY <1>1, PlaceTypes, Zenon DEF Places, TypeOK
  <2> QED
    BY <1>1, <2>1, EndTypes, ZenonT(30)
<1>2. CASE /\ writing' = [writing EXCEPT ![d] = TRUE]
           /\ at' = IF loop.style = "copies" THEN "run" ELSE d
           /\ UNCHANGED <<peer, done, shut, time, progressed, unrecorded, lost, result>>
  BY <1>2, PlaceTypes DEF TypeOK, time
<1> QED
  BY <1>1, <1>2, ZenonT(30) DEF Forward

LEMMA ReadTypes ==
  ASSUME TypeOK, NEW d \in Dir, Read(d)
  PROVE  TypeOK'
<1> USE DEF relay, book, time
<1>0. "up" \in Dir /\ After(d) \in Places
  BY Directions, PlaceTypes DEF Places
<1>1. CASE ReadChunk(d)
  <2>1. inbox' \in [Dir -> 0..Window]
    BY <1>1, RelayAssumption, SMTT(30) DEF ReadChunk, TypeOK
  <2>2. CASE Forward(d) /\ UNCHANGED decoding
    BY <1>1, <2>1, <2>2, ForwardTypes, SMTT(30) DEF ReadChunk, TypeOK
  <2>3. CASE ~(Forward(d) /\ UNCHANGED decoding)
    BY <1>0, <1>1, <2>1, <2>3, ZenonT(30) DEF ReadChunk, TypeOK, Places
  <2> QED
    BY <2>2, <2>3, Zenon
<1>2. CASE ReadEof(d)
  BY <1>0, <1>2, EndTypes, ZenonT(30) DEF ReadEof, TypeOK
<1>3. CASE ReadError(d)
  <2>1. CASE Finish("err", d) /\ UNCHANGED peer
    BY <1>3, <2>1, FinishTypes DEF ReadError, TypeOK
  <2>2. CASE End("read", d, FALSE) /\ at' = After(d) /\ UNCHANGED decoding
    BY <1>0, <1>3, <2>2, EndTypes, ZenonT(30) DEF ReadError, TypeOK
  <2> QED
    BY <1>3, <2>1, <2>2, ZenonT(30) DEF ReadError
<1>4. CASE Nothing(d)
  BY <1>0, <1>4 DEF Nothing, TypeOK, Places
<1>5. CASE WokenByRevoke(d)
  <2>1. CASE Finish("ok", "up") /\ UNCHANGED peer
    BY <1>0, <1>5, <2>1, FinishTypes, SMTT(30) DEF WokenByRevoke, TypeOK
  <2>2. CASE End("limiter", d, FALSE) /\ UNCHANGED <<at, decoding>>
    <3>1. at' \in Places /\ decoding' \in BOOLEAN
      BY <2>2 DEF TypeOK, Places
    <3> QED
      BY <1>5, <2>2, <3>1, EndTypes, ZenonT(30) DEF WokenByRevoke, TypeOK
  <2> QED
    BY <1>5, <2>1, <2>2, ZenonT(30) DEF WokenByRevoke
<1> QED
  BY <1>1, <1>2, <1>3, <1>4, <1>5 DEF Read

LEMMA WriteTypes ==
  ASSUME TypeOK, NEW d \in Dir, WriteOk(d) \/ WriteFails(d)
  PROVE  TypeOK'
<1> USE DEF relay, book, time
<1>0. After(d) \in Places /\ Begin(loop) \in Places
  BY PlaceTypes, Zenon DEF Places
<1>1. CASE WriteOk(d)
  <2>1. PICK kept \in BOOLEAN : unrecorded' = [unrecorded EXCEPT ![d] = kept]
    <3>1. loop.counts \in BOOLEAN
      BY Zenon DEF TypeOK, Loop
    <3> QED
      BY <1>1, <3>1, ZenonT(30) DEF WriteOk
  <2>2. unrecorded' \in [Dir -> BOOLEAN]
    BY <2>1, SMTT(30) DEF TypeOK
  <2>3. PICK found \in BOOLEAN : direct' = [direct EXCEPT ![d] = @ \/ found]
    BY <1>1, ZenonT(30) DEF WriteOk
  <2>4. direct' \in [Dir -> BOOLEAN]
    BY <2>3 DEF TypeOK
  <2>5. at' \in Places
    BY <1>0, <1>1, ZenonT(30) DEF WriteOk
  <2>6. writing' \in [Dir -> BOOLEAN]
    BY <1>1, SMTT(30) DEF WriteOk, TypeOK
  <2> QED
    BY <1>1, <2>2, <2>4, <2>5, <2>6 DEF WriteOk, TypeOK, Places
<1>2. CASE WriteFails(d)
  <2>1. CASE Finish("err", d) /\ UNCHANGED peer
    BY <1>2, <2>1, FinishTypes, ZenonT(30) DEF WriteFails, TypeOK
  <2>2. CASE End("write", d, TRUE) /\ at' = After(d) /\ UNCHANGED decoding
    BY <1>0, <1>2, <2>2, EndTypes, ZenonT(30) DEF WriteFails, TypeOK
  <2> QED
    BY <1>2, <2>1, <2>2, ZenonT(30) DEF WriteFails
<1> QED
  BY <1>1, <1>2

LEMMA NextTypes == TypeOK /\ Sound(loop) /\ [Next]_vars => TypeOK' /\ Sound(loop)'
<1> SUFFICES ASSUME TypeOK, Sound(loop), [Next]_vars PROVE TypeOK' /\ Sound(loop)'
  BY Zenon
<1> USE DEF relay, book, time
<1>1. CASE UNCHANGED vars
  BY <1>1 DEF vars, TypeOK
<1>2. CASE Environment
  BY <1>2, EnvironmentTypes
<1>3. CASE Decode
  <2>1. /\ Forward("up") /\ decoding' = FALSE /\ "up" \in Dir
        /\ UNCHANGED <<loop, limited, revoked, inbox, direct, timed_out>>
    BY <1>3, Directions, SMTT(30) DEF Decode
  <2>2. TypeOK'
    BY <2>1, ForwardTypes, ZenonT(30) DEF TypeOK
  <2> QED
    BY <2>1, <2>2, Zenon
<1>4. CASE Round /\ ~Decode
  <2>1. TypeOK'
    BY <1>4, RoundTypes, Zenon
  <2>2. loop' = loop \/ Switch
    BY <1>4, SMTT(30) DEF Round, FirstPayload, Top, TimeOut, Wait, Joined
  <2> QED
    BY <2>1, <2>2, LoopsStaySound
<1>5. ASSUME NEW d \in Dir, Read(d) PROVE TypeOK' /\ Sound(loop)'
  <2>1. loop' = loop
    BY <1>5, ZenonT(30) DEF Read, ReadChunk, ReadEof, ReadError, Nothing, WokenByRevoke
  <2> QED
    BY <1>5, <2>1, ReadTypes
<1>6. ASSUME NEW d \in Dir, WriteOk(d) \/ WriteFails(d) PROVE TypeOK' /\ Sound(loop)'
  <2>1. loop' = loop
    BY <1>6, ZenonT(30) DEF WriteOk, WriteFails
  <2> QED
    BY <1>6, <2>1, WriteTypes
<1> QED
  BY <1>1, <1>2, <1>3, <1>4, <1>5, <1>6 DEF Next, Round

-----------------------------------------------------------------------------
(* A relay that is over does nothing more, and it is over by Finish only.  *)

Settled ==
  /\ Over => (\A d \in Dir : ~writing[d]) /\ RecordedWhenOver
  /\ ~Over => result = "none"

LEMMA OverIsLast ==
  ASSUME Settled, Over, Next
  PROVE  FALSE
<1>1. at = "over" /\ \A d \in Dir : ~writing[d] /\ at # d
  BY DEF Settled, Over, Dir
<1>2. ~Environment
  BY <1>1, ZenonT(30) DEF Environment, Send, Leave, ShutSocket, Revoke, Tick
<1>3. ~Round
  BY <1>1 DEF Round, FirstPayload, Top, TimeOut, Wait, Switch, Decode, Joined
<1>4. ASSUME NEW d \in Dir PROVE ~Read(d) /\ ~WriteOk(d) /\ ~WriteFails(d)
  BY <1>1, ZenonT(30) DEF Read, ReadChunk, ReadEof, ReadError, Nothing, WokenByRevoke, Turn, WriteOk, WriteFails
<1> QED
  BY <1>2, <1>3, <1>4 DEF Next

LEMMA FinishSettles ==
  ASSUME NEW how \in {"ok", "err"}, NEW d \in Dir, Finish(how, d), loop' = loop
  PROVE  Settled'
<1>1. at' = "over" /\ result' = how /\ writing' = [e \in Dir |-> FALSE]
  BY Zenon DEF Finish
<1>2. \A e \in Dir : unrecorded'[e] = (unrecorded[e] /\ how = "err" /\ loop.keeps # "both"
                                       /\ ~(loop.keeps = "own" /\ e = d))
  BY DEF Finish, Record
<1> QED
  BY <1>1, <1>2, ZenonT(30) DEF Settled, RecordedWhenOver, Over

Finishes == loop' = loop /\ \E how \in {"ok", "err"}, d \in Dir : Finish(how, d)

GoesOn == at' # "over" /\ result' = result

LEMMA OnlyFinishEnds ==
  ASSUME TypeOK, Next, ~Over
  PROVE  Finishes \/ GoesOn
<1> USE DEF relay, book, End, GoesOn
<1>0. /\ "up" \in Dir /\ at # "over" /\ "ok" \in {"ok", "err"} /\ "err" \in {"ok", "err"}
      /\ \A l : Begin(l) # "over"
      /\ \A d \in Dir : After(d) # "over" /\ d # "over"
  BY Directions, PlaceTypes, Zenon DEF Over
<1>1. CASE Environment
  BY <1>0, <1>1 DEF Environment, Send, Leave, ShutSocket, Revoke, Tick
<1>2. CASE Round
  <2>1. CASE FirstPayload
    BY <1>0, <2>1, Zenon DEF FirstPayload, Finishes
  <2>2. CASE Top
    BY <1>0, <2>2, Zenon DEF Top, Finishes
  <2>3. CASE TimeOut \/ Joined
    BY <1>0, <2>3 DEF TimeOut, Joined, Finishes
  <2>4. CASE Wait \/ Switch
    BY <1>0, <2>4, Zenon DEF Wait, Switch
  <2>5. CASE Decode
    BY <1>0, <2>5, Zenon DEF Decode, Forward
  <2> QED
    BY <1>2, <2>1, <2>2, <2>3, <2>4, <2>5, Zenon DEF Round
<1>3. ASSUME NEW d \in Dir, Read(d) PROVE Finishes \/ GoesOn
  <2>1. CASE ReadChunk(d)
    BY <1>0, <2>1, Zenon DEF ReadChunk, Forward
  <2>2. CASE ReadEof(d) \/ Nothing(d)
    BY <1>0, <2>2, Zenon DEF ReadEof, Nothing
  <2>3. CASE ReadError(d)
    BY <1>0, <2>3, Zenon DEF ReadError, Finishes
  <2>4. CASE WokenByRevoke(d)
    BY <1>0, <2>4, Zenon DEF WokenByRevoke, Finishes
  <2> QED
    BY <1>3, <2>1, <2>2, <2>3, <2>4, Zenon DEF Read
<1>4. ASSUME NEW d \in Dir, WriteOk(d) PROVE GoesOn
  BY <1>0, <1>4, Zenon DEF WriteOk
<1>5. ASSUME NEW d \in Dir, WriteFails(d) PROVE Finishes \/ GoesOn
  BY <1>0, <1>5 DEF WriteFails, Finishes
<1> QED
  BY <1>1, <1>2, <1>3, <1>4, <1>5, Zenon DEF Next

LEMMA NextSettled == TypeOK /\ Settled /\ [Next]_vars => Settled'
<1> SUFFICES ASSUME TypeOK, Settled, [Next]_vars PROVE Settled'
  BY Zenon
<1>1. CASE UNCHANGED vars
  BY <1>1 DEF vars, relay, book, Settled, Over, RecordedWhenOver
<1>2. CASE Next
  <2>1. ~Over
    BY <1>2, OverIsLast
  <2>2. CASE Finishes
    BY <2>2, FinishSettles, Zenon DEF Finishes
  <2>3. CASE GoesOn
    BY <2>1, <2>3, Zenon DEF GoesOn, Settled, Over
  <2> QED
    BY <1>2, <2>1, <2>2, <2>3, OnlyFinishEnds
<1> QED
  BY <1>1, <1>2

-----------------------------------------------------------------------------
(* What an undisturbed relay has forwarded.                                *)

Fine == Undisturbed /\ result # "err"

Whole == ~lost /\ \A s \in Side : peer[s] \in {"open", "eof"}

\* A direction is done when its peer has sent its last and all of it is written.
DoneIsWhole ==
  \A d \in Dir : done[d] => peer[From[d]] = "eof" /\ inbox[d] = 0 /\ ~writing[d]

Orderly ==
  /\ Whole /\ ~decoding /\ DoneIsWhole
  /\ Over => AllDone
  /\ at = "first" => ~done["up"]

OrderlyInv == Fine /\ ~Early(loop) => Orderly

\* The vision loop that may go on as an orderly one, until it may no longer.
MaySwitch == loop.direct /\ loop.style # "poll" /\ ~AllDone /\ ~Over

VisionInv == Fine /\ MaySwitch => Whole

WholeInv == OrderlyInv /\ VisionInv

IInv == TypeOK /\ Sound(loop) /\ Settled /\ WholeInv

\* A relay that ends well and in time has both directions done.
LEMMA FinishWhole ==
  ASSUME IInv, NEW how \in {"ok", "err"}, NEW d \in Dir, Finish(how, d),
         UNCHANGED <<loop, revoked, peer, inbox>>, timed_out => timed_out', ~Over,
         how = "err" \/ timed_out' \/ revoked \/ AllDone
  PROVE  WholeInv'
<1>1. /\ at' = "over" /\ result' = how /\ done' = done /\ decoding' = FALSE
      /\ lost' = (lost \/ decoding \/ \E e \in Dir : writing[e])
      /\ \A e \in Dir : ~writing'[e]
  BY Zenon DEF Finish
<1>2. VisionInv'
  BY <1>1, Zenon DEF VisionInv, MaySwitch, Over
<1>3. ASSUME Fine', ~Early(loop)' PROVE Orderly'
  <2>1. Fine /\ AllDone /\ ~Early(loop)
    BY <1>1, <1>3, Zenon DEF Fine, Undisturbed, IInv, Settled
  <2>2. Orderly
    BY <2>1, Zenon DEF IInv, WholeInv, OrderlyInv
  <2>3. \A e \in Dir : done[e]
    BY <2>1 DEF AllDone, Dir
  <2>4. ~lost'
    BY <1>1, <2>2, <2>3, ZenonT(30) DEF Orderly, Whole, DoneIsWhole
  <2>5. Whole' /\ DoneIsWhole'
    BY <1>1, <2>2, <2>4, Zenon DEF Orderly, Whole, DoneIsWhole
  <2>6. AllDone' /\ at' # "first"
    BY <1>1, <2>1, Zenon DEF AllDone
  <2> QED
    BY <1>1, <2>5, <2>6, Zenon DEF Orderly
<1> QED
  BY <1>2, <1>3, Zenon DEF WholeInv, OrderlyInv

\* A step that leaves the chunks and the ends alone.
LEMMA QuietWhole ==
  ASSUME IInv, ~Over, UNCHANGED <<loop, revoked, peer, inbox, done, timed_out, result, lost>>,
         at' # "over", at' = at \/ at' # "first",
         decoding' => decoding \/ loop.direct,
         \A d \in Dir : writing'[d] => writing[d] \/ ~done[d]
  PROVE  WholeInv'
<1>1. Fine' => Fine
  BY Zenon DEF Fine, Undisturbed
<1>2. VisionInv'
  BY <1>1, Zenon DEF IInv, WholeInv, VisionInv, MaySwitch, Over, AllDone, Whole
<1>3. ASSUME Fine', ~Early(loop)' PROVE Orderly'
  <2>1. Orderly /\ ~loop.direct
    BY <1>1, <1>3 DEF IInv, WholeInv, OrderlyInv, Early
  <2> QED
    BY <2>1, Zenon DEF Orderly, Whole, DoneIsWhole, Over
<1> QED
  BY <1>2, <1>3, Zenon DEF WholeInv, OrderlyInv

\* A step that leaves the relay disturbed.
LEMMA DisturbedWhole ==
  ASSUME ~Fine'
  PROVE  WholeInv'
BY SMTT(30) DEF WholeInv, OrderlyInv, VisionInv

\* A direction comes to the end of what its peer has sent.
LEMMA EofWhole ==
  ASSUME IInv, ~Over, NEW d \in Dir, End("eof", d, FALSE), ~writing[d],
         inbox[d] = 0, peer[From[d]] \in {"eof", "cut"},
         UNCHANGED <<loop, revoked, inbox, decoding, timed_out>>,
         at' # "over", at' # "first"
  PROVE  WholeInv'
<1>0. loop \in Loop /\ d \in {"up", "down"}
  BY SMTT(30) DEF IInv, Sound, Dir
<1> DEFINE ended == Ended("eof", d)
<1>1. /\ result' = result
      /\ \A e \in Dir : done'[e] <=> (done[e] \/ e \in ended)
      /\ \A e \in Dir : writing'[e] <=> (writing[e] /\ e \notin ended)
      /\ lost' <=> (lost \/ \E e \in ended \ {d} : writing[e])
  BY ZenonT(30) DEF End
<1>2. \A s \in Side : peer'[s] = IF /\ ended = Dir \/ <<"eof", d, s>> \in loop.severs
                                    /\ peer[s] # "reset"
                                 THEN "cut" ELSE peer[s]
  BY SMTT(30) DEF End
<1>3. Fine' => Fine
  BY <1>1, <1>2, ZenonT(30) DEF Fine, Undisturbed
<1>4. ended = loop.ends.eof[d]
  BY Zenon DEF Ended
<1> HIDE DEF ended
<1>5. ASSUME Fine', ~Early(loop)' PROVE Orderly'
  <2>1. Orderly /\ loop.severs = {} /\ loop.ends.eof = Own
    BY <1>3, <1>5, Zenon DEF IInv, WholeInv, OrderlyInv, Early, Sound
  <2>2. ended = {d} /\ ended # Dir
    BY <1>0, <1>4, <2>1 DEF Own, Dir
  <2>3. (\A s \in Side : peer'[s] = peer[s]) /\ ~lost'
    BY <1>1, <1>2, <2>1, <2>2, Zenon DEF Orderly, Whole
  <2>4. peer[From[d]] = "eof"
    BY <2>1, Directions, Zenon DEF Orderly, Whole
  <2>5. Whole'
    BY <2>1, <2>3, Zenon DEF Orderly, Whole
  <2>6. DoneIsWhole'
    <3> SUFFICES ASSUME NEW e \in Dir, done'[e]
                 PROVE  peer'[From[e]] = "eof" /\ inbox'[e] = 0 /\ ~writing'[e]
      BY Zenon DEF DoneIsWhole
    <3>1. peer'[From[e]] = peer[From[e]]
      BY <2>3, Directions, Zenon
    <3>2. CASE e = d
      BY <1>1, <2>2, <2>4, <3>1, <3>2, Zenon
    <3>3. CASE e # d
      BY <1>1, <2>1, <2>2, <3>1, <3>3, Zenon DEF Orderly, DoneIsWhole
    <3> QED
      BY <3>2, <3>3, Zenon
  <2> QED
    BY <2>1, <2>5, <2>6, Zenon DEF Orderly, Over
<1>6. ASSUME Fine', MaySwitch' PROVE Whole'
  <2>1. "up" \in Dir /\ "down" \in Dir
    BY SMTT(30) DEF Dir
  <2>2. ~AllDone
    BY <1>1, <1>6, <2>1, Zenon DEF MaySwitch, AllDone
  <2>3. Whole /\ loop.severs = {} /\ loop.ends.eof["up"] = {"up"} /\ loop.ends.eof["down"] = Dir
    BY <1>3, <1>6, <2>2, Zenon DEF IInv, WholeInv, VisionInv, MaySwitch, Sound
  <2>4. d = "up"
    BY <1>0, <1>1, <1>4, <1>6, <2>1, <2>3, Zenon DEF MaySwitch, AllDone
  <2>5. ended = {"up"} /\ ended # Dir
    BY <1>4, <2>3, <2>4 DEF Dir
  <2> QED
    BY <1>1, <1>2, <2>3, <2>4, <2>5, Zenon DEF Whole
<1> QED
  BY <1>5, <1>6, Zenon DEF WholeInv, OrderlyInv, VisionInv

LEMMA EnvironmentWhole ==
  ASSUME IInv, ~Over, Environment
  PROVE  WholeInv'
<1> USE DEF relay, book
<1>1. ASSUME NEW d \in Dir, Send(d) PROVE WholeInv'
  <2>1. /\ UNCHANGED <<loop, revoked, peer, at, done, writing, decoding, lost, timed_out, result>>
        /\ peer[From[d]] = "open" /\ \A e \in Dir \ {d} : inbox'[e] = inbox[e]
    BY <1>1, Zenon DEF Send, IInv, TypeOK
  <2>2. VisionInv'
    BY <2>1, Zenon DEF IInv, WholeInv, VisionInv, Fine, Undisturbed, MaySwitch, Over, AllDone, Whole
  <2>3. ASSUME Fine', ~Early(loop)' PROVE Orderly'
    <3>1. Orderly
      BY <2>1, <2>3, Zenon DEF IInv, WholeInv, OrderlyInv, Fine, Undisturbed
    <3>2. ~done[d]
      BY <2>1, <3>1, Zenon DEF Orderly, DoneIsWhole
    <3>3. DoneIsWhole'
      BY <2>1, <3>1, <3>2, Zenon DEF Orderly, DoneIsWhole
    <3> QED
      BY <2>1, <3>1, <3>3, Zenon DEF Orderly, Whole, Over, AllDone
  <2> QED
    BY <2>2, <2>3, Zenon DEF WholeInv, OrderlyInv
<1>2. ASSUME NEW s \in Side, Leave(s) PROVE WholeInv'
  <2>1. UNCHANGED <<loop, revoked, inbox, at, done, writing, decoding, lost, timed_out, result>>
    BY <1>2, Zenon DEF Leave
  <2>2. peer \in [Side -> {"open", "eof", "reset", "cut"}]
    BY DEF IInv, TypeOK
  <2>3. CASE peer' = [peer EXCEPT ![s] = "reset"]
    <3>1. ~Fine'
      BY <2>2, <2>3 DEF Fine, Undisturbed
    <3> QED
      BY <3>1, DisturbedWhole, Zenon
  <2>4. CASE peer[s] = "open" /\ peer' = [peer EXCEPT ![s] = "eof"]
    <3>1. /\ \A r \in Side : peer[r] = "eof" => peer'[r] = "eof"
          /\ \A r \in Side : peer[r] \in {"open", "eof"} => peer'[r] \in {"open", "eof"}
          /\ \A r \in Side : peer'[r] # "reset" => peer[r] # "reset"
      BY <2>2, <2>4, Zenon
    <3>2. Fine' => Fine
      BY <2>1, <3>1, Zenon DEF Fine, Undisturbed
    <3>3. Whole => Whole'
      BY <2>1, <3>1, Zenon DEF Whole
    <3>4. DoneIsWhole => DoneIsWhole'
      BY <2>1, <3>1, Directions, Zenon DEF DoneIsWhole
    <3>5. (MaySwitch' => MaySwitch) /\ (Over' <=> Over) /\ (AllDone' <=> AllDone)
      BY <2>1, Zenon DEF MaySwitch, Over, AllDone
    <3>6. VisionInv'
      BY <3>2, <3>3, <3>5, Zenon DEF IInv, WholeInv, VisionInv
    <3>7. OrderlyInv'
      BY <2>1, <3>2, <3>3, <3>4, <3>5, Zenon DEF IInv, WholeInv, OrderlyInv, Orderly
    <3> QED
      BY <3>6, <3>7, Zenon DEF WholeInv
  <2> QED
    BY <1>2, <2>3, <2>4, Zenon DEF Leave
<1>3. ASSUME NEW s \in Side, ShutSocket(s) PROVE WholeInv'
  BY <1>3, DisturbedWhole, Zenon DEF ShutSocket, Fine, Undisturbed
<1>4. CASE Revoke
  BY <1>4, DisturbedWhole, Zenon DEF Revoke, Fine, Undisturbed
<1>5. CASE Tick
  BY <1>5, QuietWhole, Zenon DEF Tick, Over
<1> QED
  BY <1>1, <1>2, <1>3, <1>4, <1>5, Zenon DEF Environment

LEMMA SwitchWhole ==
  ASSUME IInv, ~Over, Switch
  PROVE  WholeInv'
<1>1. /\ loop.direct /\ ~decoding
      /\ loop.style = "poll" \/ ~AllDone
      /\ loop' = [raw_relay(loop) EXCEPT !.limiter = {limited}]
      /\ at' \in {"run", "top"} /\ \A d \in Dir : ~done'[d]
      /\ UNCHANGED <<revoked, peer, inbox, writing, decoding, lost, timed_out, result>>
  BY PlaceTypes, Zenon DEF Switch, CanSwitch, PollsVision
<1>2. {limited} \in SUBSET BOOLEAN
  BY DEF IInv, TypeOK
<1>3. ~loop'.direct /\ (loop.style = "poll" => Early(loop'))
  BY <1>1, <1>2, RawRelays, ZenonT(30)
<1>4. VisionInv'
  BY <1>3 DEF VisionInv, MaySwitch
<1>5. ASSUME Fine', ~Early(loop)' PROVE Orderly'
  <2>1. Fine /\ MaySwitch
    BY <1>1, <1>3, <1>5 DEF Fine, Undisturbed, MaySwitch
  <2>2. Whole
    BY <2>1 DEF IInv, WholeInv, VisionInv
  <2>3. Whole' /\ DoneIsWhole' /\ ~decoding'
    BY <1>1, <2>2, Zenon DEF Whole, DoneIsWhole
  <2> QED
    BY <1>1, <2>3 DEF Orderly, Over
<1> QED
  BY <1>4, <1>5 DEF WholeInv, OrderlyInv

\* A chunk is refused by the limiter of a revoked user, or written.
LEMMA ForwardWhole ==
  ASSUME IInv, ~Over, NEW d \in Dir, Forward(d), ~done[d],
         UNCHANGED <<loop, revoked, timed_out>>, decoding' => decoding,
         \A e \in Dir : inbox'[e] = inbox[e] \/ e = d
  PROVE  WholeInv'
<1>1. CASE Refused
  BY <1>1, DisturbedWhole, Zenon DEF Refused, Fine, Undisturbed
<1>2. CASE ~Refused
  <2>1. /\ \A e \in Dir : writing'[e] => writing[e] \/ e = d
        /\ at' # "over" /\ at' # "first"
        /\ UNCHANGED <<peer, done, lost, result>>
    BY <1>2, PlaceTypes, ZenonT(30) DEF Forward, IInv, TypeOK
  <2>2. Fine' => Fine
    BY <2>1, Zenon DEF Fine, Undisturbed
  <2>3. VisionInv'
    BY <2>1, <2>2, Zenon DEF IInv, WholeInv, VisionInv, MaySwitch, Over, AllDone, Whole
  <2>4. ASSUME Fine', ~Early(loop)' PROVE Orderly'
    <3>1. Orderly
      BY <2>2, <2>4, Zenon DEF IInv, WholeInv, OrderlyInv
    <3>2. DoneIsWhole'
      BY <2>1, <3>1, Zenon DEF Orderly, DoneIsWhole
    <3> QED
      BY <2>1, <3>1, <3>2, Zenon DEF Orderly, Whole, Over
  <2> QED
    BY <2>3, <2>4 DEF WholeInv, OrderlyInv
<1> QED
  BY <1>1, <1>2, Zenon

LEMMA RoundWhole ==
  ASSUME IInv, ~Over, Round
  PROVE  WholeInv'
<1> USE DEF relay, book
<1>0. "up" \in Dir /\ "ok" \in {"ok", "err"}
  BY Directions, Zenon
<1>1. CASE FirstPayload
  <2>1. CASE Refused /\ Finish("ok", "up")
    BY <1>0, <1>1, <2>1, FinishWhole, Zenon DEF FirstPayload, Refused
  <2>2. CASE ~Refused
    <3>1. /\ at = "first" /\ UNCHANGED <<loop, revoked, peer, inbox, at, done, decoding, lost, timed_out, result>>
          /\ \A d \in Dir \ {"up"} : writing'[d] = writing[d]
      BY <1>1, <2>2, Zenon DEF FirstPayload, IInv, TypeOK
    <3>2. VisionInv'
      BY <3>1, Zenon DEF IInv, WholeInv, VisionInv, Fine, Undisturbed, MaySwitch, Over, AllDone, Whole
    <3>3. ASSUME Fine', ~Early(loop)' PROVE Orderly'
      <4>1. Orderly
        BY <3>1, <3>3, Zenon DEF IInv, WholeInv, OrderlyInv, Fine, Undisturbed
      <4>2. DoneIsWhole'
        BY <3>1, <4>1, Zenon DEF Orderly, DoneIsWhole
      <4> QED
        BY <3>1, <4>1, <4>2, Zenon DEF Orderly, Whole, Over
    <3> QED
      BY <3>2, <3>3 DEF WholeInv, OrderlyInv
  <2> QED
    BY <1>1, <2>1, <2>2, Zenon DEF FirstPayload
<1>2. CASE Top
  <2>1. CASE (AllDone \/ SeesRevoked) /\ Finish("ok", "up")
    BY <1>0, <1>2, <2>1, FinishWhole, Zenon DEF Top, SeesRevoked, Refused
  <2>2. CASE ~(AllDone \/ SeesRevoked)
    BY <1>2, <2>2, QuietWhole DEF Top
  <2> QED
    BY <1>2, <2>1, <2>2, Zenon DEF Top
<1>3. CASE TimeOut
  BY <1>0, <1>3, FinishWhole, Zenon DEF TimeOut
<1>4. CASE Wait
  BY <1>4, QuietWhole DEF Wait
<1>5. CASE Switch
  BY <1>5, SwitchWhole, Zenon
<1>6. CASE Decode
  BY <1>0, <1>6, ForwardWhole, Zenon DEF Decode
<1>7. CASE Joined
  BY <1>0, <1>7, FinishWhole, Zenon DEF Joined
<1> QED
  BY <1>1, <1>2, <1>3, <1>4, <1>5, <1>6, <1>7, Zenon DEF Round

\* An end that disturbs: a reset stays one.
LEMMA EndDisturbs ==
  ASSUME TypeOK, NEW cause, NEW d, NEW dropped, End(cause, d, dropped), UNCHANGED revoked,
         revoked \/ \E s \in Side : peer[s] = "reset"
  PROVE  WholeInv'
<1>1. \A s \in Side : peer[s] = "reset" => peer'[s] = "reset"
  BY Zenon DEF End
<1>2. ~Fine'
  BY <1>1, Zenon DEF Fine, Undisturbed
<1> QED
  BY <1>2, DisturbedWhole, Zenon

LEMMA ReadWhole ==
  ASSUME IInv, ~Over, NEW d \in Dir, Read(d)
  PROVE  WholeInv'
<1> USE DEF relay, book
<1>0. /\ "up" \in Dir /\ "ok" \in {"ok", "err"} /\ "err" \in {"ok", "err"}
      /\ After(d) # "over" /\ After(d) # "first" /\ From[d] \in Side
  BY Directions, PlaceTypes, Zenon
<1>1. CASE ReadChunk(d)
  <2>1. \A e \in Dir : inbox'[e] = inbox[e] \/ e = d
    BY <1>1, Zenon DEF ReadChunk, IInv, TypeOK
  <2>2. CASE Forward(d) /\ UNCHANGED decoding
    BY <1>1, <2>1, <2>2, ForwardWhole, Zenon DEF ReadChunk, Turn
  <2>3. CASE /\ loop.direct /\ at' = After(d)
             /\ UNCHANGED <<peer, done, writing, lost, result>>
    <3>1. UNCHANGED <<loop, revoked, timed_out>>
      BY <1>1, Zenon DEF ReadChunk
    <3>2. VisionInv'
      BY <2>3, <3>1, Zenon DEF IInv, WholeInv, VisionInv, Fine, Undisturbed, MaySwitch, AllDone, Whole
    <3>3. OrderlyInv'
      BY <2>3, <3>1 DEF OrderlyInv, Early
    <3> QED
      BY <3>2, <3>3, Zenon DEF WholeInv
  <2> QED
    BY <1>1, <2>2, <2>3, Zenon DEF ReadChunk
<1>2. CASE ReadEof(d)
  BY <1>0, <1>2, EofWhole, ZenonT(30) DEF ReadEof, Turn
<1>3. CASE ReadError(d)
  <2>1. CASE Finish("err", d) /\ UNCHANGED peer
    BY <1>0, <1>3, <2>1, FinishWhole DEF ReadError
  <2>2. CASE End("read", d, FALSE)
    BY <1>0, <1>3, <2>2, EndDisturbs, ZenonT(30) DEF ReadError, IInv
  <2> QED
    BY <1>3, <2>1, <2>2, ZenonT(30) DEF ReadError
<1>4. CASE Nothing(d)
  BY <1>0, <1>4, QuietWhole, Zenon DEF Nothing
<1>5. CASE WokenByRevoke(d)
  <2>1. revoked /\ UNCHANGED revoked
    BY <1>5, Zenon DEF WokenByRevoke, Refused
  <2> QED
    BY <2>1, DisturbedWhole, Zenon DEF Fine, Undisturbed
<1> QED
  BY <1>1, <1>2, <1>3, <1>4, <1>5, Zenon DEF Read

LEMMA WriteOkWhole ==
  ASSUME IInv, ~Over, NEW d \in Dir, WriteOk(d)
  PROVE  WholeInv'
<1>1. at' # "over" /\ at' # "first"
  BY PlaceTypes, Zenon DEF WriteOk
<1>2. \A e \in Dir : writing'[e] => writing[e]
  BY SMTT(30) DEF WriteOk, IInv, TypeOK
<1> QED
  BY <1>1, <1>2, QuietWhole, Zenon DEF WriteOk, relay

\* A write fails, and the relay with it, unless something disturbs it: its peer
\* is gone, or the loop is one that closes early.
LEMMA WriteFailsWhole ==
  ASSUME IInv, ~Over, NEW d \in Dir, WriteFails(d)
  PROVE  WholeInv'
<1> USE DEF relay
<1>0. "err" \in {"ok", "err"} /\ To[d] \in Side /\ After(d) # "over"
  BY Directions, PlaceTypes, Zenon
<1>1. CASE Finish("err", d) /\ UNCHANGED peer
  BY <1>0, <1>1, FinishWhole, Zenon DEF WriteFails
<1>2. CASE "write" \notin loop.errs /\ End("write", d, TRUE) /\ at' = After(d)
  <2>1. /\ UNCHANGED <<loop, revoked, inbox, timed_out>>
        /\ peer[To[d]] \in {"reset", "cut"} \/ loop.io_timeout \/ loop.cancels
    BY <1>2, SMTT(30) DEF WriteFails
  <2>2. /\ result' = result /\ \A s \in Side : peer'[s] # "reset" => peer[s] # "reset"
    BY <1>2, ZenonT(30) DEF End
  <2>3. Fine' => Fine
    BY <2>1, <2>2, Zenon DEF Fine, Undisturbed
  <2>4. ~loop.direct \/ loop.style = "poll"
    BY <1>2, Zenon DEF IInv, Sound
  <2>5. VisionInv'
    BY <2>1, <2>4, Zenon DEF VisionInv, MaySwitch
  <2>6. ASSUME Fine', ~Early(loop)' PROVE FALSE
    <3>1. Orderly /\ ~loop.cancels /\ ~loop.io_timeout
      BY <1>2, <2>1, <2>3, <2>6, Zenon DEF IInv, WholeInv, OrderlyInv, Sound
    <3> QED
      BY <1>0, <2>1, <3>1, Zenon DEF Orderly, Whole
  <2> QED
    BY <2>5, <2>6, ZenonT(30) DEF WholeInv, OrderlyInv
<1> QED
  BY <1>1, <1>2, ZenonT(30) DEF WriteFails

-----------------------------------------------------------------------------
LEMMA InitIInv == Init => IInv
<1> SUFFICES ASSUME Init PROVE IInv
  OBVIOUS
<1>1. TypeOK /\ Sound(loop)
  BY InitTypes
<1>2. /\ at # "over" /\ result = "none" /\ lost = FALSE /\ decoding = FALSE
      /\ peer = [s \in Side |-> "open"] /\ done = [d \in Dir |-> FALSE]
  BY PlaceTypes, Zenon DEF Init
<1>3. Settled
  BY <1>2, Zenon DEF Settled, Over
<1>4. WholeInv
  BY <1>2, Directions, Zenon DEF WholeInv, OrderlyInv, VisionInv, Orderly, Whole, DoneIsWhole, Over
<1> QED
  BY <1>1, <1>3, <1>4 DEF IInv

LEMMA NextIInv == IInv /\ [Next]_vars => IInv'
<1> SUFFICES ASSUME IInv, [Next]_vars PROVE IInv'
  BY Zenon
<1>1. TypeOK' /\ Sound(loop)' /\ Settled'
  BY NextTypes, NextSettled, Zenon DEF IInv
<1>2. CASE UNCHANGED vars
  <2>1. UNCHANGED <<loop, revoked, peer, inbox, at, done, writing, decoding, lost, timed_out, result>>
    BY <1>2, ZenonT(30) DEF vars, relay, book
  <2>2. WholeInv'
    BY <2>1 DEF IInv, WholeInv, OrderlyInv, VisionInv, Orderly, Whole, DoneIsWhole, Over, AllDone,
       Fine, Undisturbed, MaySwitch
  <2> QED
    BY <1>1, <2>2, Zenon DEF IInv
<1>3. CASE Next
  <2>1. ~Over
    BY <1>3, OverIsLast, Zenon DEF IInv
  <2>2. WholeInv'
    BY <1>3, <2>1, EnvironmentWhole, RoundWhole, ReadWhole, WriteOkWhole, WriteFailsWhole, Zenon DEF Next
  <2> QED
    BY <1>1, <2>2 DEF IInv
<1> QED
  BY <1>2, <1>3

LEMMA Inductive == Spec => []IInv
BY InitIInv, NextIInv, PTL DEF Spec

-----------------------------------------------------------------------------
\* The variables keep their types in every loop a handler may run, and in the
\* one a vision flow goes on with (the loops of stream.rs, tls.rs, vless.rs).
THEOREM TypeCorrect == Spec => []TypeOK
<1>1. IInv => TypeOK
  BY Zenon DEF IInv
<1> QED
  BY <1>1, Inductive, PTL

\* In every loop, with any timeouts and any window, a relay that ends well has
\* recorded all that it forwarded, and so has one that fails if its loop records
\* on errors.
THEOREM Recorded == Spec => []RecordedWhenOver
<1>1. IInv => RecordedWhenOver
  BY DEF IInv, Settled, RecordedWhenOver
<1> QED
  BY <1>1, Inductive, PTL

\* A relay that nothing disturbs and that is not of the kind that closes early is
\* over only when both peers have sent their last and all of it is written; the
\* one a select loop hands a vision flow to included.
THEOREM Complete == Spec => []WholeIfUndisturbed
<1>1. ASSUME IInv PROVE WholeIfUndisturbed
  <2> SUFFICES ASSUME Over, result = "ok", Undisturbed, ~ClosesEarly
               PROVE  ~lost /\ (\A s \in Side : peer[s] = "eof") /\ \A d \in Dir : inbox[d] = 0
    BY Zenon DEF WholeIfUndisturbed
  <2>1. Orderly
    BY <1>1, Zenon DEF IInv, WholeInv, OrderlyInv, Fine, ClosesEarly, Early
  <2>2. \A d \in Dir : done[d]
    BY <2>1, Zenon DEF Orderly, AllDone, Dir
  <2>3. \A d \in Dir : peer[From[d]] = "eof" /\ inbox[d] = 0
    BY <2>1, <2>2, Zenon DEF Orderly, DoneIsWhole
  <2>4. \A s \in Side : \E d \in Dir : From[d] = s
    BY DEF Side, Dir, From
  <2> QED
    BY <2>1, <2>3, <2>4, Zenon DEF Orderly, Whole
<1> QED
  BY <1>1, Inductive, PTL
=============================================================================
