----------------------- MODULE InboundHandlersProofs -----------------------
(***************************************************************************)
(* Proofs about InboundHandlers, for any connections of its handlers, any  *)
(* addresses and any policy of the tables: who holds the device guard of a *)
(* relay, when an address is blocked, and what is held against it.         *)
(***************************************************************************)
EXTENDS InboundHandlers, TLAPS

\* What DeviceIsHeld needs of the steps of a handler: there is one guard, at g. The user
\* is known before and the target is connected after it, and the relay is the last step.
\* The connection's own task takes all steps, or none after the guard.
Shaped(steps, own, g) ==
  LET n == Len(steps) IN
  /\ n \in Nat /\ g \in 1 .. n - 1
  /\ own = n \/ own \in 1 .. g
  /\ \A i \in 1 .. n :
       /\ (steps[i] = "guard") <=> (i = g)
       /\ (steps[i] = "relay") <=> (i = n)
       /\ steps[i] \in {"auth", "lookup"} => i < g
       /\ steps[i] \in {"connect", "answer"} => i > g
       /\ steps[i] = "tls" => \A j \in 1 .. i : steps[j] # "auth"
       /\ steps[i] \notin {"none", "serving", "closing", "failing"}

WellFormed(h, g) ==
  Shaped(h.steps, h.own, g) /\ (h.udp = "pool" => h.own = Len(h.steps))

\* The steps run and str of the two tasks of a connection, and who owns a guard.
Fits(h, g, run, str, hd, au, lo) ==
  LET n == Len(h.steps) IN
  /\ run \in 0 .. h.own + 3 /\ str \in 0 .. n
  /\ h.own = n => run <= n /\ str \in {0, n}
  /\ h.own < n /\ str # 0 => str > h.own
  /\ run # 0 /\ str # 0 => run > h.own
  /\ h.own = n /\ run # 0 /\ au => \E i \in 1 .. run - 1 : h.steps[i] = "auth"
  /\ au /\ ~lo =>
       /\ g <= h.own /\ run > g => "handler" \in hd
       /\ g > h.own /\ str > g => "stream" \in hd
       /\ h.own = n /\ str # 0 => "stream" \in hd

LEMMA FitsEnd ==
  ASSUME NEW h, NEW g, NEW run, NEW str, NEW hd, NEW au, NEW lo,
         WellFormed(h, g), Fits(h, g, run, str, hd, au, lo), NEW T \in SUBSET Tasks
  PROVE  Fits(h, g, IF "handler" \in T THEN 0 ELSE run, IF "stream" \in T THEN 0 ELSE str,
              hd \ T, au, lo)
BY DEF WellFormed, Shaped, Fits

LEMMA FitsAdvance ==
  ASSUME NEW h, NEW g, NEW run, NEW str, NEW hd, NEW au, NEW lo,
         WellFormed(h, g), Fits(h, g, run, str, hd, au, lo)
  PROVE  /\ run \in 1 .. h.own /\ h.steps[run] \notin {"guard", "relay"}
              => Fits(h, g, run + 1, str, hd, au, lo)
         /\ str \in 1 .. Len(h.steps) /\ h.steps[str] \notin {"guard", "relay"}
              => Fits(h, g, run, str + 1, hd, au, lo)
<1>1. ASSUME run \in 1 .. h.own, h.steps[run] \notin {"guard", "relay"}
      PROVE  Fits(h, g, run + 1, str, hd, au, lo)
  BY <1>1, SMTT(30) DEF WellFormed, Shaped, Fits
<1>2. ASSUME str \in 1 .. Len(h.steps), h.steps[str] \notin {"guard", "relay"}
      PROVE  Fits(h, g, run, str + 1, hd, au, lo)
  BY <1>2 DEF WellFormed, Shaped, Fits
<1> QED
  BY <1>1, <1>2, Zenon

LEMMA FitsLogin ==
  ASSUME NEW h, NEW g, NEW run, NEW str, NEW hd, NEW au, NEW lo,
         WellFormed(h, g), Fits(h, g, run, str, hd, au, lo), NEW au2, NEW lo2
  PROVE  /\ run \in 1 .. h.own /\ h.steps[run] \in {"auth", "lookup"}
            /\ (au2 => au \/ h.steps[run] = "auth")
              => Fits(h, g, run + 1, str, hd, au2, lo2)
         /\ str \in 1 .. Len(h.steps) /\ h.steps[str] \in {"auth", "lookup"}
              => Fits(h, g, run, str + 1, hd, au2, lo2)
<1>1. ASSUME run \in 1 .. h.own, h.steps[run] \in {"auth", "lookup"},
             au2 => au \/ h.steps[run] = "auth"
      PROVE  Fits(h, g, run + 1, str, hd, au2, lo2)
  BY <1>1 DEF WellFormed, Shaped, Fits
<1>2. ASSUME str \in 1 .. Len(h.steps), h.steps[str] \in {"auth", "lookup"}
      PROVE  Fits(h, g, run, str + 1, hd, au2, lo2)
  BY <1>2, SMTT(30) DEF WellFormed, Shaped, Fits
<1> QED
  BY <1>1, <1>2, Zenon

LEMMA FitsGuard ==
  ASSUME NEW h, NEW g, NEW run, NEW str, NEW hd, NEW au, NEW lo,
         WellFormed(h, g), Fits(h, g, run, str, hd, au, lo)
  PROVE  /\ run \in 1 .. h.own /\ h.steps[run] = "guard"
              => Fits(h, g, run + 1, str, IF lo THEN hd ELSE hd \cup {"handler"}, au, lo)
         /\ str \in 1 .. Len(h.steps) /\ h.steps[str] = "guard"
              => Fits(h, g, run, str + 1, IF lo THEN hd ELSE hd \cup {"stream"}, au, lo)
BY SMTT(30) DEF WellFormed, Shaped, Fits

LEMMA FitsJump ==
  ASSUME NEW h, NEW g, NEW run, NEW str, NEW hd, NEW au, NEW lo,
         WellFormed(h, g), Fits(h, g, run, str, hd, au, lo)
  PROVE  /\ run \in 1 .. h.own /\ h.steps[run] \in {"connect", "answer"}
              => /\ Fits(h, g, Len(h.steps), str, hd, au, lo)
                 /\ Fits(h, g, 0, Len(h.steps), IF "handler" \in hd THEN {"stream"} ELSE {},
                         au, lo)
         /\ str \in 1 .. Len(h.steps) /\ h.steps[str] = "connect"
              => h.udp # "pool" /\ Fits(h, g, run, Len(h.steps), hd, au, lo)
         /\ run \in 1 .. h.own /\ h.steps[run] = "tls" /\ h.own = Len(h.steps)
              => Fits(h, g, Len(h.steps), str, hd, au, lo)
<1>1. ASSUME run \in 1 .. h.own, h.steps[run] \in {"connect", "answer"}
      PROVE  Fits(h, g, Len(h.steps), str, hd, au, lo)
  BY <1>1 DEF WellFormed, Shaped, Fits
<1>2. ASSUME run \in 1 .. h.own, h.steps[run] \in {"connect", "answer"}
      PROVE  Fits(h, g, 0, Len(h.steps), IF "handler" \in hd THEN {"stream"} ELSE {}, au, lo)
  BY <1>2 DEF WellFormed, Shaped, Fits
<1>3. ASSUME str \in 1 .. Len(h.steps), h.steps[str] = "connect"
      PROVE  h.udp # "pool" /\ Fits(h, g, run, Len(h.steps), hd, au, lo)
  BY <1>3 DEF WellFormed, Shaped, Fits
<1>4. ASSUME run \in 1 .. h.own, h.steps[run] = "tls", h.own = Len(h.steps)
      PROVE  Fits(h, g, Len(h.steps), str, hd, au, lo)
  BY <1>4 DEF WellFormed, Shaped, Fits
<1> QED
  BY <1>1, <1>2, <1>3, <1>4, Zenon

LEMMA FitsServe ==
  ASSUME NEW h, NEW g, NEW run, NEW str, NEW hd, NEW au, NEW lo,
         WellFormed(h, g), Fits(h, g, run, str, hd, au, lo)
  PROVE  /\ run = 0 /\ str = 0 => Fits(h, g, 1, 0, hd, FALSE, FALSE)
         /\ run = h.own + 1 =>
              /\ Fits(h, g, run + 1, str, hd, au, lo) /\ Fits(h, g, run + 2, str, hd, au, lo)
              /\ str = 0 => Fits(h, g, run, h.own + 1, hd, au, lo)
<1>1. Fits(h, g, 1, 0, hd, FALSE, FALSE)
  BY DEF WellFormed, Shaped, Fits
<1>2. ASSUME run = h.own + 1
      PROVE  Fits(h, g, run + 1, str, hd, au, lo) /\ Fits(h, g, run + 2, str, hd, au, lo)
  <2>1. h.own \in Nat /\ g \in Nat /\ Len(h.steps) \in Nat /\ h.own < Len(h.steps)
    BY <1>2 DEF WellFormed, Shaped, Fits
  <2>2. ASSUME NEW k \in {1, 2} PROVE Fits(h, g, run + k, str, hd, au, lo)
    BY <1>2, <2>1, SMTT(30) DEF Fits
  <2> QED
    BY <2>2, Zenon
<1>3. ASSUME run = h.own + 1, str = 0
      PROVE  Fits(h, g, run, h.own + 1, hd, au, lo)
  BY <1>3, SMTT(30) DEF WellFormed, Shaped, Fits
<1> QED
  BY <1>1, <1>2, <1>3, Zenon

LEMMA FitsRange ==
  ASSUME NEW h, NEW g, NEW run, NEW str, NEW hd, NEW au, NEW lo,
         WellFormed(h, g), Fits(h, g, run, str, hd, au, lo)
  PROVE  /\ run \in Nat /\ str \in Nat /\ h.own \in Nat /\ Len(h.steps) \in Nat
         /\ run <= h.own + 3 /\ str <= Len(h.steps) /\ h.own <= Len(h.steps)
BY DEF WellFormed, Shaped, Fits

\* Whoever relays for an accepted user, some task of the connection owns its guard.
LEMMA FitsRelay ==
  ASSUME NEW h, NEW g, NEW run, NEW str, NEW hd,
         WellFormed(h, g), Fits(h, g, run, str, hd, TRUE, FALSE)
  PROVE  /\ run \in 1 .. h.own /\ h.steps[run] = "relay" => hd # {}
         /\ /\ str \in 1 .. Len(h.steps) /\ h.steps[str] = "relay"
            /\ h.steps[h.own] = "guard" => run # 0
            => hd # {}
<1>1. ASSUME run \in 1 .. h.own, h.steps[run] = "relay" PROVE hd # {}
  BY <1>1 DEF WellFormed, Shaped, Fits
<1>2. ASSUME str \in 1 .. Len(h.steps), h.steps[str] = "relay",
             h.steps[h.own] = "guard" => run # 0
      PROVE  hd # {}
  BY <1>2 DEF WellFormed, Shaped, Fits
<1> QED
  BY <1>1, <1>2, Zenon

-----------------------------------------------------------------------------
(* The steps of the handlers, written out.                                 *)

Names ==
  {"slot", "auth_backoff", "tls_backoff", "source", "tls", "upgrade", "auth", "request",
   "lookup", "guard", "closed", "connect", "answer", "relay"}

Join(s, u, r, m, n) ==
  /\ s \in Seq(Names) /\ u \in Seq(Names) /\ r \in Seq(Names)
  /\ Len(s) = m /\ Len(u) = n /\ Len(r) = m + n
  /\ \A i \in 1 .. m : r[i] = s[i]
  /\ \A i \in 1 .. n : r[m + i] = u[i]

LEMMA Joined ==
  ASSUME NEW s, NEW u, NEW r, NEW m, NEW n, Join(s, u, r, m, n) PROVE s \o u = r
<1>1. /\ s \o u \in Seq(Names) /\ r \in Seq(Names) /\ Len(s \o u) = Len(r)
      /\ m \in Nat /\ n \in Nat /\ Len(r) = m + n
  BY SMTT(30) DEF Join
<1>2. ASSUME NEW i \in 1 .. Len(s \o u) PROVE (s \o u)[i] = r[i]
  <2>1. (s \o u)[i] = IF i <= m THEN s[i] ELSE u[i - m]
    BY <1>1 DEF Join
  <2>2. CASE i <= m
    BY <1>1, <2>1, <2>2 DEF Join
  <2>3. CASE ~(i <= m)
    <3>1. i - m \in 1 .. n /\ m + (i - m) = i
      BY <1>1, <2>3
    <3> QED
      BY <2>1, <2>3, <3>1, Zenon DEF Join
  <2> QED
    BY <2>2, <2>3, Zenon
<1> QED
  BY <1>1, <1>2, SMTT(30)

plain_steps ==
  <<"auth_backoff", "source", "auth", "lookup", "guard", "connect", "answer", "relay">>
upgraded_steps ==
  <<"auth_backoff", "upgrade", "source", "auth", "lookup", "guard", "connect",
    "answer", "relay">>
tls_steps ==
  <<"auth_backoff", "tls_backoff", "tls", "source", "auth", "lookup", "guard",
    "connect", "answer", "relay">>
tls_upgraded_steps ==
  <<"auth_backoff", "tls_backoff", "tls", "upgrade", "source", "auth", "lookup",
    "guard", "connect", "answer", "relay">>
grpc_steps ==
  <<"tls", "upgrade", "source", "auth", "lookup", "guard", "connect", "answer",
    "relay">>
websocket_steps ==
  <<"auth_backoff", "upgrade", "source", "auth", "lookup", "guard", "closed",
    "connect", "answer", "relay">>
reality_steps ==
  <<"tls", "source", "auth", "lookup", "guard", "connect", "answer", "relay">>
tail_steps == <<"source", "auth", "lookup", "guard", "connect", "answer", "relay">>
shadowsocks_steps == <<"auth_backoff", "source", "auth", "guard", "connect", "relay">>
anytls_tls_steps ==
  <<"auth_backoff", "tls_backoff", "tls", "source", "auth", "guard", "connect",
    "relay">>
mieru_steps ==
  <<"auth_backoff", "source", "auth", "request", "guard", "connect", "answer", "relay">>
hysteria2_steps ==
  <<"slot", "source", "auth_backoff", "tls", "auth", "guard", "request", "connect",
    "answer", "relay">>
tuic_steps == <<"slot", "source", "tls", "auth", "guard", "request", "connect",
                "relay">>
naive_tcp_steps ==
  <<"source", "tls_backoff", "tls", "upgrade", "source", "auth_backoff", "auth",
    "lookup", "guard", "connect", "answer", "relay">>
naive_quic_steps ==
  <<"slot", "source", "tls_backoff", "tls", "upgrade", "source", "auth_backoff",
    "auth", "lookup", "guard", "connect", "answer", "relay">>
upgraded_tail == <<"upgrade", "source", "auth", "lookup", "guard", "connect", "answer", "relay">>

LEMMA Tails ==
  Tail(plain_steps) = tail_steps /\ Tail(upgraded_steps) = upgraded_tail
BY DEF plain_steps, tail_steps, upgraded_steps, upgraded_tail

LEMMA Joints ==
  /\ <<"auth_backoff", "upgrade">> \o tail_steps = upgraded_steps
  /\ <<"auth_backoff", "tls_backoff", "tls">> \o tail_steps = tls_steps
  /\ <<"auth_backoff", "tls_backoff", "tls">> \o upgraded_tail = tls_upgraded_steps
  /\ <<"tls", "upgrade">> \o tail_steps = grpc_steps
  /\ <<"tls">> \o tail_steps = reality_steps
  /\ <<"auth_backoff", "source", "auth", "guard">> \o handle_syn = shadowsocks_steps
  /\ <<"auth_backoff", "tls_backoff", "tls", "source", "auth", "guard">> \o handle_syn
       = anytls_tls_steps
  /\ <<"auth_backoff", "source", "auth">> \o handle_mieru_session = mieru_steps
  /\ <<"slot", "source", "auth_backoff", "tls", "auth", "guard">> \o handle_tcp_stream
       = hysteria2_steps
  /\ <<"slot", "source", "tls", "auth", "guard">> \o handle_connect_stream = tuic_steps
  /\ <<"source", "tls_backoff", "tls", "upgrade">> \o handle_h2_request
       = naive_tcp_steps
  /\ <<"slot", "source", "tls_backoff", "tls", "upgrade">> \o handle_h2_request
       = naive_quic_steps
<1>1. Join(<<"auth_backoff", "upgrade">>, tail_steps, upgraded_steps, 2, 7)
  BY DEF Join, Names, tail_steps, upgraded_steps
<1>2. Join(<<"auth_backoff", "tls_backoff", "tls">>, tail_steps, tls_steps, 3, 7)
  BY DEF Join, Names, tail_steps, tls_steps
<1>3. Join(<<"auth_backoff", "tls_backoff", "tls">>,
           upgraded_tail, tls_upgraded_steps, 3, 8)
  BY DEF Join, Names, upgraded_tail, tls_upgraded_steps
<1>4. Join(<<"tls", "upgrade">>, tail_steps, grpc_steps, 2, 7)
  BY DEF Join, Names, tail_steps, grpc_steps
<1>5. Join(<<"tls">>, tail_steps, reality_steps, 1, 7)
  BY DEF Join, Names, tail_steps, reality_steps
<1>6. Join(<<"auth_backoff", "source", "auth", "guard">>,
           handle_syn, shadowsocks_steps, 4, 2)
  BY DEF Join, Names, handle_syn, shadowsocks_steps
<1>7. Join(<<"auth_backoff", "tls_backoff", "tls", "source", "auth", "guard">>,
           handle_syn, anytls_tls_steps, 6, 2)
  BY DEF Join, Names, handle_syn, anytls_tls_steps
<1>8. Join(<<"auth_backoff", "source", "auth">>, handle_mieru_session, mieru_steps, 3, 5)
  BY DEF Join, Names, handle_mieru_session, mieru_steps
<1>9. Join(<<"slot", "source", "auth_backoff", "tls", "auth", "guard">>,
           handle_tcp_stream, hysteria2_steps, 6, 4)
  BY DEF Join, Names, handle_tcp_stream, hysteria2_steps
<1>10. Join(<<"slot", "source", "tls", "auth", "guard">>,
            handle_connect_stream, tuic_steps, 5, 3)
  BY DEF Join, Names, handle_connect_stream, tuic_steps
<1>11. Join(<<"source", "tls_backoff", "tls", "upgrade">>,
            handle_h2_request, naive_tcp_steps, 4, 8)
  BY DEF Join, Names, handle_h2_request, naive_tcp_steps
<1>12. Join(<<"slot", "source", "tls_backoff", "tls", "upgrade">>,
            handle_h2_request, naive_quic_steps, 5, 8)
  BY DEF Join, Names, handle_h2_request, naive_quic_steps
<1> QED
  BY <1>1, <1>2, <1>3, <1>4, <1>5, <1>6, <1>7, <1>8, <1>9, <1>10, <1>11, <1>12, Joined, ZenonT(30)

LEMMA Lengths ==
  /\ Len(plain_steps) = 8 /\ Len(upgraded_steps) = 9
  /\ Len(tls_steps) = 10 /\ Len(tls_upgraded_steps) = 11
  /\ Len(grpc_steps) = 9 /\ Len(websocket_steps) = 10
  /\ Len(reality_steps) = 8 /\ Len(tail_steps) = 7
  /\ Len(shadowsocks_steps) = 6 /\ Len(anytls_tls_steps) = 8
  /\ Len(mieru_steps) = 8 /\ Len(hysteria2_steps) = 10
  /\ Len(tuic_steps) = 8 /\ Len(naive_tcp_steps) = 12
  /\ Len(naive_quic_steps) = 13
BY Zenon DEF plain_steps, upgraded_steps, tls_steps, tls_upgraded_steps, grpc_steps,
   websocket_steps, reality_steps, tail_steps, shadowsocks_steps, anytls_tls_steps,
   mieru_steps, hysteria2_steps, tuic_steps, naive_tcp_steps, naive_quic_steps

\* A handler takes these steps, own of them in the connection's own task.
Takes(h, steps, own) ==
  h.steps = steps /\ h.own = own /\ (h.udp = "pool" => own = Len(steps))

LEMMA HandlersTake ==
  /\ Takes(socks5, plain_steps, 8)
  /\ Takes(http_proxy, plain_steps, 8)
  /\ Takes(shadowsocks, shadowsocks_steps, 6)
  /\ Takes(vmess_tcp, plain_steps, 8)
  /\ Takes(vmess_websocket, upgraded_steps, 9)
  /\ Takes(vmess_tls, tls_steps, 10)
  /\ Takes(vmess_tls_websocket, tls_upgraded_steps, 11)
  /\ Takes(vmess_grpc, grpc_steps, 2)
  /\ Takes(trojan_tcp, plain_steps, 8)
  /\ Takes(trojan_httpupgrade, upgraded_steps, 9)
  /\ Takes(trojan_websocket, websocket_steps, 10)
  /\ Takes(trojan_tls, tls_steps, 10)
  /\ Takes(trojan_tls_httpupgrade, tls_upgraded_steps, 11)
  /\ Takes(trojan_tls_websocket, tls_upgraded_steps, 11)
  /\ Takes(trojan_grpc, grpc_steps, 2)
  /\ Takes(vless_tcp, tail_steps, 7)
  /\ Takes(vless_httpupgrade, upgraded_steps, 9)
  /\ Takes(vless_websocket, websocket_steps, 10)
  /\ Takes(vless_tls, tls_steps, 10)
  /\ Takes(vless_tls_httpupgrade, tls_upgraded_steps, 11)
  /\ Takes(vless_vision, tls_steps, 10)
  /\ Takes(vless_tls_websocket, tls_upgraded_steps, 11)
  /\ Takes(vless_reality, reality_steps, 8)
  /\ Takes(vless_grpc, grpc_steps, 2)
  /\ Takes(anytls, shadowsocks_steps, 4)
  /\ Takes(anytls_tls, anytls_tls_steps, 6)
  /\ Takes(mieru, mieru_steps, 3)
  /\ Takes(hysteria2, hysteria2_steps, 6)
  /\ Takes(tuic, tuic_steps, 5)
  /\ Takes(naive_tcp, naive_tcp_steps, 4)
  /\ Takes(naive_quic, naive_quic_steps, 5)
<1>1. Takes(socks5, plain_steps, 8)
  BY Lengths, Zenon
     DEF Takes, socks5, Plain, plain_steps
<1>2. Takes(http_proxy, plain_steps, 8)
  BY Lengths, Zenon
     DEF Takes, http_proxy, Plain, plain_steps
<1>3. Takes(shadowsocks, shadowsocks_steps, 6)
  BY Lengths, Zenon
     DEF Takes, shadowsocks, WithSteps, Plain, shadowsocks_steps
<1>4. Takes(vmess_tcp, plain_steps, 8)
  BY Lengths, Zenon
     DEF Takes, vmess_tcp, Plain, plain_steps
<1>5. Takes(vmess_websocket, upgraded_steps, 9)
  BY Lengths, Tails, Joints, Zenon
     DEF Takes, vmess_websocket, vmess_tcp, Upgraded, WithSteps, Plain, plain_steps
<1>6. Takes(vmess_tls, tls_steps, 10)
  BY Lengths, Tails, Joints, Zenon
     DEF Takes, vmess_tls, vmess_tcp, OverTls, WithSteps, Plain, plain_steps
<1>7. Takes(vmess_tls_websocket, tls_upgraded_steps, 11)
  BY Lengths, Tails, Joints, Zenon
     DEF Takes, vmess_tls_websocket, vmess_websocket, vmess_tcp, OverTls, Upgraded,
     WithSteps, Plain, plain_steps
<1>8. Takes(vmess_grpc, grpc_steps, 2)
  BY Lengths, Tails, Joints, Zenon
     DEF Takes, vmess_grpc, vmess_tcp, OverGrpc, Plain, plain_steps
<1>9. Takes(trojan_tcp, plain_steps, 8)
  BY Lengths, Zenon
     DEF Takes, trojan_tcp, Plain, plain_steps
<1>10. Takes(trojan_httpupgrade, upgraded_steps, 9)
  BY Lengths, Tails, Joints, Zenon
     DEF Takes, trojan_httpupgrade, trojan_tcp, Upgraded, WithSteps, Plain, plain_steps
<1>11. Takes(trojan_websocket, websocket_steps, 10)
  BY Lengths, Zenon
     DEF Takes, trojan_websocket, trojan_tcp, WithSteps, Plain, websocket_steps,
     plain_steps
<1>12. Takes(trojan_tls, tls_steps, 10)
  BY Lengths, Tails, Joints, Zenon
     DEF Takes, trojan_tls, trojan_tcp, OverTls, WithSteps, Plain, plain_steps
<1>13. Takes(trojan_tls_httpupgrade, tls_upgraded_steps, 11)
  BY Lengths, Tails, Joints, Zenon
     DEF Takes, trojan_tls_httpupgrade, trojan_httpupgrade, trojan_tcp, OverTls, Upgraded,
     WithSteps, Plain, plain_steps
<1>14. Takes(trojan_tls_websocket, tls_upgraded_steps, 11)
  BY Lengths, Tails, Joints, Zenon
     DEF Takes, trojan_tls_websocket, trojan_httpupgrade, trojan_tcp, OverTls, Upgraded,
     WithSteps, Plain, plain_steps
<1>15. Takes(trojan_grpc, grpc_steps, 2)
  BY Lengths, Tails, Joints, Zenon
     DEF Takes, trojan_grpc, trojan_tcp, OverGrpc, Plain, plain_steps
<1>16. Takes(vless_tcp, tail_steps, 7)
  BY Lengths, Tails, Joints, Zenon
     DEF Takes, vless_tcp, WithSteps, Plain, plain_steps
<1>17. Takes(vless_httpupgrade, upgraded_steps, 9)
  BY Lengths, Tails, Joints, Zenon
     DEF Takes, vless_httpupgrade, vless_tcp, WithSteps, Plain, plain_steps
<1>18. Takes(vless_websocket, websocket_steps, 10)
  BY Lengths, Tails, Joints, Zenon
     DEF Takes, vless_websocket, vless_httpupgrade, vless_tcp, WithSteps, Plain,
     websocket_steps, plain_steps
<1>19. Takes(vless_tls, tls_steps, 10)
  BY Lengths, Tails, Joints, Zenon
     DEF Takes, vless_tls, vless_tcp, WithSteps, Plain, plain_steps
<1>20. Takes(vless_tls_httpupgrade, tls_upgraded_steps, 11)
  BY Lengths, Tails, Joints, ZenonT(30)
     DEF Takes, vless_tls_httpupgrade, vless_httpupgrade, vless_tcp, OverTls, WithSteps,
     Plain, plain_steps
<1>21. Takes(vless_vision, tls_steps, 10)
  BY Lengths, Tails, Joints, Zenon
     DEF Takes, vless_vision, vless_tls, vless_tcp, WithSteps, Plain, plain_steps
<1>22. Takes(vless_tls_websocket, tls_upgraded_steps, 11)
  BY Lengths, Tails, Joints, ZenonT(30)
     DEF Takes, vless_tls_websocket, vless_httpupgrade, vless_tcp, OverTls, WithSteps,
     Plain, plain_steps
<1>23. Takes(vless_reality, reality_steps, 8)
  BY Lengths, Tails, Joints, Zenon
     DEF Takes, vless_reality, vless_tcp, WithSteps, Plain, plain_steps
<1>24. Takes(vless_grpc, grpc_steps, 2)
  BY Lengths, Tails, Joints, Zenon
     DEF Takes, vless_grpc, vless_tcp, OverGrpc, WithSteps, Plain, plain_steps
<1>25. Takes(anytls, shadowsocks_steps, 4)
  BY Lengths, Joints, Zenon
     DEF Takes, anytls, Multiplexed, Plain
<1>26. Takes(anytls_tls, anytls_tls_steps, 6)
  BY Lengths, Joints, Zenon
     DEF Takes, anytls_tls, anytls, Multiplexed, Plain
<1>27. Takes(mieru, mieru_steps, 3)
  BY Lengths, Joints, Zenon
     DEF Takes, mieru, Multiplexed, Plain
<1>28. Takes(hysteria2, hysteria2_steps, 6)
  BY Lengths, Joints, Zenon
     DEF Takes, hysteria2, Multiplexed, Plain
<1>29. Takes(tuic, tuic_steps, 5)
  BY Lengths, Joints, Zenon
     DEF Takes, tuic, Multiplexed, Plain
<1>30. Takes(naive_tcp, naive_tcp_steps, 4)
  BY Lengths, Joints, Zenon
     DEF Takes, naive_tcp, Multiplexed, Plain
<1>31. Takes(naive_quic, naive_quic_steps, 5)
  BY Lengths, Joints, Zenon
     DEF Takes, naive_quic, naive_tcp, Multiplexed, handle_h3_request, Plain
<1> QED
  BY <1>1, <1>2, <1>3, <1>4, <1>5, <1>6, <1>7, <1>8, <1>9, <1>10, <1>11, <1>12, <1>13,
     <1>14, <1>15, <1>16, <1>17, <1>18, <1>19, <1>20, <1>21, <1>22, <1>23, <1>24, <1>25,
     <1>26, <1>27, <1>28, <1>29, <1>30, <1>31, Zenon

LEMMA StepsAreShaped ==
  /\ Shaped(plain_steps, 8, 5)
  /\ Shaped(shadowsocks_steps, 6, 4)
  /\ Shaped(upgraded_steps, 9, 6)
  /\ Shaped(tls_steps, 10, 7)
  /\ Shaped(tls_upgraded_steps, 11, 8)
  /\ Shaped(grpc_steps, 2, 6)
  /\ Shaped(websocket_steps, 10, 6)
  /\ Shaped(tail_steps, 7, 4)
  /\ Shaped(reality_steps, 8, 5)
  /\ Shaped(shadowsocks_steps, 4, 4)
  /\ Shaped(anytls_tls_steps, 6, 6)
  /\ Shaped(mieru_steps, 3, 5)
  /\ Shaped(hysteria2_steps, 6, 6)
  /\ Shaped(tuic_steps, 5, 5)
  /\ Shaped(naive_tcp_steps, 4, 9)
  /\ Shaped(naive_quic_steps, 5, 10)
<1>1. Shaped(plain_steps, 8, 5)
  BY Lengths DEF Shaped, plain_steps
<1>2. Shaped(shadowsocks_steps, 6, 4)
  BY Lengths DEF Shaped, shadowsocks_steps
<1>3. Shaped(upgraded_steps, 9, 6)
  BY Lengths DEF Shaped, upgraded_steps
<1>4. Shaped(tls_steps, 10, 7)
  BY Lengths DEF Shaped, tls_steps
<1>5. Shaped(tls_upgraded_steps, 11, 8)
  BY Lengths DEF Shaped, tls_upgraded_steps
<1>6. Shaped(grpc_steps, 2, 6)
  BY Lengths DEF Shaped, grpc_steps
<1>7. Shaped(websocket_steps, 10, 6)
  BY Lengths DEF Shaped, websocket_steps
<1>8. Shaped(tail_steps, 7, 4)
  BY Lengths DEF Shaped, tail_steps
<1>9. Shaped(reality_steps, 8, 5)
  BY Lengths DEF Shaped, reality_steps
<1>10. Shaped(shadowsocks_steps, 4, 4)
  BY Lengths DEF Shaped, shadowsocks_steps
<1>11. Shaped(anytls_tls_steps, 6, 6)
  BY Lengths DEF Shaped, anytls_tls_steps
<1>12. Shaped(mieru_steps, 3, 5)
  BY Lengths DEF Shaped, mieru_steps
<1>13. Shaped(hysteria2_steps, 6, 6)
  BY Lengths DEF Shaped, hysteria2_steps
<1>14. Shaped(tuic_steps, 5, 5)
  BY Lengths DEF Shaped, tuic_steps
<1>15. Shaped(naive_tcp_steps, 4, 9)
  BY Lengths DEF Shaped, naive_tcp_steps
<1>16. Shaped(naive_quic_steps, 5, 10)
  BY Lengths DEF Shaped, naive_quic_steps
<1> QED
  BY <1>1, <1>2, <1>3, <1>4, <1>5, <1>6, <1>7, <1>8, <1>9, <1>10, <1>11, <1>12, <1>13,
     <1>14, <1>15, <1>16, Zenon

-----------------------------------------------------------------------------
(* The state: every connection that is used fits its handler.              *)

GuardAt(h) == CHOOSE g \in 1 .. Len(h.steps) : WellFormed(h, g)

FitsAt(c, a, hd, au, lo) == Fits(Kind(c), GuardAt(Kind(c)), a.handler, a.stream, hd, au, lo)

GuardsInv ==
  /\ setting \in Settings
  /\ at \in [Conns -> [Tasks -> Nat]]
  /\ held \in [Conns -> SUBSET Tasks]
  /\ authed \in [Conns -> BOOLEAN] /\ lost \in [Conns -> BOOLEAN]
  /\ \A c \in Live : FitsAt(c, at[c], held[c], authed[c], lost[c])

LEMMA TakesFormed ==
  ASSUME NEW h, NEW steps, NEW own, NEW g, Takes(h, steps, own), Shaped(steps, own, g)
  PROVE  WellFormed(h, GuardAt(h))
<1>1. WellFormed(h, g) /\ g \in 1 .. Len(h.steps)
  BY DEF Takes, WellFormed, Shaped
<1> QED
  BY <1>1, Zenon DEF GuardAt

LEMMA HandlersShaped ==
  ASSUME NEW k \in DOMAIN Handlers PROVE WellFormed(Handlers[k], GuardAt(Handlers[k]))
<1> DEFINE P(h) == WellFormed(h, GuardAt(h))
<1>1. P(socks5) /\ P(http_proxy) /\ P(shadowsocks) /\ P(vmess_tcp)
  BY HandlersTake, StepsAreShaped, TakesFormed, Zenon
<1>2. P(vmess_websocket) /\ P(vmess_tls) /\ P(vmess_tls_websocket) /\ P(vmess_grpc)
  BY HandlersTake, StepsAreShaped, TakesFormed, Zenon
<1>3. P(trojan_tcp) /\ P(trojan_httpupgrade) /\ P(trojan_websocket) /\ P(trojan_tls)
  BY HandlersTake, StepsAreShaped, TakesFormed, Zenon
<1>4. P(trojan_tls_httpupgrade) /\ P(trojan_tls_websocket) /\ P(trojan_grpc) /\ P(vless_tcp)
  BY HandlersTake, StepsAreShaped, TakesFormed, Zenon
<1>5. P(vless_httpupgrade) /\ P(vless_websocket) /\ P(vless_tls) /\ P(vless_tls_httpupgrade)
  BY HandlersTake, StepsAreShaped, TakesFormed, Zenon
<1>6. P(vless_vision) /\ P(vless_tls_websocket) /\ P(vless_reality) /\ P(vless_grpc)
  BY HandlersTake, StepsAreShaped, TakesFormed, Zenon
<1>7. P(anytls) /\ P(anytls_tls) /\ P(mieru) /\ P(hysteria2)
  BY HandlersTake, StepsAreShaped, TakesFormed, Zenon
<1>8. P(tuic) /\ P(naive_tcp) /\ P(naive_quic)
  BY HandlersTake, StepsAreShaped, TakesFormed, ZenonT(30)
<1> HIDE DEF P
<1>9. P(Handlers[k])
  BY <1>1, <1>2, <1>3, <1>4, <1>5, <1>6, <1>7, <1>8 DEF Handlers
<1> QED
  BY <1>9, Zenon DEF P

LEMMA RealityOwnsAll ==
  Handlers["vless_reality"].own = Len(Handlers["vless_reality"].steps)
<1>1. Handlers["vless_reality"] = vless_reality
  BY Zenon DEF Handlers
<1> QED
  BY <1>1, HandlersTake, Lengths, Zenon DEF Takes

LEMMA LiveShaped ==
  ASSUME GuardsInv, NEW c \in Live
  PROVE  /\ c \in Conns /\ WellFormed(Kind(c), GuardAt(Kind(c)))
         /\ FitsAt(c, at[c], held[c], authed[c], lost[c])
         /\ at[c] \in [Tasks -> Nat] /\ held[c] \in SUBSET Tasks
         /\ authed[c] \in BOOLEAN /\ lost[c] \in BOOLEAN
<1>1. c \in Conns /\ setting.kind[c] \in DOMAIN Handlers
  BY SettingsAssumption, Zenon DEF GuardsInv, Live
<1>2. WellFormed(Kind(c), GuardAt(Kind(c)))
  BY <1>1, HandlersShaped, Zenon DEF Kind
<1> QED
  BY <1>1, <1>2, Zenon DEF GuardsInv

\* One connection changes.
LEMMA PutFits ==
  ASSUME GuardsInv, NEW c \in Live, NEW a \in [Tasks -> Nat], NEW hd \in SUBSET Tasks,
         NEW au \in BOOLEAN, NEW lo \in BOOLEAN, FitsAt(c, a, hd, au, lo),
         setting' = setting, at' = [at EXCEPT ![c] = a], held' = [held EXCEPT ![c] = hd],
         authed' = [authed EXCEPT ![c] = au], lost' = [lost EXCEPT ![c] = lo]
  PROVE  GuardsInv'
<1>1. c \in Conns
  BY LiveShaped, Zenon
<1>2. /\ at' \in [Conns -> [Tasks -> Nat]] /\ held' \in [Conns -> SUBSET Tasks]
      /\ authed' \in [Conns -> BOOLEAN] /\ lost' \in [Conns -> BOOLEAN]
  BY <1>1, Zenon DEF GuardsInv
<1>3. /\ at'[c] = a /\ held'[c] = hd /\ authed'[c] = au /\ lost'[c] = lo
      /\ \A d \in Conns : d # c => /\ at'[d] = at[d] /\ held'[d] = held[d]
                                   /\ authed'[d] = authed[d] /\ lost'[d] = lost[d]
  BY <1>1, Zenon DEF GuardsInv
<1>4. Live' = Live /\ \A d \in Live : Kind(d)' = Kind(d) /\ d \in Conns
  BY LiveShaped, Zenon DEF Live, Kind
<1>5. ASSUME NEW d \in Live PROVE FitsAt(d, at[d], held[d], authed[d], lost[d])'
  <2>1. Kind(d)' = Kind(d) /\ d \in Conns
    BY <1>4, Zenon
  <2>2. CASE d = c
    BY <1>3, <2>1, <2>2, Zenon DEF FitsAt
  <2>3. CASE d # c
    <3>1. FitsAt(d, at[d], held[d], authed[d], lost[d])
      BY LiveShaped, Zenon
    <3> QED
      BY <1>3, <2>1, <2>3, <3>1, ZenonT(30) DEF FitsAt
  <2> QED
    BY <2>2, <2>3, Zenon
<1> QED
  BY <1>2, <1>4, <1>5, Zenon DEF GuardsInv

LEMMA SameFits ==
  ASSUME GuardsInv, setting' = setting, UNCHANGED <<at, held, authed, lost>>
  PROVE  GuardsInv'
BY Zenon DEF GuardsInv, Live, FitsAt, Kind

LEMMA EndFits ==
  ASSUME GuardsInv, NEW c \in Live, NEW T \in SUBSET Tasks, NEW result, NEW said,
         End(c, T, result, said)
  PROVE  GuardsInv'
<1> DEFINE a == [t \in Tasks |-> IF t \in T THEN 0 ELSE at[c][t]]
<1>1. /\ setting' = setting /\ at' = [at EXCEPT ![c] = a]
      /\ held' = [held EXCEPT ![c] = held[c] \ T] /\ authed' = authed /\ lost' = lost
  BY Zenon DEF End, known
<1>2. c \in Conns /\ at[c] \in [Tasks -> Nat] /\ held[c] \in SUBSET Tasks
      /\ authed[c] \in BOOLEAN /\ lost[c] \in BOOLEAN
  BY LiveShaped, Zenon
<1>3. a \in [Tasks -> Nat] /\ held[c] \ T \in SUBSET Tasks
  BY <1>2, Zenon
<1>4. /\ a.handler = IF "handler" \in T THEN 0 ELSE at[c].handler
      /\ a.stream = IF "stream" \in T THEN 0 ELSE at[c].stream
  BY DEF Tasks
<1>5. FitsAt(c, a, held[c] \ T, authed[c], lost[c])
  <2>1. WellFormed(Kind(c), GuardAt(Kind(c))) /\ FitsAt(c, at[c], held[c], authed[c], lost[c])
    BY LiveShaped, Zenon
  <2>2. Fits(Kind(c), GuardAt(Kind(c)), IF "handler" \in T THEN 0 ELSE at[c].handler,
             IF "stream" \in T THEN 0 ELSE at[c].stream, held[c] \ T, authed[c], lost[c])
    BY <2>1, FitsEnd, Zenon DEF FitsAt
  <2> HIDE DEF a
  <2> QED
    BY <1>4, <2>2, Zenon DEF FitsAt
<1>6. authed' = [authed EXCEPT ![c] = authed[c]] /\ lost' = [lost EXCEPT ![c] = lost[c]]
  BY <1>1, <1>2, Zenon DEF GuardsInv
<1> HIDE DEF a
<1> QED
  BY <1>1, <1>2, <1>3, <1>5, <1>6, PutFits, ZenonT(30)

LEMMA OverFits ==
  ASSUME GuardsInv, NEW c \in Live, NEW t \in Tasks, NEW result, NEW said,
         OverSaying(c, t, result, said)
  PROVE  GuardsInv'
<1>1. \E T \in SUBSET Tasks : \E r : End(c, T, r, said)
  BY Zenon DEF OverSaying
<1> QED
  BY <1>1, EndFits, Zenon

\* Where a task is that is about to take a step.
Before == {"slot", "auth_backoff", "tls_backoff", "source", "tls", "upgrade", "auth", "request",
            "lookup", "closed", "connect", "answer"}

LEMMA At ==
  ASSUME GuardsInv, NEW c \in Live, NEW t \in Tasks,
         StepOf(c, t) \notin {"none", "serving", "closing", "failing"}
  PROVE  /\ at[c][t] \in 1 .. IF t = "handler" THEN Kind(c).own ELSE Len(Kind(c).steps)
         /\ Kind(c).steps[at[c][t]] = StepOf(c, t)
<1>1. /\ at[c].handler \in Nat /\ at[c].stream \in Nat
      /\ at[c].handler <= Kind(c).own + 3 /\ at[c].stream <= Len(Kind(c).steps)
      /\ Kind(c).own \in Nat /\ Len(Kind(c).steps) \in Nat
  <2>1. WellFormed(Kind(c), GuardAt(Kind(c))) /\ FitsAt(c, at[c], held[c], authed[c], lost[c])
    BY LiveShaped, ZenonT(30)
  <2> QED
    BY <2>1, FitsRange, Zenon DEF FitsAt
<1>2. CASE t = "handler"
  BY <1>1, <1>2, SMTT(30) DEF StepOf
<1>3. CASE t = "stream"
  BY <1>1, <1>3 DEF StepOf
<1> QED
  BY <1>2, <1>3, Zenon DEF Tasks

\* The places of a task that advances.
LEMMA Places ==
  ASSUME GuardsInv, NEW c \in Live, NEW t \in Tasks, NEW n \in Nat
  PROVE  LET a == [at[c] EXCEPT ![t] = n]
         IN  /\ a \in [Tasks -> Nat]
             /\ t = "handler" => a.handler = n /\ a.stream = at[c].stream
             /\ t = "stream" => a.stream = n /\ a.handler = at[c].handler
<1>1. at[c] \in [Tasks -> Nat]
  BY LiveShaped, Zenon
<1> QED
  BY <1>1, Zenon DEF Tasks

LEMMA AdvanceFits ==
  ASSUME GuardsInv, NEW c \in Live, NEW t \in Tasks, StepOf(c, t) \in Before
  PROVE  FitsAt(c, [at[c] EXCEPT ![t] = at[c][t] + 1], held[c], authed[c], lost[c])
<1>1. WellFormed(Kind(c), GuardAt(Kind(c))) /\ FitsAt(c, at[c], held[c], authed[c], lost[c])
      /\ at[c] \in [Tasks -> Nat]
  BY LiveShaped, Zenon
<1>2. /\ at[c][t] \in 1 .. IF t = "handler" THEN Kind(c).own ELSE Len(Kind(c).steps)
      /\ Kind(c).steps[at[c][t]] = StepOf(c, t)
  BY At, ZenonT(30) DEF Before
<1>3. Kind(c).steps[at[c][t]] \notin {"guard", "relay"} /\ at[c][t] + 1 \in Nat
  BY <1>1, <1>2 DEF Before
<1>4. CASE t = "handler"
  <2>1. Fits(Kind(c), GuardAt(Kind(c)), at[c].handler + 1, at[c].stream, held[c], authed[c], lost[c])
    BY <1>1, <1>2, <1>3, <1>4, FitsAdvance, ZenonT(30) DEF FitsAt
  <2>2. /\ [at[c] EXCEPT ![t] = at[c][t] + 1].handler = at[c].handler + 1
        /\ [at[c] EXCEPT ![t] = at[c][t] + 1].stream = at[c].stream
    BY <1>3, <1>4, Places
  <2> QED
    BY <2>1, <2>2, Zenon DEF FitsAt
<1>5. CASE t = "stream"
  <2>1. Fits(Kind(c), GuardAt(Kind(c)), at[c].handler, at[c].stream + 1, held[c], authed[c], lost[c])
    BY <1>1, <1>2, <1>3, <1>5, FitsAdvance, ZenonT(30) DEF FitsAt
  <2>2. /\ [at[c] EXCEPT ![t] = at[c][t] + 1].stream = at[c].stream + 1
        /\ [at[c] EXCEPT ![t] = at[c][t] + 1].handler = at[c].handler
    BY <1>3, <1>5, Places
  <2> QED
    BY <2>1, <2>2, Zenon DEF FitsAt
<1> QED
  BY <1>4, <1>5, Zenon DEF Tasks

LEMMA LoginFits ==
  ASSUME GuardsInv, NEW c \in Live, NEW t \in Tasks, StepOf(c, t) \in {"auth", "lookup"},
         NEW au \in BOOLEAN, NEW lo \in BOOLEAN, au => authed[c] \/ StepOf(c, t) = "auth"
  PROVE  FitsAt(c, [at[c] EXCEPT ![t] = at[c][t] + 1], held[c], au, lo)
<1>1. WellFormed(Kind(c), GuardAt(Kind(c))) /\ FitsAt(c, at[c], held[c], authed[c], lost[c])
      /\ at[c] \in [Tasks -> Nat]
  BY LiveShaped, Zenon
<1>2. /\ at[c][t] \in 1 .. IF t = "handler" THEN Kind(c).own ELSE Len(Kind(c).steps)
      /\ Kind(c).steps[at[c][t]] = StepOf(c, t)
  BY At, ZenonT(30)
<1>3. at[c][t] + 1 \in Nat
  BY <1>1
<1>4. CASE t = "handler"
  <2>1. Fits(Kind(c), GuardAt(Kind(c)), at[c].handler + 1, at[c].stream, held[c], au, lo)
    BY <1>1, <1>2, <1>4, FitsLogin, ZenonT(30) DEF FitsAt
  <2>2. /\ [at[c] EXCEPT ![t] = at[c][t] + 1].handler = at[c].handler + 1
        /\ [at[c] EXCEPT ![t] = at[c][t] + 1].stream = at[c].stream
    BY <1>3, <1>4, Places
  <2> QED
    BY <2>1, <2>2, Zenon DEF FitsAt
<1>5. CASE t = "stream"
  <2>1. Fits(Kind(c), GuardAt(Kind(c)), at[c].handler, at[c].stream + 1, held[c], au, lo)
    BY <1>1, <1>2, <1>5, FitsLogin, ZenonT(30) DEF FitsAt
  <2>2. /\ [at[c] EXCEPT ![t] = at[c][t] + 1].stream = at[c].stream + 1
        /\ [at[c] EXCEPT ![t] = at[c][t] + 1].handler = at[c].handler
    BY <1>3, <1>5, Places
  <2> QED
    BY <2>1, <2>2, Zenon DEF FitsAt
<1> QED
  BY <1>4, <1>5, Zenon DEF Tasks

LEMMA GuardFits ==
  ASSUME GuardsInv, NEW c \in Live, NEW t \in Tasks, StepOf(c, t) = "guard"
  PROVE  FitsAt(c, [at[c] EXCEPT ![t] = at[c][t] + 1],
                IF lost[c] THEN held[c] ELSE held[c] \cup {t}, authed[c], lost[c])
<1> DEFINE hd == IF lost[c] THEN held[c] ELSE held[c] \cup {t}
<1>1. WellFormed(Kind(c), GuardAt(Kind(c))) /\ FitsAt(c, at[c], held[c], authed[c], lost[c])
      /\ at[c] \in [Tasks -> Nat]
  BY LiveShaped, Zenon
<1>2. /\ at[c][t] \in 1 .. IF t = "handler" THEN Kind(c).own ELSE Len(Kind(c).steps)
      /\ Kind(c).steps[at[c][t]] = "guard"
  BY At, ZenonT(30)
<1>3. at[c][t] + 1 \in Nat
  BY <1>1
<1>4. CASE t = "handler"
  <2>1. Fits(Kind(c), GuardAt(Kind(c)), at[c].handler + 1, at[c].stream, hd, authed[c], lost[c])
    BY <1>1, <1>2, <1>4, FitsGuard, ZenonT(30) DEF FitsAt
  <2>2. /\ [at[c] EXCEPT ![t] = at[c][t] + 1].handler = at[c].handler + 1
        /\ [at[c] EXCEPT ![t] = at[c][t] + 1].stream = at[c].stream
    BY <1>3, <1>4, Places
  <2> QED
    BY <2>1, <2>2, Zenon DEF FitsAt
<1>5. CASE t = "stream"
  <2>1. Fits(Kind(c), GuardAt(Kind(c)), at[c].handler, at[c].stream + 1, hd, authed[c], lost[c])
    BY <1>1, <1>2, <1>5, FitsGuard, ZenonT(30) DEF FitsAt
  <2>2. /\ [at[c] EXCEPT ![t] = at[c][t] + 1].stream = at[c].stream + 1
        /\ [at[c] EXCEPT ![t] = at[c][t] + 1].handler = at[c].handler
    BY <1>3, <1>5, Places
  <2> QED
    BY <2>1, <2>2, Zenon DEF FitsAt
<1> QED
  BY <1>4, <1>5, Zenon DEF Tasks

\* A step that moves one task and changes nothing else of the connection.
LEMMA MoveFits ==
  ASSUME GuardsInv, NEW c \in Live, NEW a \in [Tasks -> Nat], at' = [at EXCEPT ![c] = a],
         setting' = setting, UNCHANGED <<held, authed, lost>>,
         FitsAt(c, a, held[c], authed[c], lost[c])
  PROVE  GuardsInv'
<1>1. /\ c \in Conns /\ held[c] \in SUBSET Tasks /\ authed[c] \in BOOLEAN /\ lost[c] \in BOOLEAN
  BY LiveShaped, Zenon
<1>2. /\ held' = [held EXCEPT ![c] = held[c]] /\ authed' = [authed EXCEPT ![c] = authed[c]]
      /\ lost' = [lost EXCEPT ![c] = lost[c]]
  BY <1>1, Zenon DEF GuardsInv
<1> DEFINE hd == held[c]
           au == authed[c]
           lo == lost[c]
<1>3. /\ hd \in SUBSET Tasks /\ au \in BOOLEAN /\ lo \in BOOLEAN /\ FitsAt(c, a, hd, au, lo)
      /\ held' = [held EXCEPT ![c] = hd] /\ authed' = [authed EXCEPT ![c] = au]
      /\ lost' = [lost EXCEPT ![c] = lo]
  BY <1>1, <1>2, Zenon
<1> HIDE DEF hd, au, lo
<1> QED
  BY <1>3, PutFits, ZenonT(30)

\* What Advance does to the places.
LEMMA Advanced ==
  ASSUME GuardsInv, NEW c \in Live, NEW t \in Tasks, Advance(c, t)
  PROVE  /\ [at[c] EXCEPT ![t] = at[c][t] + 1] \in [Tasks -> Nat]
         /\ at' = [at EXCEPT ![c] = [at[c] EXCEPT ![t] = at[c][t] + 1]]
<1>1. at[c] \in [Tasks -> Nat] /\ at \in [Conns -> [Tasks -> Nat]] /\ c \in Conns
  BY LiveShaped, Zenon DEF GuardsInv
<1>2. at[c][t] + 1 \in Nat
  BY <1>1
<1>3. [at[c] EXCEPT ![t] = at[c][t] + 1] \in [Tasks -> Nat]
  BY <1>1, <1>2, Zenon
<1> QED
  BY <1>1, <1>3, Zenon DEF Advance

LEMMA AdvanceStep ==
  ASSUME GuardsInv, NEW c \in Live, NEW t \in Tasks, StepOf(c, t) \in Before, Advance(c, t),
         setting' = setting, UNCHANGED <<held, authed, lost>>
  PROVE  GuardsInv'
BY Advanced, AdvanceFits, MoveFits, ZenonT(30)

\* The relay goes to the pool.
LEMMA DetachStep ==
  ASSUME GuardsInv, NEW c \in Live, StepOf(c, "handler") \in {"connect", "answer"}, Detach(c)
  PROVE  GuardsInv'
<1> DEFINE n == Len(Kind(c).steps)
           a == [handler |-> 0, stream |-> n]
           hd == IF "handler" \in held[c] THEN {"stream"} ELSE {}
<1>1. /\ c \in Conns /\ WellFormed(Kind(c), GuardAt(Kind(c))) /\ authed[c] \in BOOLEAN /\ lost[c] \in BOOLEAN
      /\ FitsAt(c, at[c], held[c], authed[c], lost[c])
  BY LiveShaped, Zenon
<1>2. /\ at[c].handler \in 1 .. Kind(c).own /\ Kind(c).steps[at[c].handler] \in {"connect", "answer"}
  BY At, Zenon DEF Tasks
<1>3. Fits(Kind(c), GuardAt(Kind(c)), 0, n, hd, authed[c], lost[c])
  BY <1>1, <1>2, FitsJump, Zenon DEF FitsAt
<1>4. n \in Nat
  BY <1>1, ZenonT(30) DEF WellFormed, Shaped
<1>5. a \in [Tasks -> Nat] /\ a.handler = 0 /\ a.stream = n /\ hd \in SUBSET Tasks
  <2> HIDE DEF n
  <2> QED
    BY <1>4 DEF Tasks
<1>6. FitsAt(c, a, hd, authed[c], lost[c])
  <2> HIDE DEF a, n, hd
  <2> QED
    BY <1>3, <1>5, Zenon DEF FitsAt
<1>7. /\ setting' = setting /\ at' = [at EXCEPT ![c] = a] /\ held' = [held EXCEPT ![c] = hd]
      /\ authed' = [authed EXCEPT ![c] = authed[c]] /\ lost' = [lost EXCEPT ![c] = lost[c]]
  BY <1>1, Zenon DEF Detach, known, GuardsInv
<1> HIDE DEF a, hd
<1> QED
  BY <1>1, <1>5, <1>6, <1>7, PutFits, ZenonT(30)

\* A task goes to its relay: with datagrams, or without a user.
LEMMA JumpStep ==
  ASSUME GuardsInv, NEW c \in Live, NEW t \in Tasks,
         \/ StepOf(c, t) = "connect"
         \/ t = "handler" /\ StepOf(c, t) = "tls" /\ Kind(c).own = Len(Kind(c).steps),
         at' = [at EXCEPT ![c][t] = Len(Kind(c).steps)], UNCHANGED others
  PROVE  GuardsInv'
<1> DEFINE n == Len(Kind(c).steps)
           a == [at[c] EXCEPT ![t] = n]
<1>1. /\ c \in Conns /\ WellFormed(Kind(c), GuardAt(Kind(c))) /\ at[c] \in [Tasks -> Nat]
      /\ FitsAt(c, at[c], held[c], authed[c], lost[c])
  BY LiveShaped, Zenon
<1>2. n \in Nat
  BY <1>1, Zenon DEF WellFormed, Shaped
<1>3. /\ at[c][t] \in 1 .. IF t = "handler" THEN Kind(c).own ELSE Len(Kind(c).steps)
      /\ Kind(c).steps[at[c][t]] = StepOf(c, t)
  BY At, Zenon
<1> HIDE DEF n
<1>4. a \in [Tasks -> Nat]
  BY <1>1, <1>2, Zenon
<1>5. ASSUME t = "handler" PROVE FitsAt(c, a, held[c], authed[c], lost[c])
  <2>1. Fits(Kind(c), GuardAt(Kind(c)), n, at[c].stream, held[c], authed[c], lost[c])
    BY <1>1, <1>3, <1>5, FitsJump, ZenonT(30) DEF FitsAt, n
  <2>2. a.handler = n /\ a.stream = at[c].stream
    BY <1>1, <1>2, <1>5, Places
  <2> HIDE DEF a
  <2> QED
    BY <2>1, <2>2, Zenon DEF FitsAt
<1>6. ASSUME t = "stream" PROVE FitsAt(c, a, held[c], authed[c], lost[c])
  <2>1. Fits(Kind(c), GuardAt(Kind(c)), at[c].handler, n, held[c], authed[c], lost[c])
    BY <1>1, <1>3, <1>6, FitsJump, ZenonT(30) DEF FitsAt, n
  <2>2. a.stream = n /\ a.handler = at[c].handler
    BY <1>1, <1>2, <1>6, Places
  <2> HIDE DEF a
  <2> QED
    BY <2>1, <2>2, Zenon DEF FitsAt
<1>7. FitsAt(c, a, held[c], authed[c], lost[c])
  BY <1>5, <1>6, Zenon DEF Tasks
<1>8. at' = [at EXCEPT ![c] = a] /\ setting' = setting /\ UNCHANGED <<held, authed, lost>>
  BY <1>1, Zenon DEF n, others, known, GuardsInv
<1> HIDE DEF a
<1> QED
  BY <1>4, <1>7, <1>8, MoveFits, ZenonT(30)

LEMMA ReadSucceedsStep ==
  ASSUME GuardsInv, NEW c \in Live, NEW t \in Tasks, ReadSucceeds(c, t) PROVE GuardsInv'
<1>1. /\ StepOf(c, t) \in Reads /\ Advance(c, t) /\ setting' = setting /\ held' = held /\ lost' = lost
      /\ authed' = [authed EXCEPT ![c] = authed[c] \/ StepOf(c, t) = "auth"]
  BY Zenon DEF ReadSucceeds, known
<1>2. /\ c \in Conns /\ held[c] \in SUBSET Tasks /\ authed[c] \in BOOLEAN /\ lost[c] \in BOOLEAN
      /\ held \in [Conns -> SUBSET Tasks] /\ authed \in [Conns -> BOOLEAN]
      /\ lost \in [Conns -> BOOLEAN]
  BY LiveShaped, Zenon DEF GuardsInv
<1>3. CASE StepOf(c, t) = "auth"
  <2> DEFINE a == [at[c] EXCEPT ![t] = at[c][t] + 1]
             hd == held[c]
             au == TRUE
             lo == lost[c]
  <2>1. a \in [Tasks -> Nat] /\ at' = [at EXCEPT ![c] = a]
    BY <1>1, Advanced, Zenon
  <2>2. FitsAt(c, a, hd, au, lo)
    BY <1>2, <1>3, LoginFits, ZenonT(30)
  <2>3. authed' = [authed EXCEPT ![c] = au]
    BY <1>1, <1>2, <1>3, ZenonT(30)
  <2>4. /\ hd \in SUBSET Tasks /\ au \in BOOLEAN /\ lo \in BOOLEAN /\ setting' = setting
        /\ held' = [held EXCEPT ![c] = hd] /\ lost' = [lost EXCEPT ![c] = lo]
    BY <1>1, <1>2, Zenon
  <2> HIDE DEF a, hd, au, lo
  <2> QED
    BY <2>1, <2>2, <2>3, <2>4, PutFits, ZenonT(30)
<1>4. CASE StepOf(c, t) # "auth"
  <2>1. authed' = authed
    BY <1>1, <1>2, <1>4, Zenon
  <2>2. StepOf(c, t) \in Before
    BY <1>1, Zenon DEF Reads, Before
  <2> QED
    BY <1>1, <2>1, <2>2, AdvanceStep, ZenonT(30)
<1> QED
  BY <1>3, <1>4, Zenon

LEMMA LookUpUserStep ==
  ASSUME GuardsInv, NEW c \in Live, NEW t \in Tasks, LookUpUser(c, t) PROVE GuardsInv'
<1>1. CASE Over(c, t, "error")
  BY <1>1, OverFits, Zenon DEF Over
<1>2. CASE /\ Advance(c, t) /\ lost' = [lost EXCEPT ![c] = ~users]
           /\ UNCHANGED <<known, held, authed, blame, tables>>
  <2> DEFINE a == [at[c] EXCEPT ![t] = at[c][t] + 1]
             hd == held[c]
             au == authed[c]
             lo == ~users
  <2>1. StepOf(c, t) \in {"auth", "lookup"}
    BY Zenon DEF LookUpUser
  <2>2. /\ c \in Conns /\ hd \in SUBSET Tasks /\ au \in BOOLEAN /\ lo \in BOOLEAN
    BY LiveShaped, Zenon
  <2>3. a \in [Tasks -> Nat] /\ at' = [at EXCEPT ![c] = a]
    BY <1>2, Advanced, Zenon
  <2>4. FitsAt(c, a, hd, au, lo)
    BY <2>1, <2>2, LoginFits, ZenonT(30)
  <2>5. /\ setting' = setting /\ held' = [held EXCEPT ![c] = hd]
        /\ authed' = [authed EXCEPT ![c] = au] /\ lost' = [lost EXCEPT ![c] = lo]
    BY <1>2, <2>2, Zenon DEF known, GuardsInv
  <2> HIDE DEF a, hd, au, lo
  <2> QED
    BY <2>2, <2>3, <2>4, <2>5, PutFits, ZenonT(30)
<1> QED
  BY <1>1, <1>2, Zenon DEF LookUpUser

LEMMA AcquireGuardStep ==
  ASSUME GuardsInv, NEW c \in Live, NEW t \in Tasks, AcquireGuard(c, t) PROVE GuardsInv'
<1>1. CASE Over(c, t, "device")
  BY <1>1, OverFits, Zenon DEF Over
<1>2. CASE /\ Advance(c, t)
           /\ held' = IF lost[c] THEN held ELSE [held EXCEPT ![c] = @ \cup {t}]
           /\ UNCHANGED <<known, authed, lost, blame, tables>>
  <2> DEFINE a == [at[c] EXCEPT ![t] = at[c][t] + 1]
             hd == IF lost[c] THEN held[c] ELSE held[c] \cup {t}
             au == authed[c]
             lo == lost[c]
  <2>1. StepOf(c, t) = "guard"
    BY Zenon DEF AcquireGuard
  <2>2. /\ c \in Conns /\ held[c] \in SUBSET Tasks /\ au \in BOOLEAN /\ lo \in BOOLEAN
    BY LiveShaped, Zenon
  <2>3. a \in [Tasks -> Nat] /\ at' = [at EXCEPT ![c] = a]
    BY <1>2, Advanced, Zenon
  <2>4. FitsAt(c, a, hd, au, lo)
    BY <2>1, GuardFits, Zenon
  <2>5. hd \in SUBSET Tasks
    BY <2>2, Zenon
  <2>6. /\ setting' = setting /\ held' = [held EXCEPT ![c] = hd]
        /\ authed' = [authed EXCEPT ![c] = au] /\ lost' = [lost EXCEPT ![c] = lo]
    BY <1>2, <2>2, Zenon DEF known, GuardsInv
  <2> HIDE DEF a, hd, au, lo
  <2> QED
    BY <2>2, <2>3, <2>4, <2>5, <2>6, PutFits, ZenonT(30)
<1> QED
  BY <1>1, <1>2, Zenon DEF AcquireGuard

LEMMA AssociateStep ==
  ASSUME GuardsInv, NEW c \in Live, NEW t \in Tasks, Associate(c, t) PROVE GuardsInv'
<1>1. StepOf(c, t) = "connect"
  BY Zenon DEF Associate
<1>2. CASE Kind(c).udp = "pool" /\ Detach(c)
  <2>1. CASE t = "handler"
    BY <1>1, <1>2, <2>1, DetachStep, Zenon
  <2>2. CASE t = "stream"
    <3>1. at[c].stream \in 1 .. Len(Kind(c).steps) /\ Kind(c).steps[at[c].stream] = "connect"
      BY <1>1, <2>2, At, Zenon
    <3>2. /\ WellFormed(Kind(c), GuardAt(Kind(c)))
          /\ FitsAt(c, at[c], held[c], authed[c], lost[c])
      BY LiveShaped, Zenon
    <3>3. Kind(c).udp # "pool"
      BY <3>1, <3>2, FitsJump, ZenonT(30) DEF FitsAt
    <3> QED
      BY <1>2, <3>3, Zenon
  <2> QED
    BY <2>1, <2>2, ZenonT(30) DEF Tasks
<1>3. CASE at' = [at EXCEPT ![c][t] = Len(Kind(c).steps)] /\ UNCHANGED others
  BY <1>1, <1>3, JumpStep, Zenon
<1> QED
  BY <1>2, <1>3, Zenon DEF Associate

LEMMA FallBackStep ==
  ASSUME GuardsInv, NEW c \in Live, FallBack(c) PROVE GuardsInv'
<1>1. /\ setting.kind[c] = "vless_reality" /\ StepOf(c, "handler") = "tls" /\ UNCHANGED others
      /\ at' = [at EXCEPT ![c].handler = Len(Kind(c).steps)]
  BY Zenon DEF FallBack
<1>2. Kind(c).own = Len(Kind(c).steps)
  BY <1>1, RealityOwnsAll, Zenon DEF Kind
<1>3. at' = [at EXCEPT ![c]["handler"] = Len(Kind(c).steps)] /\ "handler" \in Tasks
  BY <1>1, Zenon DEF Tasks
<1> QED
  BY <1>1, <1>2, <1>3, JumpStep, Zenon

LEMMA Serving ==
  ASSUME GuardsInv, NEW c \in Live, StepOf(c, "handler") = "serving"
  PROVE  at[c].handler = Kind(c).own + 1
<1>1. /\ WellFormed(Kind(c), GuardAt(Kind(c))) /\ FitsAt(c, at[c], held[c], authed[c], lost[c])
      /\ at[c] \in [Tasks -> Nat]
  BY LiveShaped, ZenonT(30)
<1>2. at[c].handler \in Nat /\ Kind(c).own \in Nat /\ Kind(c).own <= Len(Kind(c).steps)
      /\ Len(Kind(c).steps) \in Nat
  BY <1>1, FitsRange, Zenon DEF FitsAt
<1>3. CASE at[c].handler <= Kind(c).own
  <2>1. at[c].handler # 0 /\ Kind(c).steps[at[c].handler] = "serving"
    BY <1>3, Zenon DEF StepOf
  <2> QED
    BY <1>1, <1>2, <1>3, <2>1, SMTT(30) DEF WellFormed, Shaped
<1>4. CASE ~(at[c].handler <= Kind(c).own)
  BY <1>4, Zenon DEF StepOf
<1> QED
  BY <1>3, <1>4, Zenon

LEMMA OpenStreamStep ==
  ASSUME GuardsInv, NEW c \in Live, OpenStream(c) PROVE GuardsInv'
<1> DEFINE n == Kind(c).own + 1
           a == [at[c] EXCEPT !["stream"] = n]
<1>1. /\ WellFormed(Kind(c), GuardAt(Kind(c))) /\ FitsAt(c, at[c], held[c], authed[c], lost[c])
      /\ at[c] \in [Tasks -> Nat] /\ c \in Conns /\ "stream" \in Tasks
  BY LiveShaped, Zenon DEF Tasks
<1>2. at[c].handler = Kind(c).own + 1 /\ at[c].stream = 0
  BY Serving, Zenon DEF OpenStream
<1>3. Fits(Kind(c), GuardAt(Kind(c)), at[c].handler, n, held[c], authed[c], lost[c])
  BY <1>1, <1>2, FitsServe, ZenonT(30) DEF FitsAt
<1>4. n \in Nat
  BY <1>1 DEF WellFormed, Shaped
<1>5. at' = [at EXCEPT ![c] = a] /\ setting' = setting /\ UNCHANGED <<held, authed, lost>>
  BY <1>1, Zenon DEF OpenStream, others, known, GuardsInv
<1> HIDE DEF n
<1>6. a \in [Tasks -> Nat]
  BY <1>1, <1>4, Zenon
<1>7. a.stream = n /\ a.handler = at[c].handler
  BY <1>1, <1>4, Places, Zenon
<1> HIDE DEF a
<1>8. FitsAt(c, a, held[c], authed[c], lost[c])
  BY <1>3, <1>7, Zenon DEF FitsAt
<1> QED
  BY <1>5, <1>6, <1>8, MoveFits, ZenonT(30)

LEMMA StopServingStep ==
  ASSUME GuardsInv, NEW c \in Live, StopServing(c) PROVE GuardsInv'
<1>1. CASE \E result : Over(c, "handler", result)
  BY <1>1, OverFits, Zenon DEF Over, Tasks
<1>2. ASSUME NEW k \in {1, 2}, at' = [at EXCEPT ![c].handler = @ + k], UNCHANGED others
      PROVE  GuardsInv'
  <2> DEFINE n == at[c].handler + k
             a == [at[c] EXCEPT !["handler"] = n]
  <2>1. /\ WellFormed(Kind(c), GuardAt(Kind(c))) /\ FitsAt(c, at[c], held[c], authed[c], lost[c])
        /\ at[c] \in [Tasks -> Nat] /\ c \in Conns /\ "handler" \in Tasks
    BY LiveShaped, Zenon DEF Tasks
  <2>2. at[c].handler = Kind(c).own + 1
    BY Serving, Zenon DEF StopServing
  <2>3. Fits(Kind(c), GuardAt(Kind(c)), n, at[c].stream, held[c], authed[c], lost[c])
    BY <1>2, <2>1, <2>2, FitsServe, ZenonT(30) DEF FitsAt
  <2>4. n \in Nat
    BY <1>2, <2>1 DEF Tasks
  <2>5. at' = [at EXCEPT ![c] = a] /\ setting' = setting /\ UNCHANGED <<held, authed, lost>>
    BY <1>2, <2>1, Zenon DEF others, known, GuardsInv
  <2> HIDE DEF n
  <2>6. a \in [Tasks -> Nat]
    BY <2>1, <2>4, Zenon
  <2>7. a.handler = n /\ a.stream = at[c].stream
    BY <2>1, <2>4, Places, Zenon
  <2> HIDE DEF a
  <2>8. FitsAt(c, a, held[c], authed[c], lost[c])
    BY <2>3, <2>7, Zenon DEF FitsAt
  <2> QED
    BY <2>5, <2>6, <2>8, MoveFits, Zenon
<1>3. PICK result \in {"ok", "error"} :
        \/ /\ at' = [at EXCEPT ![c].handler = @ + IF result = "ok" THEN 1 ELSE 2]
           /\ UNCHANGED others
        \/ Over(c, "handler", result)
  BY Zenon DEF StopServing
<1>4. CASE UNCHANGED others /\ at' = [at EXCEPT ![c].handler = @ + IF result = "ok" THEN 1 ELSE 2]
  <2>1. CASE result = "ok"
    BY <1>2, <1>4, <2>1, Zenon
  <2>2. CASE result # "ok"
    BY <1>2, <1>4, <2>2, Zenon
  <2> QED
    BY <2>1, <2>2, Zenon
<1> QED
  BY <1>1, <1>3, <1>4, Zenon

LEMMA AcceptStep ==
  ASSUME GuardsInv, NEW c \in Live, Accept(c) PROVE GuardsInv'
<1> DEFINE a == [at[c] EXCEPT !["handler"] = 1]
           hd == held[c]
<1>1. /\ WellFormed(Kind(c), GuardAt(Kind(c))) /\ FitsAt(c, at[c], held[c], authed[c], lost[c])
      /\ at[c] \in [Tasks -> Nat] /\ c \in Conns /\ "handler" \in Tasks /\ hd \in SUBSET Tasks
  BY LiveShaped, Zenon DEF Tasks
<1>2. at[c].handler = 0 /\ at[c].stream = 0
  BY DEF Accept, Idle
<1>3. Fits(Kind(c), GuardAt(Kind(c)), 1, 0, hd, FALSE, FALSE)
  BY <1>1, <1>2, FitsServe, Zenon DEF FitsAt
<1>4. a.handler = 1 /\ a.stream = 0 /\ a \in [Tasks -> Nat]
  BY <1>1, <1>2, Places, Zenon
<1>5. /\ setting' = setting /\ at' = [at EXCEPT ![c] = a] /\ held' = [held EXCEPT ![c] = hd]
      /\ authed' = [authed EXCEPT ![c] = FALSE] /\ lost' = [lost EXCEPT ![c] = FALSE]
  BY <1>1, Zenon DEF Accept, GuardsInv
<1> HIDE DEF a
<1>6. FitsAt(c, a, hd, FALSE, FALSE)
  BY <1>3, <1>4, Zenon DEF FitsAt
<1>7. FALSE \in BOOLEAN
  BY Zenon
<1> HIDE DEF hd
<1> QED
  BY <1>1, <1>4, <1>5, <1>6, <1>7, PutFits, ZenonT(30)

LEMMA TaskStep ==
  ASSUME GuardsInv, NEW c \in Live, NEW t \in Tasks, Step(c, t) \/ RelayEnds(c, t)
  PROVE  GuardsInv'
<1>1. ASSUME NEW result, NEW said, OverSaying(c, t, result, said) PROVE GuardsInv'
  BY <1>1, OverFits, ZenonT(30)
<1>2. ASSUME NEW result, Over(c, t, result) PROVE GuardsInv'
  BY <1>1, <1>2, Zenon DEF Over
<1>3. ASSUME StepOf(c, t) \in Before, Advance(c, t), UNCHANGED others PROVE GuardsInv'
  BY <1>3, AdvanceStep, Zenon DEF others, known
<1>4. CASE t = "handler" /\ TakeSlot(c)
  BY <1>2, <1>3, <1>4, Zenon DEF TakeSlot, Before
<1>5. ASSUME NEW role \in {"auth", "tls"}, CheckBackoff(c, t, role) PROVE GuardsInv'
  <2>1. StepOf(c, t) \in Before
    BY <1>5, Zenon DEF CheckBackoff, Before
  <2>2. CASE Advance(c, t) /\ UNCHANGED <<known, held, authed, lost, blame, recent>>
    BY <2>1, <2>2, AdvanceStep, Zenon DEF known
  <2> QED
    BY <1>2, <1>5, <2>2, Zenon DEF CheckBackoff
<1>6. CASE CheckSource(c, t)
  BY <1>2, <1>3, <1>6, Zenon DEF CheckSource, Before
<1>7. CASE ReadSucceeds(c, t)
  BY <1>7, ReadSucceedsStep, Zenon
<1>8. CASE CredentialsRefused(c, t) \/ ReadFails(c, t) \/ ReadEnds(c, t) \/ ReadTimesOut(c, t)
  BY <1>1, <1>8, Zenon DEF CredentialsRefused, ReadFails, ReadEnds, ReadTimesOut
<1>9. CASE LookUpUser(c, t)
  BY <1>9, LookUpUserStep, Zenon
<1>10. CASE AcquireGuard(c, t)
  BY <1>10, AcquireGuardStep, Zenon
<1>11. CASE LookForClose(c, t)
  BY <1>2, <1>3, <1>11, ZenonT(30) DEF LookForClose, Before
<1>12. CASE Connect(c, t)
  BY <1>2, <1>3, <1>12, Zenon DEF Connect, Before
<1>13. CASE Associate(c, t)
  BY <1>13, AssociateStep, Zenon
<1>14. CASE Answer(c, t)
  <2>1. CASE t = "handler" /\ Detach(c)
    BY <1>14, <2>1, DetachStep, Zenon DEF Answer
  <2> QED
    BY <1>2, <1>3, <1>14, <2>1, ZenonT(30) DEF Answer, Before
<1>15. CASE RelayEnds(c, t)
  BY <1>2, <1>15, Zenon DEF RelayEnds
<1> QED
  BY <1>4, <1>5, <1>6, <1>7, <1>8, <1>9, <1>10, <1>11, <1>12, <1>13, <1>14, <1>15, ZenonT(30)
     DEF Step

LEMMA GuardsStep == GuardsInv /\ [HandlersNext]_handlers_vars => GuardsInv'
<1> SUFFICES ASSUME GuardsInv, [HandlersNext]_handlers_vars PROVE GuardsInv'
  BY Zenon
<1>1. CASE setting' = setting /\ UNCHANGED <<at, held, authed, lost>>
  BY <1>1, SameFits, ZenonT(30)
<1>2. CASE Tick \/ UpdateUsers \/ UNCHANGED handlers_vars
  BY <1>1, <1>2, Zenon DEF Tick, UpdateUsers, handlers_vars, known
<1>3. ASSUME NEW c \in Live, FallSilent(c) \/ Leave(c) PROVE GuardsInv'
  BY <1>1, <1>3, Zenon DEF FallSilent, Leave
<1> QED
  BY <1>2, <1>3, AcceptStep, FallBackStep, OpenStreamStep, StopServingStep, TaskStep, ZenonT(30)
     DEF HandlersNext

LEMMA InitGuards == HandlersInit => GuardsInv
<1> SUFFICES ASSUME HandlersInit PROVE GuardsInv
  BY Zenon
<1>1. /\ setting \in Settings /\ at = [c \in Conns |-> Idle] /\ held = [c \in Conns |-> {}]
      /\ authed = [c \in Conns |-> FALSE] /\ lost = [c \in Conns |-> FALSE]
  BY Zenon DEF HandlersInit
<1>2. Idle \in [Tasks -> Nat] /\ Idle.handler = 0 /\ Idle.stream = 0
  BY DEF Idle, Tasks
<1>3. /\ at \in [Conns -> [Tasks -> Nat]] /\ held \in [Conns -> SUBSET Tasks]
      /\ authed \in [Conns -> BOOLEAN] /\ lost \in [Conns -> BOOLEAN]
  BY <1>1, <1>2, Zenon
<1>4. ASSUME NEW c \in Live PROVE FitsAt(c, at[c], held[c], authed[c], lost[c])
  <2>1. c \in Conns /\ setting.kind[c] \in DOMAIN Handlers
    BY <1>1, SettingsAssumption, Zenon DEF Live
  <2>2. at[c] = Idle /\ held[c] = {} /\ authed[c] = FALSE /\ lost[c] = FALSE
    BY <1>1, <2>1, Zenon
  <2>3. WellFormed(Kind(c), GuardAt(Kind(c)))
    BY <2>1, HandlersShaped, ZenonT(30) DEF Kind
  <2>4. Fits(Kind(c), GuardAt(Kind(c)), 0, 0, {}, FALSE, FALSE)
    BY <2>3 DEF WellFormed, Shaped, Fits
  <2> QED
    BY <1>2, <2>2, <2>4, Zenon DEF FitsAt
<1> QED
  BY <1>1, <1>3, <1>4, Zenon DEF GuardsInv

\* For any connections of any handlers and any settings: a relay of an accepted user
\* runs under a device guard of it, whoever runs it and whatever has returned before,
\* except that of a user removed between its authentication and the second look.
THEOREM GuardsHeld == HandlersSpec => []DeviceIsHeld
<1>1. ASSUME GuardsInv PROVE DeviceIsHeld
  <2> SUFFICES ASSUME NEW c \in Live, NEW t \in Tasks,
                      StepOf(c, t) = "relay", authed[c], ~lost[c],
                      t = "stream" /\ Kind(c).steps[Kind(c).own] = "guard" => at[c].handler # 0
               PROVE  held[c] # {}
    BY Zenon DEF DeviceIsHeld
  <2>1. /\ WellFormed(Kind(c), GuardAt(Kind(c)))
        /\ Fits(Kind(c), GuardAt(Kind(c)), at[c].handler, at[c].stream, held[c], TRUE, FALSE)
    <3>1. /\ WellFormed(Kind(c), GuardAt(Kind(c)))
          /\ FitsAt(c, at[c], held[c], authed[c], lost[c])
          /\ authed[c] = TRUE /\ lost[c] = FALSE
      BY <1>1, LiveShaped, Zenon
    <3> QED
      BY <3>1, Zenon DEF FitsAt
  <2>2. /\ at[c][t] \in 1 .. IF t = "handler" THEN Kind(c).own ELSE Len(Kind(c).steps)
        /\ Kind(c).steps[at[c][t]] = "relay"
    BY <1>1, At, Zenon
  <2>3. CASE t = "handler"
    <3>1. at[c].handler \in 1 .. Kind(c).own /\ Kind(c).steps[at[c].handler] = "relay"
      BY <2>2, <2>3, ZenonT(30)
    <3> QED
      BY <2>1, <3>1, FitsRelay, ZenonT(30)
  <2>4. CASE t = "stream"
    <3>1. /\ at[c].stream \in 1 .. Len(Kind(c).steps) /\ Kind(c).steps[at[c].stream] = "relay"
          /\ Kind(c).steps[Kind(c).own] = "guard" => at[c].handler # 0
      BY <2>2, <2>4, Zenon
    <3> QED
      BY <2>1, <3>1, FitsRelay, ZenonT(30)
  <2> QED
    BY <2>3, <2>4, Zenon DEF Tasks
<1> QED
  BY <1>1, InitGuards, GuardsStep, PTL DEF HandlersSpec

-----------------------------------------------------------------------------
(* When an address is blocked: the tables, row by row.                     *)

Ages == [1 .. Threshold -> 0 .. Window + 1]

\* What is known of an address: the failures its entry counts are among its last ones,
\* and none is older than the window of the entry.
Row(entry, ages) ==
  /\ entry \in ClientFailureEntry \cup {Absent}
  /\ ages \in Ages
  /\ entry # Absent => \A k \in 1 .. entry.failures : ages[k] <= entry.age

Blocks(entry) == entry # Absent /\ entry.left # Absent /\ entry.left > 0

\* What a step may do to a row.
RowStep(entry, entry2, ages2) ==
  /\ Row(entry2, ages2)
  /\ ~Blocks(entry) /\ Blocks(entry2) => ages2[Threshold] <= Window

LEMMA AgesTyped ==
  /\ NoFailures \in Ages
  /\ \A ages \in Ages : FailedNow(ages) \in Ages /\ Older(ages) \in Ages
BY BackoffAssumption, SMTT(30) DEF Ages, NoFailures, FailedNow, Older, Least

LEMMA RowSame ==
  ASSUME NEW entry, NEW ages, Row(entry, ages)
  PROVE  RowStep(entry, entry, ages)
BY Zenon DEF RowStep

LEMMA RowGone ==
  ASSUME NEW entry, NEW ages \in Ages
  PROVE  RowStep(entry, Absent, ages)
BY Zenon DEF RowStep, Row, Blocks

LEMMA FreshEntry ==
  /\ Fresh \in ClientFailureEntry
  /\ Fresh.failures = 0 /\ Fresh.age = 0 /\ Fresh.left = Absent
BY BackoffAssumption DEF Fresh, ClientFailureEntry

LEMMA RowFresh ==
  ASSUME NEW entry, NEW ages \in Ages
  PROVE  RowStep(entry, Fresh, ages)
BY FreshEntry DEF RowStep, Row, Blocks

\* The fields of an entry that counts one more failure.
LEMMA CountedFields ==
  ASSUME NEW entry \in ClientFailureEntry
  PROVE  LET f == IF entry.failures < Threshold THEN entry.failures + 1 ELSE Threshold IN
         /\ Counted(entry) \in ClientFailureEntry
         /\ Counted(entry).failures = f /\ Counted(entry).age = entry.age
         /\ Counted(entry).left = IF f = Threshold THEN BlockDuration ELSE entry.left
<1> DEFINE f == IF entry.failures < Threshold THEN entry.failures + 1 ELSE Threshold
           l == IF f = Threshold THEN BlockDuration ELSE entry.left
<1>1. /\ f \in 0 .. Threshold /\ entry.age \in 0 .. 2 * Window + 1
      /\ l \in (-(Window + 1) .. BlockDuration) \cup {Absent}
  BY BackoffAssumption DEF ClientFailureEntry
<1>2. Counted(entry) = [entry EXCEPT !.failures = f, !.left = l]
  BY Zenon DEF Counted
<1> HIDE DEF f, l
<1>3. /\ Counted(entry) \in ClientFailureEntry
      /\ Counted(entry).failures = f /\ Counted(entry).age = entry.age /\ Counted(entry).left = l
  BY <1>1, <1>2, ZenonT(30) DEF ClientFailureEntry
<1> QED
  BY <1>3, Zenon DEF f, l

LEMMA RowCounted ==
  ASSUME NEW entry, NEW base \in ClientFailureEntry, NEW ages \in Ages,
         \A k \in 1 .. base.failures : ages[k] <= base.age,
         base.age <= Window, (entry # Absent /\ base = entry) \/ base = Fresh
  PROVE  RowStep(entry, Counted(base), FailedNow(ages))
<1> DEFINE f == IF base.failures < Threshold THEN base.failures + 1 ELSE Threshold
           later == FailedNow(ages)
<1>1. /\ Counted(base) \in ClientFailureEntry
      /\ Counted(base).failures = f /\ Counted(base).age = base.age
      /\ Counted(base).left = IF f = Threshold THEN BlockDuration ELSE base.left
  BY CountedFields, Zenon
<1>2. /\ base.failures \in 0 .. Threshold /\ base.age \in 0 .. Window
      /\ Threshold \in Nat \ {0} /\ Window \in Nat
  BY BackoffAssumption DEF ClientFailureEntry
<1>3. later \in Ages /\ later[1] = 0 /\ \A k \in 2 .. Threshold : later[k] = ages[k - 1]
  <2>1. later \in Ages
    BY AgesTyped, Zenon
  <2>2. later[1] = 0 /\ \A k \in 2 .. Threshold : later[k] = ages[k - 1]
    BY <1>2 DEF FailedNow
  <2> QED
    BY <2>1, <2>2, Zenon
<1> HIDE DEF later
<1>4. f \in 0 .. Threshold /\ \A k \in 1 .. f : later[k] <= base.age
  <2>1. f \in 0 .. Threshold
    BY <1>2
  <2>2. ASSUME NEW k \in 1 .. f PROVE later[k] <= base.age
    <3>1. CASE k = 1
      BY <1>2, <1>3, <3>1
    <3>2. CASE k # 1
      <4>1. k \in 2 .. Threshold /\ k - 1 \in 1 .. base.failures
        BY <1>2, <3>2
      <4> QED
        BY <1>3, <4>1, Zenon
    <3> QED
      BY <3>1, <3>2, Zenon
  <2> QED
    BY <2>1, <2>2, Zenon
<1>5. f = Threshold => later[Threshold] <= Window
  <2>1. later[Threshold] \in Nat
    BY <1>2, <1>3 DEF Ages
  <2>2. ASSUME f = Threshold PROVE later[Threshold] <= base.age
    BY <1>2, <1>4, <2>2
  <2> HIDE DEF f
  <2> QED
    BY <1>2, <2>1, <2>2
<1> HIDE DEF f
<1>6. Row(Counted(base), later)
  BY <1>1, <1>3, <1>4, Zenon DEF Row
<1>7. ASSUME f # Threshold, Blocks(Counted(base)) PROVE Blocks(entry)
  <2>1. Counted(base).left = base.left
    BY <1>1, <1>7, Zenon
  <2>2. base.left # Absent /\ base.left > 0
    BY <1>7, <2>1, Zenon DEF Blocks
  <2> QED
    BY <2>2, FreshEntry, Zenon DEF Blocks
<1> QED
  BY <1>5, <1>6, <1>7, Zenon DEF RowStep, later

LEMMA RowAged ==
  ASSUME NEW entry, NEW entry2, NEW ages, Row(entry, ages), entry # Absent,
         entry2 = [entry EXCEPT !.age = Least(entry.age + 1, 2 * Window + 1),
                                !.left = IF entry.left = Absent THEN Absent
                                         ELSE -Least(1 - entry.left, Window + 1)]
  PROVE  RowStep(entry, entry2, Older(ages))
<1> DEFINE a == Least(entry.age + 1, 2 * Window + 1)
           l == IF entry.left = Absent THEN Absent ELSE -Least(1 - entry.left, Window + 1)
           later == Older(ages)
<1>1. /\ entry \in ClientFailureEntry /\ ages \in Ages
      /\ \A k \in 1 .. entry.failures : ages[k] <= entry.age
  BY Zenon DEF Row
<1>2. /\ entry.failures \in 0 .. Threshold /\ entry.age \in 0 .. 2 * Window + 1
      /\ entry.left \in (-(Window + 1) .. BlockDuration) \cup {Absent}
      /\ Threshold \in Nat \ {0} /\ Window \in Nat /\ BlockDuration \in Nat /\ Absent \notin Int
  BY <1>1, BackoffAssumption DEF ClientFailureEntry
<1>3. /\ a \in 0 .. 2 * Window + 1 /\ l \in (-(Window + 1) .. BlockDuration) \cup {Absent}
      /\ l # Absent /\ l > 0 => entry.left # Absent /\ entry.left > 0
  BY <1>2 DEF Least
<1>4. later \in Ages
  BY <1>1, AgesTyped, Zenon
<1>5. \A k \in 1 .. entry.failures : later[k] <= a
  <2> SUFFICES ASSUME NEW k \in 1 .. entry.failures PROVE later[k] <= a
    BY Zenon
  <2>1. k \in 1 .. Threshold /\ ages[k] \in 0 .. Window + 1 /\ ages[k] <= entry.age
    BY <1>1, <1>2 DEF Ages
  <2>2. later[k] = Least(ages[k] + 1, Window + 1)
    BY <2>1, Zenon DEF Older
  <2> QED
    BY <1>2, <2>1, <2>2 DEF Least
<1>6. entry2 = [entry EXCEPT !.age = a, !.left = l]
  BY Zenon
<1> HIDE DEF a, l, later
<1>7. /\ entry2 \in ClientFailureEntry
      /\ entry2.failures = entry.failures /\ entry2.age = a /\ entry2.left = l
  BY <1>1, <1>2, <1>3, <1>6, ZenonT(30) DEF ClientFailureEntry
<1>8. RowStep(entry, entry2, later)
  BY <1>3, <1>4, <1>5, <1>7, Zenon DEF RowStep, Row, Blocks
<1> QED
  BY <1>8, Zenon DEF later

-----------------------------------------------------------------------------
\* The tables: all rows, and what a step does to them.
Grid(table, ages) ==
  /\ table \in Tables /\ ages \in [IpAddrs -> Ages]
  /\ \A ip \in IpAddrs : Row(table[ip], ages[ip])

TablesStep ==
  /\ Grid(entries', recent')
  /\ \A ip \in IpAddrs :
       ~is_blocked(entries, ip) /\ is_blocked(entries', ip) => recent'[ip][Threshold] <= Window

LEMMA FromRows ==
  ASSUME NEW table, NEW ages, entries' = [ip \in IpAddrs |-> table[ip]],
         recent' = [ip \in IpAddrs |-> ages[ip]],
         \A ip \in IpAddrs : RowStep(entries[ip], table[ip], ages[ip])
  PROVE  TablesStep
<1>1. \A ip \in IpAddrs : entries'[ip] = table[ip] /\ recent'[ip] = ages[ip]
  BY Zenon
<1>2. \A ip \in IpAddrs : Row(table[ip], ages[ip])
  BY Zenon DEF RowStep
<1>3. entries' \in Tables /\ recent' \in [IpAddrs -> Ages]
  BY <1>2, Zenon DEF Tables, Row
<1>4. ASSUME NEW ip \in IpAddrs, ~is_blocked(entries, ip), is_blocked(entries', ip)
      PROVE  recent'[ip][Threshold] <= Window
  <2>1. ~Blocks(entries[ip]) /\ Blocks(table[ip])
    BY <1>1, <1>4, Zenon DEF is_blocked, Blocks
  <2> QED
    BY <1>1, <2>1, Zenon DEF RowStep
<1> QED
  BY <1>1, <1>2, <1>3, <1>4, Zenon DEF TablesStep, Grid

LEMMA SameTables ==
  ASSUME Grid(entries, recent), UNCHANGED tables PROVE TablesStep
<1>1. entries' = [ip \in IpAddrs |-> entries[ip]] /\ recent' = [ip \in IpAddrs |-> recent[ip]]
  BY Zenon DEF Grid, Tables, tables
<1>2. \A ip \in IpAddrs : RowStep(entries[ip], entries[ip], recent[ip])
  BY RowSame, Zenon DEF Grid
<1> QED
  BY <1>1, <1>2, FromRows, Zenon

\* One row changes.
LEMMA PutRow ==
  ASSUME NEW e, NEW a, NEW ip \in IpAddrs, Grid(entries, recent),
         entries' = [entries EXCEPT ![ip] = e], recent' = [recent EXCEPT ![ip] = a],
         RowStep(entries[ip], e, a)
  PROVE  TablesStep
<1> DEFINE table == [entries EXCEPT ![ip] = e]
           ages == [recent EXCEPT ![ip] = a]
<1>1. entries' = [i \in IpAddrs |-> table[i]] /\ recent' = [i \in IpAddrs |-> ages[i]]
  BY Zenon DEF Grid, Tables
<1>2. ASSUME NEW i \in IpAddrs PROVE RowStep(entries[i], table[i], ages[i])
  <2>1. CASE i = ip
    BY <2>1, Zenon DEF Grid, Tables
  <2>2. CASE i # ip
    BY <2>2, RowSame, Zenon DEF Grid, Tables
  <2> QED
    BY <2>1, <2>2, Zenon
<1> HIDE DEF table, ages
<1> QED
  BY <1>1, <1>2, FromRows, Zenon

LEMMA SuccessStep ==
  ASSUME NEW ip \in IpAddrs, Grid(entries, recent), entries' = record_success(entries, ip),
         recent' = [recent EXCEPT ![ip] = NoFailures]
  PROVE  TablesStep
<1>1. RowStep(entries[ip], Absent, NoFailures)
  BY AgesTyped, RowGone, Zenon
<1> QED
  BY <1>1, PutRow, Zenon DEF record_success

LEMMA CheckedStep ==
  ASSUME NEW ip \in IpAddrs, Grid(entries, recent), entries' = Checked(entries, ip),
         recent' = recent
  PROVE  TablesStep
<1>1. CASE entries' = entries
  BY <1>1, SameTables, Zenon DEF tables
<1>2. CASE entries' = [entries EXCEPT ![ip] = Fresh]
  <2>1. recent' = [recent EXCEPT ![ip] = recent[ip]] /\ recent[ip] \in Ages
    BY Zenon DEF Grid
  <2>2. RowStep(entries[ip], Fresh, recent[ip])
    BY <2>1, RowFresh, Zenon
  <2> QED
    BY <1>2, <2>1, <2>2, PutRow, Zenon
<1> QED
  BY <1>1, <1>2, Zenon DEF Checked

LEMMA AgedStep ==
  ASSUME Grid(entries, recent), entries' = Aged(entries),
         recent' = [ip \in IpAddrs |-> Older(recent[ip])]
  PROVE  TablesStep
<1> DEFINE ages == [ip \in IpAddrs |-> Older(recent[ip])]
           table == Aged(entries)
<1>1. entries' = [ip \in IpAddrs |-> table[ip]] /\ recent' = [ip \in IpAddrs |-> ages[ip]]
  BY Zenon DEF Aged
<1>2. ASSUME NEW ip \in IpAddrs PROVE RowStep(entries[ip], table[ip], ages[ip])
  <2>1. Row(entries[ip], recent[ip]) /\ recent[ip] \in Ages /\ ages[ip] = Older(recent[ip])
    BY Zenon DEF Grid
  <2>2. CASE entries[ip] = Absent
    <3>1. table[ip] = Absent
      BY <2>2, Zenon DEF Aged
    <3>2. ages[ip] \in Ages
      BY <2>1, AgesTyped, Zenon
    <3> QED
      BY <3>1, <3>2, RowGone, Zenon
  <2>3. CASE entries[ip] # Absent
    <3>1. table[ip] = [entries[ip] EXCEPT
                         !.age = Least(entries[ip].age + 1, 2 * Window + 1),
                         !.left = IF entries[ip].left = Absent THEN Absent
                                  ELSE -Least(1 - entries[ip].left, Window + 1)]
      BY <2>3, Zenon DEF Aged
    <3> QED
      BY <2>1, <2>3, <3>1, RowAged, Zenon
  <2> QED
    BY <2>2, <2>3, Zenon
<1> HIDE DEF table, ages
<1> QED
  BY <1>1, <1>2, FromRows, Zenon

LEMMA RoomyRows ==
  ASSUME NEW table \in Tables, NEW room \in Roomy(table)
  PROVE  /\ room = [ip \in IpAddrs |-> room[ip]]
         /\ \A ip \in IpAddrs : room[ip] = table[ip] \/ room[ip] = Absent
<1> DEFINE kept == [ip \in IpAddrs |->
                      IF table[ip] # Absent /\ is_expired(table[ip]) THEN Absent ELSE table[ip]]
<1>1. room = table \/ room = kept \/ \E i \in Listed(kept) : room = [kept EXCEPT ![i] = Absent]
  BY Zenon DEF Roomy
<1>2. \A ip \in IpAddrs : kept[ip] = table[ip] \/ kept[ip] = Absent
  BY Zenon
<1>3. kept = [ip \in IpAddrs |-> kept[ip]]
  BY Zenon
<1> HIDE DEF kept
<1>4. CASE room = table
  BY <1>4, Zenon DEF Tables
<1>5. CASE room = kept
  BY <1>2, <1>3, <1>5, Zenon
<1>6. ASSUME NEW i \in Listed(kept), room = [kept EXCEPT ![i] = Absent]
      PROVE  /\ room = [ip \in IpAddrs |-> room[ip]]
             /\ \A ip \in IpAddrs : room[ip] = table[ip] \/ room[ip] = Absent
  BY <1>2, <1>3, <1>6
<1> QED
  BY <1>1, <1>4, <1>5, <1>6, Zenon

LEMMA FailureStep ==
  ASSUME NEW ip \in IpAddrs, Grid(entries, recent), entries' \in record_failure(entries, ip),
         recent' = [recent EXCEPT ![ip] = FailedNow(recent[ip])]
  PROVE  TablesStep
<1>1. PICK room \in Roomy(entries) :
        entries' = [room EXCEPT ![ip] = Counted(IF room[ip] = Absent \/ room[ip].age > Window
                                                THEN Fresh ELSE room[ip])]
  BY Zenon DEF record_failure
<1>2. /\ room = [i \in IpAddrs |-> room[i]]
      /\ \A i \in IpAddrs : room[i] = entries[i] \/ room[i] = Absent
  BY RoomyRows, Zenon DEF Grid
<1> DEFINE base == IF room[ip] = Absent \/ room[ip].age > Window THEN Fresh ELSE room[ip]
           table == [room EXCEPT ![ip] = Counted(base)]
           ages == [recent EXCEPT ![ip] = FailedNow(recent[ip])]
<1>3. entries' = [i \in IpAddrs |-> table[i]] /\ recent' = [i \in IpAddrs |-> ages[i]]
  BY <1>1, <1>2, Zenon DEF Grid
<1>4. \A i \in IpAddrs : Row(entries[i], recent[i]) /\ recent[i] \in Ages
  BY Zenon DEF Grid
<1>5. RowStep(entries[ip], Counted(base), FailedNow(recent[ip]))
  <2>1. CASE base = Fresh
    <3>1. /\ Fresh.age <= Window
          /\ \A k \in 1 .. Fresh.failures : recent[ip][k] <= Fresh.age
      BY FreshEntry, BackoffAssumption
    <3> QED
      BY <1>4, <2>1, <3>1, FreshEntry, RowCounted, Zenon
  <2>2. CASE base # Fresh
    <3>1. base = room[ip] /\ room[ip] # Absent /\ ~(room[ip].age > Window)
      BY <2>2, Zenon
    <3>2. base = entries[ip] /\ entries[ip] # Absent /\ ~(entries[ip].age > Window)
      BY <1>2, <3>1, Zenon
    <3>3. /\ entries[ip] \in ClientFailureEntry
          /\ \A k \in 1 .. entries[ip].failures : recent[ip][k] <= entries[ip].age
      BY <1>4, <3>2, Zenon DEF Row
    <3>4. entries[ip].age <= Window
      BY <3>2, <3>3, BackoffAssumption DEF ClientFailureEntry
    <3> QED
      BY <1>4, <3>2, <3>3, <3>4, RowCounted, Zenon
  <2> QED
    BY <2>1, <2>2, Zenon
<1>6. ASSUME NEW i \in IpAddrs PROVE RowStep(entries[i], table[i], ages[i])
  <2>1. CASE i = ip
    <3>1. table[i] = Counted(base) /\ ages[i] = FailedNow(recent[ip])
      BY <1>2, <2>1, Zenon DEF Grid
    <3> QED
      BY <1>5, <2>1, <3>1, Zenon
  <2>2. CASE i # ip
    <3>1. table[i] = room[i] /\ ages[i] = recent[i]
      BY <1>2, <2>2, Zenon DEF Grid
    <3> QED
      BY <1>2, <1>4, <3>1, RowSame, RowGone, ZenonT(30)
  <2> QED
    BY <2>1, <2>2, Zenon
<1> HIDE DEF base, table, ages
<1> QED
  BY <1>3, <1>6, FromRows, Zenon

-----------------------------------------------------------------------------
\* What is told to a table, and by which steps.
Outcomes == {"nothing", "success", "failure"}
IsNote(note) == \E table \in {"auth", "tls"}, outcome \in Outcomes : note = <<table, outcome>>

LEMMA NothingIsNote == IsNote(Nothing)
BY Zenon DEF IsNote, Nothing, Outcomes

LEMMA SaidIsNote ==
  ASSUME NEW c, NEW step, NEW outcome \in {"success", "failure"}
  PROVE  IsNote(Said(c, step, outcome))
<1>1. \/ Said(c, step, outcome) = <<"tls", outcome>>
      \/ Said(c, step, outcome) = <<"auth", outcome>>
      \/ Said(c, step, outcome) = Nothing
  BY Zenon DEF Said
<1> QED
  BY <1>1, NothingIsNote, Zenon DEF IsNote, Outcomes

LEMMA ReturnIsNote ==
  ASSUME NEW c, NEW result PROVE IsNote(ReturnNote(c, result))
<1>1. \/ ReturnNote(c, result) = Nothing
      \/ ReturnNote(c, result) = <<"auth", "success">>
      \/ ReturnNote(c, result) = <<"auth", "failure">>
  BY Zenon DEF ReturnNote
<1> QED
  BY <1>1, NothingIsNote, Zenon DEF IsNote, Outcomes

BlocksInv == setting \in Settings /\ Grid(entries, recent)

LEMMA TellStep ==
  ASSUME BlocksInv, NEW c \in Live, NEW note, IsNote(note), Tell(c, note)
  PROVE  TablesStep
<1>1. Ip(c) \in IpAddrs /\ Grid(entries, recent)
  BY SettingsAssumption, Zenon DEF BlocksInv, Live, Ip
<1>2. PICK table \in {"auth", "tls"}, outcome \in Outcomes : note = <<table, outcome>>
  BY Zenon DEF IsNote
<1>3. CASE table # setting.table \/ outcome = "nothing"
  <2>1. UNCHANGED tables
    BY <1>2, <1>3, ZenonT(30) DEF Tell
  <2> QED
    BY <1>1, <2>1, SameTables, Zenon
<1>4. CASE table = setting.table /\ outcome = "success"
  <2>1. /\ entries' = record_success(entries, Ip(c))
        /\ recent' = [recent EXCEPT ![Ip(c)] = NoFailures]
    BY <1>2, <1>4 DEF Tell
  <2> QED
    BY <1>1, <2>1, SuccessStep, Zenon
<1>5. CASE table = setting.table /\ outcome = "failure"
  <2>1. /\ entries' \in record_failure(entries, Ip(c))
        /\ recent' = [recent EXCEPT ![Ip(c)] = FailedNow(recent[Ip(c)])]
    BY <1>2, <1>5 DEF Tell
  <2> QED
    BY <1>1, <2>1, FailureStep, Zenon
<1> QED
  BY <1>3, <1>4, <1>5, Zenon DEF Outcomes

LEMMA EndTells ==
  ASSUME BlocksInv, NEW c \in Live, NEW tasks, NEW result, NEW said, IsNote(said),
         End(c, tasks, result, said)
  PROVE  TablesStep /\ setting' = setting
<1> DEFINE note == IF said # Nothing \/ "handler" \notin tasks THEN said ELSE ReturnNote(c, result)
<1>1. Tell(c, note) /\ setting' = setting
  BY Zenon DEF End, known
<1>2. IsNote(note)
  BY ReturnIsNote, Zenon
<1> HIDE DEF note
<1> QED
  BY <1>1, <1>2, TellStep, Zenon

LEMMA OverTells ==
  ASSUME BlocksInv, NEW c \in Live, NEW t, NEW result, NEW said, IsNote(said),
         OverSaying(c, t, result, said)
  PROVE  TablesStep /\ setting' = setting
BY EndTells, Zenon DEF OverSaying

LEMMA OverStays ==
  ASSUME BlocksInv, NEW c \in Live, NEW t, NEW result, Over(c, t, result)
  PROVE  TablesStep /\ setting' = setting
BY OverTells, NothingIsNote, Zenon DEF Over

LEMMA OthersStay ==
  ASSUME BlocksInv, UNCHANGED <<setting, tables>> PROVE TablesStep /\ setting' = setting
BY SameTables, Zenon DEF BlocksInv

LEMMA TellingSteps ==
  ASSUME BlocksInv, NEW c \in Live, NEW t \in Tasks, Step(c, t)
  PROVE  TablesStep /\ setting' = setting
<1> DEFINE goal == TablesStep /\ setting' = setting
<1>1. CASE TakeSlot(c)
  BY <1>1, OverStays, OthersStay, Zenon DEF TakeSlot, others, known
<1>2. ASSUME NEW role \in {"auth", "tls"}, CheckBackoff(c, t, role) PROVE goal
  <2>1. CASE Over(c, t, "error")
    BY <2>1, OverStays, Zenon
  <2>2. CASE /\ entries' = IF role = setting.table THEN Checked(entries, Ip(c)) ELSE entries
             /\ UNCHANGED <<known, recent>>
    <3>1. Ip(c) \in IpAddrs /\ Grid(entries, recent) /\ setting' = setting /\ recent' = recent
      BY <2>2, SettingsAssumption, Zenon DEF BlocksInv, Live, Ip, known
    <3> QED
      BY <2>2, <3>1, CheckedStep, SameTables, Zenon DEF tables
  <2> QED
    BY <1>2, <2>1, <2>2, Zenon DEF CheckBackoff
<1>3. CASE CheckSource(c, t)
  BY <1>3, OverStays, OthersStay, Zenon DEF CheckSource, others, known
<1>4. CASE ReadSucceeds(c, t)
  BY <1>4, SaidIsNote, TellStep, Zenon DEF ReadSucceeds, known
<1>5. CASE CredentialsRefused(c, t)
  BY <1>5, SaidIsNote, OverTells, Zenon DEF CredentialsRefused
<1>6. CASE ReadFails(c, t)
  BY <1>6, SaidIsNote, NothingIsNote, OverTells, Zenon DEF ReadFails
<1>7. CASE ReadEnds(c, t)
  BY <1>7, SaidIsNote, NothingIsNote, OverTells, Zenon DEF ReadEnds
<1>8. CASE ReadTimesOut(c, t)
  <2>1. IsNote(<<"auth", "failure">>)
    BY Zenon DEF IsNote, Outcomes
  <2> QED
    BY <1>8, <2>1, SaidIsNote, NothingIsNote, OverTells, Zenon DEF ReadTimesOut
<1>9. CASE LookUpUser(c, t)
  BY <1>9, OverStays, OthersStay, Zenon DEF LookUpUser, known
<1>10. CASE AcquireGuard(c, t)
  BY <1>10, OverStays, OthersStay, Zenon DEF AcquireGuard, known
<1>11. CASE LookForClose(c, t)
  BY <1>11, OverStays, OthersStay, Zenon DEF LookForClose, others, known
<1>12. CASE Connect(c, t)
  BY <1>12, OverStays, OthersStay, Zenon DEF Connect, others, known
<1>13. ASSUME Detach(c) PROVE goal
  BY <1>13, ReturnIsNote, TellStep, Zenon DEF Detach, known
<1>14. CASE Associate(c, t)
  BY <1>13, <1>14, OthersStay, Zenon DEF Associate, others, known
<1>15. CASE Answer(c, t)
  BY <1>13, <1>15, OverStays, OthersStay, Zenon DEF Answer, others, known
<1> QED
  BY <1>1, <1>2, <1>3, <1>4, <1>5, <1>6, <1>7, <1>8, <1>9, <1>10, <1>11, <1>12, <1>14,
     <1>15, ZenonT(30) DEF Step

LEMMA BlocksStep ==
  ASSUME BlocksInv, [HandlersNext]_handlers_vars PROVE TablesStep /\ setting' = setting
<1>1. CASE Tick
  BY <1>1, AgedStep, Zenon DEF Tick, known, BlocksInv
<1>2. CASE UpdateUsers \/ UNCHANGED handlers_vars
  BY <1>2, OthersStay, Zenon DEF UpdateUsers, handlers_vars, tables
<1>3. ASSUME NEW c \in Live, Accept(c) \/ FallSilent(c) \/ Leave(c) \/ FallBack(c) \/ OpenStream(c)
      PROVE  TablesStep /\ setting' = setting
  BY <1>3, OthersStay, Zenon DEF Accept, FallSilent, Leave, FallBack, OpenStream, others, known
<1>4. ASSUME NEW c \in Live, StopServing(c) PROVE TablesStep /\ setting' = setting
  BY <1>4, OthersStay, OverStays, Zenon DEF StopServing, others, known
<1>5. ASSUME NEW c \in Live, NEW t \in Tasks, RelayEnds(c, t)
      PROVE  TablesStep /\ setting' = setting
  BY <1>5, OverStays, Zenon DEF RelayEnds
<1> QED
  BY <1>1, <1>2, <1>3, <1>4, <1>5, TellingSteps, Zenon DEF HandlersNext

\* For any threshold, window and number of addresses: an address is blocked only after
\* as many failures as the threshold, counted within one window and without a success
\* of it in between (abuse.rs record_failure_at), whatever its other connections do.
THEOREM EarnedBlock == HandlersSpec => BlockedForFailures
<1>1. HandlersInit => BlocksInv
  <2> SUFFICES ASSUME HandlersInit PROVE BlocksInv
    BY Zenon
  <2>1. entries = [ip \in IpAddrs |-> Absent] /\ recent = [ip \in IpAddrs |-> NoFailures]
    BY Zenon DEF HandlersInit, Empty
  <2>2. entries \in Tables /\ recent \in [IpAddrs -> Ages]
    BY <2>1, AgesTyped, Zenon DEF Tables
  <2>3. \A ip \in IpAddrs : Row(entries[ip], recent[ip])
    BY <2>1, AgesTyped, Zenon DEF Row
  <2> QED
    BY <2>2, <2>3, Zenon DEF BlocksInv, Grid, HandlersInit
<1>2. BlocksInv /\ [HandlersNext]_handlers_vars => BlocksInv'
  BY BlocksStep, Zenon DEF BlocksInv, TablesStep
<1>3. BlocksInv /\ [HandlersNext]_handlers_vars =>
        [\A ip \in IpAddrs :
           ~is_blocked(entries, ip) /\ is_blocked(entries', ip)
             => recent'[ip][Threshold] <= Window]_handlers_vars
  BY BlocksStep, Zenon DEF TablesStep
<1> QED
  BY <1>1, <1>2, <1>3, PTL DEF HandlersSpec, BlockedForFailures

-----------------------------------------------------------------------------
(* Whose doing is counted against an address.                              *)

\* The only login of a handler is one of its own steps.
Logs(h) ==
  \E p \in 1 .. h.own : \A i \in 1 .. Len(h.steps) : (h.steps[i] = "auth") <=> (i = p)

\* What ShutOutForCause needs of a handler: with what it is refused, and what it fails with.
Accountable(h) ==
  /\ h.records = "auth" => h.refusals \subseteq {"auth"} /\ h.joins = {} /\ ~h.fatal
  /\ h.records = "return" => Logs(h)
  /\ h.refusals \subseteq {"auth", "user", "flow"}
  /\ h.connects \cup h.relays \subseteq {"ok", "error", "name", "outbound", "route", "wrapped"}

\* What is held against a connection of a kind, at a place of its tasks.
Charged(h, kind, run, str, au, bl) ==
  /\ run > h.own + 1 => h.joins # {}
  /\ au /\ run # 0 /\ Logs(h) => \A i \in run .. h.own : h.steps[i] # "auth"
  /\ bl \notin {"device", "source", "route", "wrapped", "flow"}
  /\ bl = "error" => kind = "hysteria2" /\ ~au /\ run = 0 /\ str = 0
  /\ h.records = "return" =>
       /\ bl # Absent => run = 0
       /\ au => bl \in {Absent, "outbound", "name"}

LEMMA ChargedAdvance ==
  ASSUME NEW h, NEW kind, NEW run, NEW str, NEW au, NEW bl, NEW k,
         Charged(h, kind, run, str, au, bl), h.own \in Nat
  PROVE  /\ run \in 1 .. h.own => Charged(h, kind, run + 1, str, au, bl)
         /\ str # 0 => Charged(h, kind, run, k, au, bl)
<1>1. ASSUME run \in 1 .. h.own PROVE Charged(h, kind, run + 1, str, au, bl)
  BY <1>1 DEF Charged
<1>2. ASSUME str # 0 PROVE Charged(h, kind, run, k, au, bl)
  BY <1>2, Zenon DEF Charged
<1> QED
  BY <1>1, <1>2, Zenon

LEMMA ChargedLogin ==
  ASSUME NEW h, NEW kind, NEW run, NEW str, NEW au, NEW bl, Charged(h, kind, run, str, au, bl),
         h.own \in Nat, Len(h.steps) \in Nat, h.own <= Len(h.steps),
         run \in 1 .. h.own, h.steps[run] = "auth"
  PROVE  Charged(h, kind, run + 1, str, TRUE, bl)
<1>1. ASSUME Logs(h), NEW i \in run + 1 .. h.own PROVE h.steps[i] # "auth"
  BY <1>1 DEF Logs
<1>2. run # 0 /\ run + 1 # 0 /\ ~(run + 1 > h.own + 1)
  OBVIOUS
<1> QED
  BY <1>1, <1>2, Zenon DEF Charged

LEMMA ChargedStreamLogin ==
  ASSUME NEW h, NEW g, NEW kind, NEW run, NEW str, NEW hd, NEW au, NEW lo, NEW bl, NEW k,
         WellFormed(h, g), Fits(h, g, run, str, hd, au, lo), Accountable(h),
         Charged(h, kind, run, str, au, bl), str \in 1 .. Len(h.steps), h.steps[str] = "auth"
  PROVE  Charged(h, kind, run, k, TRUE, bl)
<1>1. ~Logs(h)
  BY DEF Logs, WellFormed, Shaped, Fits
<1>2. str # 0
  BY DEF WellFormed, Shaped
<1> QED
  BY <1>1, <1>2, Zenon DEF Charged, Accountable

LEMMA ChargedJump ==
  ASSUME NEW h, NEW g, NEW kind, NEW run, NEW str, NEW au, NEW bl, NEW k,
         WellFormed(h, g), Charged(h, kind, run, str, au, bl), run # 0
  PROVE  /\ h.own = Len(h.steps) => Charged(h, kind, Len(h.steps), str, au, bl)
         /\ Charged(h, kind, 0, k, au, bl)
<1>1. ASSUME h.own = Len(h.steps) PROVE Charged(h, kind, Len(h.steps), str, au, bl)
  <2>1. /\ Len(h.steps) \in Nat \ {0} /\ ~(Len(h.steps) > h.own + 1)
        /\ \A i \in Len(h.steps) .. h.own : h.steps[i] # "auth"
    BY <1>1 DEF WellFormed, Shaped
  <2> QED
    BY <2>1, Zenon DEF Charged
<1>2. h.own \in Nat /\ ~(0 > h.own + 1)
  BY DEF WellFormed, Shaped
<1>3. Charged(h, kind, 0, k, au, bl)
  BY <1>2, Zenon DEF Charged
<1> QED
  BY <1>1, <1>3, Zenon

LEMMA ChargedAccept ==
  ASSUME NEW h, NEW kind, h.own \in Nat PROVE Charged(h, kind, 1, 0, FALSE, Absent)
<1>1. ~(1 > h.own + 1)
  OBVIOUS
<1>2. Absent \notin {"device", "source", "route", "wrapped", "flow", "error"}
  BY ResultsAssumption, Zenon DEF Results, Refusals
<1> QED
  BY <1>1, <1>2, Zenon DEF Charged

LEMMA ChargedServe ==
  ASSUME NEW h, NEW kind, NEW run, NEW str, NEW au, NEW bl, NEW k, NEW d \in {1, 2},
         Charged(h, kind, run, str, au, bl), h.own \in Nat, run = h.own + 1
  PROVE  /\ Charged(h, kind, run, k, au, bl)
         /\ h.joins # {} => Charged(h, kind, run + d, str, au, bl)
<1>1. run # 0 /\ run + d # 0 /\ \A i \in run + d .. h.own : h.steps[i] # "auth"
  OBVIOUS
<1> QED
  BY <1>1, Zenon DEF Charged

\* The tasks of T end, without blame or with it.
LEMMA ChargedEnd ==
  ASSUME NEW h, NEW kind, NEW run, NEW str, NEW au, NEW bl, NEW T, h.own \in Nat,
         Charged(h, kind, run, str, au, bl)
  PROVE  Charged(h, kind, IF "handler" \in T THEN 0 ELSE run, IF "stream" \in T THEN 0 ELSE str,
                 au, Absent)
<1>1. ~(0 > h.own + 1)
  OBVIOUS
<1>2. Absent \notin {"device", "source", "route", "wrapped", "flow", "error"}
  BY ResultsAssumption, Zenon DEF Results, Refusals
<1> QED
  BY <1>1, <1>2, Zenon DEF Charged

LEMMA ChargedReturn ==
  ASSUME NEW h, NEW kind, NEW au, NEW bl, NEW k, h.own \in Nat,
         bl \in {"auth", "user", "outbound", "name"}, au => bl \in {"outbound", "name"}
  PROVE  Charged(h, kind, 0, k, au, bl)
<1>1. ~(0 > h.own + 1)
  OBVIOUS
<1> QED
  BY <1>1, Zenon DEF Charged

LEMMA ChargedRefused ==
  ASSUME NEW h, NEW kind, NEW run, NEW str, NEW au, NEW bl, NEW T, h.own \in Nat,
         Charged(h, kind, run, str, au, bl), h.records = "auth"
  PROVE  Charged(h, kind, IF "handler" \in T THEN 0 ELSE run, IF "stream" \in T THEN 0 ELSE str,
                 au, "auth")
<1>1. ~(0 > h.own + 1)
  OBVIOUS
<1> QED
  BY <1>1, Zenon DEF Charged

LEMMA ChargedSilence ==
  ASSUME NEW h, h.own \in Nat, h.records = "auth" PROVE Charged(h, "hysteria2", 0, 0, FALSE, "error")
<1>1. ~(0 > h.own + 1)
  OBVIOUS
<1> QED
  BY <1>1, Zenon DEF Charged

-----------------------------------------------------------------------------
(* The handlers, one by one.                                               *)

\* Where the steps log in.
LogsAt(steps, own, p) ==
  /\ p \in 1 .. own
  /\ \A i \in 1 .. Len(steps) : (steps[i] = "auth") <=> (i = p)

LEMMA StepsLog ==
  /\ LogsAt(plain_steps, 8, 3)
  /\ LogsAt(shadowsocks_steps, 6, 3)
  /\ LogsAt(upgraded_steps, 9, 4)
  /\ LogsAt(tls_steps, 10, 5)
  /\ LogsAt(tls_upgraded_steps, 11, 6)
  /\ LogsAt(websocket_steps, 10, 4)
  /\ LogsAt(shadowsocks_steps, 4, 3)
  /\ LogsAt(anytls_tls_steps, 6, 5)
  /\ LogsAt(mieru_steps, 3, 3)
  /\ LogsAt(hysteria2_steps, 6, 5)
<1>1. LogsAt(plain_steps, 8, 3)
  BY Lengths DEF LogsAt, plain_steps
<1>2. LogsAt(shadowsocks_steps, 6, 3)
  BY Lengths DEF LogsAt, shadowsocks_steps
<1>3. LogsAt(upgraded_steps, 9, 4)
  BY Lengths DEF LogsAt, upgraded_steps
<1>4. LogsAt(tls_steps, 10, 5)
  BY Lengths DEF LogsAt, tls_steps
<1>5. LogsAt(tls_upgraded_steps, 11, 6)
  BY Lengths DEF LogsAt, tls_upgraded_steps
<1>6. LogsAt(websocket_steps, 10, 4)
  BY Lengths DEF LogsAt, websocket_steps
<1>7. LogsAt(shadowsocks_steps, 4, 3)
  BY Lengths DEF LogsAt, shadowsocks_steps
<1>8. LogsAt(anytls_tls_steps, 6, 5)
  BY Lengths DEF LogsAt, anytls_tls_steps
<1>9. LogsAt(mieru_steps, 3, 3)
  BY Lengths DEF LogsAt, mieru_steps
<1>10. LogsAt(hysteria2_steps, 6, 5)
  BY Lengths DEF LogsAt, hysteria2_steps
<1> QED
  BY <1>1, <1>2, <1>3, <1>4, <1>5, <1>6, <1>7, <1>8, <1>9, <1>10, ZenonT(30)

LEMMA TakesLog ==
  ASSUME NEW h, NEW steps, NEW own, NEW p, Takes(h, steps, own), LogsAt(steps, own, p)
  PROVE  Logs(h)
BY Zenon DEF Takes, LogsAt, Logs

\* What a handler refuses and fails with, and when it is counted.
Terms(h, records) ==
  /\ {"records", "refusals", "connects", "relays", "joins", "fatal"} \subseteq DOMAIN h
  /\ h.records = records
  /\ h.refusals \subseteq {"auth", "user", "flow"}
  /\ h.connects \subseteq {"ok", "error", "name", "outbound", "route", "wrapped"}
  /\ h.relays \subseteq {"ok", "error", "name", "outbound", "route", "wrapped"}
  /\ records = "auth" => h.refusals \subseteq {"auth"} /\ h.joins = {} /\ ~h.fatal

LEMMA HandlersTerms ==
  /\ Terms(socks5, "return")
  /\ Terms(http_proxy, "return")
  /\ Terms(shadowsocks, "return")
  /\ Terms(vmess_tcp, "return")
  /\ Terms(vmess_websocket, "return")
  /\ Terms(vmess_tls, "return")
  /\ Terms(vmess_tls_websocket, "return")
  /\ Terms(vmess_grpc, "never")
  /\ Terms(trojan_tcp, "return")
  /\ Terms(trojan_httpupgrade, "return")
  /\ Terms(trojan_websocket, "return")
  /\ Terms(trojan_tls, "return")
  /\ Terms(trojan_tls_httpupgrade, "return")
  /\ Terms(trojan_tls_websocket, "return")
  /\ Terms(trojan_grpc, "never")
  /\ Terms(vless_tcp, "never")
  /\ Terms(vless_httpupgrade, "return")
  /\ Terms(vless_websocket, "return")
  /\ Terms(vless_tls, "return")
  /\ Terms(vless_tls_httpupgrade, "return")
  /\ Terms(vless_vision, "return")
  /\ Terms(vless_tls_websocket, "return")
  /\ Terms(vless_reality, "never")
  /\ Terms(vless_grpc, "never")
  /\ Terms(anytls, "return")
  /\ Terms(anytls_tls, "return")
  /\ Terms(mieru, "return")
  /\ Terms(hysteria2, "auth")
  /\ Terms(tuic, "never")
  /\ Terms(naive_tcp, "auth")
  /\ Terms(naive_quic, "auth")
<1>1. Terms(socks5, "return")
  BY Zenon DEF Terms, socks5, Plain, socks5_read_request, socks5_connect
<1>2. Terms(http_proxy, "return")
  BY Zenon DEF Terms, http_proxy, Plain, http_read_request, connect_tcp_with_decision
<1>3. Terms(shadowsocks, "return")
  BY Zenon DEF Terms, shadowsocks, WithSteps, Plain, shadowsocks_read_request,
     connect_tcp_with_decision
<1>4. Terms(vmess_tcp, "return")
  BY Zenon DEF Terms, vmess_tcp, Plain, vmess_read_request, vmess_connect_for_request
<1>5. Terms(vmess_websocket, "return")
  BY <1>4, Zenon DEF Terms, vmess_websocket, Upgraded, WithSteps
<1>6. Terms(vmess_tls, "return")
  BY <1>4, Zenon DEF Terms, vmess_tls, OverTls, WithSteps
<1>7. Terms(vmess_tls_websocket, "return")
  BY <1>5, Zenon DEF Terms, vmess_tls_websocket, OverTls, WithSteps
<1>8. Terms(vmess_grpc, "never")
  BY <1>4, Zenon DEF Terms, vmess_grpc, OverGrpc
<1>9. Terms(trojan_tcp, "return")
  BY Zenon DEF Terms, trojan_tcp, Plain, trojan_read_request,
     connect_trojan_routed_tcp, connect_trojan_direct_target,
     connect_trojan_route_tcp_outbound
<1>10. Terms(trojan_httpupgrade, "return")
  BY <1>9, Zenon DEF Terms, trojan_httpupgrade, Upgraded, WithSteps
<1>11. Terms(trojan_websocket, "return")
  BY <1>9, Zenon DEF Terms, trojan_websocket, WithSteps
<1>12. Terms(trojan_tls, "return")
  BY <1>9, Zenon DEF Terms, trojan_tls, OverTls, WithSteps
<1>13. Terms(trojan_tls_httpupgrade, "return")
  BY <1>10, Zenon DEF Terms, trojan_tls_httpupgrade, OverTls, WithSteps
<1>14. Terms(trojan_tls_websocket, "return")
  BY <1>10, Zenon DEF Terms, trojan_tls_websocket, OverTls, WithSteps
<1>15. Terms(trojan_grpc, "never")
  BY <1>9, Zenon DEF Terms, trojan_grpc, OverGrpc
<1>16. Terms(vless_tcp, "never")
  BY ZenonT(30) DEF Terms, vless_tcp, WithSteps, Plain, vless_read_request,
     vless_connect_for_request, validate_request_flow,
     connect_vless_route_tcp_outbound
<1>17. Terms(vless_httpupgrade, "return")
  BY <1>16, Zenon DEF Terms, vless_httpupgrade, WithSteps
<1>18. Terms(vless_websocket, "return")
  BY <1>17, Zenon DEF Terms, vless_websocket, WithSteps
<1>19. Terms(vless_tls, "return")
  BY <1>16, Zenon DEF Terms, vless_tls, WithSteps
<1>20. Terms(vless_tls_httpupgrade, "return")
  BY <1>17, Zenon DEF Terms, vless_tls_httpupgrade, OverTls, WithSteps
<1>21. Terms(vless_vision, "return")
  BY <1>19, Zenon DEF Terms, vless_vision
<1>22. Terms(vless_tls_websocket, "return")
  BY <1>17, Zenon DEF Terms, vless_tls_websocket, OverTls, WithSteps
<1>23. Terms(vless_reality, "never")
  BY <1>16, Zenon DEF Terms, vless_reality, WithSteps
<1>24. Terms(vless_grpc, "never")
  BY <1>16, Zenon DEF Terms, vless_grpc, OverGrpc
<1>25. Terms(anytls, "return")
  BY Zenon DEF Terms, anytls, Multiplexed, Plain, anytls_read_auth,
     connect_tcp_with_decision
<1>26. Terms(anytls_tls, "return")
  BY <1>25, Zenon DEF Terms, anytls_tls, Multiplexed
<1>27. Terms(mieru, "return")
  BY Zenon DEF Terms, mieru, Multiplexed, Plain, mieru_accept,
     connect_tcp_with_decision
<1>28. Terms(hysteria2, "auth")
  BY Zenon DEF Terms, hysteria2, Multiplexed, Plain, authenticate_http3,
     hysteria2_connect
<1>29. Terms(tuic, "never")
  BY Zenon DEF Terms, tuic, Multiplexed, Plain, tuic_authenticate, tuic_connect
<1>30. Terms(naive_tcp, "auth")
  BY Zenon DEF Terms, naive_tcp, Multiplexed, Plain, naive_parse_request,
     naive_connect_remote
<1>31. Terms(naive_quic, "auth")
  BY <1>30, Zenon DEF Terms, naive_quic, Multiplexed
<1> QED
  BY <1>1, <1>2, <1>3, <1>4, <1>5, <1>6, <1>7, <1>8, <1>9, <1>10, <1>11, <1>12,
     <1>13, <1>14, <1>15, <1>16, <1>17, <1>18, <1>19, <1>20, <1>21, <1>22, <1>23,
     <1>24, <1>25, <1>26, <1>27, <1>28, <1>29, <1>30, <1>31, ZenonT(30)

LEMMA HandlersAccount ==
  ASSUME NEW k \in DOMAIN Handlers PROVE Accountable(Handlers[k])
<1>1. ASSUME NEW h, Terms(h, "return"), Logs(h) PROVE Accountable(h)
  BY <1>1, Zenon DEF Terms, Accountable
<1>2. ASSUME NEW h, Terms(h, "never") \/ Terms(h, "auth") PROVE Accountable(h)
  BY <1>2, Zenon DEF Terms, Accountable
<1> DEFINE P(h) == Accountable(h)
<1>3. P(socks5) /\ P(http_proxy) /\ P(shadowsocks) /\ P(vmess_tcp)
  BY <1>1, HandlersTerms, HandlersTake, StepsLog, TakesLog, Zenon
<1>4. P(vmess_websocket) /\ P(vmess_tls) /\ P(vmess_tls_websocket) /\ P(trojan_tcp)
  BY <1>1, HandlersTerms, HandlersTake, StepsLog, TakesLog, Zenon
<1>5. P(trojan_httpupgrade) /\ P(trojan_websocket) /\ P(trojan_tls) /\ P(trojan_tls_httpupgrade)
  BY <1>1, HandlersTerms, HandlersTake, StepsLog, TakesLog, Zenon
<1>6. P(trojan_tls_websocket) /\ P(vless_httpupgrade) /\ P(vless_websocket) /\ P(vless_tls)
  BY <1>1, HandlersTerms, HandlersTake, StepsLog, TakesLog, Zenon
<1>7. P(vless_tls_httpupgrade) /\ P(vless_vision) /\ P(vless_tls_websocket) /\ P(anytls)
  BY <1>1, HandlersTerms, HandlersTake, StepsLog, TakesLog, Zenon
<1>8. P(anytls_tls) /\ P(mieru)
  BY <1>1, HandlersTerms, HandlersTake, StepsLog, TakesLog, Zenon
<1>9. /\ P(vmess_grpc) /\ P(trojan_grpc) /\ P(vless_tcp) /\ P(vless_reality) /\ P(vless_grpc)
      /\ P(hysteria2) /\ P(tuic) /\ P(naive_tcp) /\ P(naive_quic)
  BY <1>2, HandlersTerms, ZenonT(30)
<1> HIDE DEF P
<1>10. P(Handlers[k])
  BY <1>3, <1>4, <1>5, <1>6, <1>7, <1>8, <1>9, SMTT(30) DEF Handlers
<1> QED
  BY <1>10, Zenon DEF P

\* Hysteria2 reads the handshake and the login of a connection in its own task.
LEMMA Hysteria2Reads ==
  LET h == Handlers["hysteria2"] IN
  /\ h.records = "auth" /\ Logs(h)
  /\ \A i \in 1 .. Len(h.steps) : h.steps[i] \in {"tls", "auth"} => i \in 4 .. 5
  /\ h.own = 6 /\ h.steps[5] = "auth"
<1>1. Handlers["hysteria2"] = hysteria2
  BY Zenon DEF Handlers
<1>2. Terms(hysteria2, "auth") /\ Takes(hysteria2, hysteria2_steps, 6)
      /\ LogsAt(hysteria2_steps, 6, 5)
  BY HandlersTerms, HandlersTake, StepsLog, Zenon
<1>3. hysteria2.records = "auth" /\ Logs(hysteria2)
  BY <1>2, TakesLog, Zenon DEF Terms
<1>4. /\ \A i \in 1 .. Len(hysteria2_steps) : hysteria2_steps[i] \in {"tls", "auth"} => i \in 4 .. 5
      /\ hysteria2_steps[5] = "auth"
  BY Lengths DEF hysteria2_steps
<1> QED
  BY <1>1, <1>2, <1>3, <1>4, Zenon DEF Takes

\* The refusals that are counted when a handler returns them.
LEMMA CountedResults ==
  ASSUME NEW result \in Results, result # "ok", result # "error",
         should_record_tcp_auth_failure(Words[result])
  PROVE  result \in {"auth", "user", "outbound", "name"}
<1>1. result \in Refusals
  BY Zenon DEF Results
<1>2. /\ Words["flow"] = {} /\ Words["source"] = {"route"} /\ Words["route"] = {"route"}
      /\ Words["device"] = {"device limit", "user"} /\ Words["wrapped"] = {"auth", "route"}
  BY Zenon DEF Words
<1>3. result \notin {"flow", "source", "route", "device", "wrapped"}
  BY <1>2, Zenon DEF should_record_tcp_auth_failure
<1> QED
  BY <1>1, <1>3, Zenon DEF Refusals

\* Who is asked for credentials has not logged in, where the returns are counted.
LEMMA LoginIsFirst ==
  ASSUME NEW h, NEW g, NEW kind, NEW run, NEW str, NEW hd, NEW au, NEW lo, NEW bl,
         WellFormed(h, g), Fits(h, g, run, str, hd, au, lo), Accountable(h),
         Charged(h, kind, run, str, au, bl), h.records = "return"
  PROVE  /\ run \in 1 .. h.own /\ h.steps[run] = "auth" => ~au
         /\ ~(str \in 1 .. Len(h.steps) /\ h.steps[str] = "auth")
<1>1. Logs(h)
  BY ZenonT(30) DEF Accountable
<1>2. ASSUME str \in 1 .. Len(h.steps), h.steps[str] = "auth" PROVE FALSE
  BY <1>1, <1>2 DEF Logs, WellFormed, Shaped, Fits
<1>3. ASSUME run \in 1 .. h.own, h.steps[run] = "auth", au PROVE FALSE
  <2>1. run \in run .. h.own /\ run # 0
    BY <1>3 DEF WellFormed, Shaped
  <2> QED
    BY <1>1, <1>3, <2>1, ZenonT(30) DEF Charged
<1> QED
  BY <1>2, <1>3, Zenon

-----------------------------------------------------------------------------
(* What is held against the connections of a state.                        *)

Marks == Results \cup {Absent}

ChargedAt(c, a, au, bl) ==
  Charged(Kind(c), setting.kind[c], a.handler, a.stream, au, bl)

BlameInv ==
  /\ blame \in [Conns -> Marks]
  /\ \A c \in Live : ChargedAt(c, at[c], authed[c], blame[c])

LEMMA LiveCharged ==
  ASSUME GuardsInv, BlameInv, NEW c \in Live
  PROVE  /\ c \in Conns /\ Accountable(Kind(c)) /\ Kind(c).own \in Nat
         /\ ChargedAt(c, at[c], authed[c], blame[c])
         /\ blame[c] \in Marks /\ Len(Kind(c).steps) \in Nat
         /\ Kind(c).own <= Len(Kind(c).steps)
<1>1. c \in Conns /\ setting.kind[c] \in DOMAIN Handlers
  BY SettingsAssumption, Zenon DEF GuardsInv, Live
<1>2. Accountable(Kind(c))
  BY <1>1, HandlersAccount, Zenon DEF Kind
<1>3. WellFormed(Kind(c), GuardAt(Kind(c))) /\ FitsAt(c, at[c], held[c], authed[c], lost[c])
  BY LiveShaped, Zenon
<1> QED
  BY <1>1, <1>2, <1>3, FitsRange, Zenon DEF BlameInv, FitsAt

LEMMA PutCharged ==
  ASSUME GuardsInv, BlameInv, NEW c \in Live, NEW a, NEW au, NEW bl \in Marks,
         ChargedAt(c, a, au, bl), setting' = setting, at' = [at EXCEPT ![c] = a],
         authed' = [authed EXCEPT ![c] = au], blame' = [blame EXCEPT ![c] = bl]
  PROVE  BlameInv'
<1>1. c \in Conns /\ at \in [Conns -> [Tasks -> Nat]] /\ authed \in [Conns -> BOOLEAN]
  BY LiveCharged, Zenon DEF GuardsInv
<1>2. blame' \in [Conns -> Marks]
  BY <1>1, Zenon DEF BlameInv
<1>3. /\ at'[c] = a /\ authed'[c] = au /\ blame'[c] = bl
      /\ \A d \in Conns : d # c => at'[d] = at[d] /\ authed'[d] = authed[d] /\ blame'[d] = blame[d]
  BY <1>1, Zenon DEF BlameInv
<1>4. Live' = Live
  BY Zenon DEF Live
<1>5. ASSUME NEW d \in Live PROVE ChargedAt(d, at[d], authed[d], blame[d])'
  <2>1. Kind(d)' = Kind(d) /\ d \in Conns
    BY LiveCharged, Zenon DEF Kind
  <2>2. CASE d = c
    BY <1>3, <2>1, <2>2, Zenon DEF ChargedAt
  <2>3. CASE d # c
    <3>1. ChargedAt(d, at[d], authed[d], blame[d])
      BY Zenon DEF BlameInv
    <3> QED
      BY <1>3, <2>1, <2>3, <3>1, ZenonT(30) DEF ChargedAt
  <2> QED
    BY <2>2, <2>3, Zenon
<1> QED
  BY <1>2, <1>4, <1>5, Zenon DEF BlameInv

LEMMA SameCharged ==
  ASSUME BlameInv, setting' = setting, UNCHANGED <<at, authed, blame>> PROVE BlameInv'
BY Zenon DEF BlameInv, Live, ChargedAt, Kind

LEMMA MoveCharged ==
  ASSUME GuardsInv, BlameInv, NEW c \in Live, NEW a, ChargedAt(c, a, authed[c], blame[c]),
         at' = [at EXCEPT ![c] = a], setting' = setting, UNCHANGED <<authed, blame>>
  PROVE  BlameInv'
<1> DEFINE au == authed[c]
           bl == blame[c]
<1>1. /\ bl \in Marks /\ ChargedAt(c, a, au, bl)
      /\ authed' = [authed EXCEPT ![c] = au] /\ blame' = [blame EXCEPT ![c] = bl]
  BY LiveCharged, Zenon DEF GuardsInv, BlameInv
<1> HIDE DEF au, bl
<1> QED
  BY <1>1, PutCharged, ZenonT(30)

\* Tasks end: whoever is blamed is so by what the step has told or by the return.
LEMMA EndCharged ==
  ASSUME GuardsInv, BlameInv, NEW c \in Live, NEW T \in SUBSET Tasks, NEW result \in Results,
         NEW said, End(c, T, result, said),
         \/ said = <<"auth", "failure">>
         \/ /\ "handler" \in T
            /\ ReturnNote(c, result) = <<"auth", "failure">>
         => Charged(Kind(c), setting.kind[c], IF "handler" \in T THEN 0 ELSE at[c].handler,
                    IF "stream" \in T THEN 0 ELSE at[c].stream, authed[c], result)
  PROVE  BlameInv'
<1> DEFINE a == [t \in Tasks |-> IF t \in T THEN 0 ELSE at[c][t]]
           note == IF said # Nothing \/ "handler" \notin T THEN said ELSE ReturnNote(c, result)
           bl == IF note = <<"auth", "failure">> THEN result ELSE Absent
           au == authed[c]
<1>1. /\ setting' = setting /\ at' = [at EXCEPT ![c] = a] /\ authed' = authed
      /\ blame' = [blame EXCEPT ![c] = bl]
  BY Zenon DEF End, known
<1>2. bl \in Marks
  BY Zenon DEF Marks
<1>3. authed' = [authed EXCEPT ![c] = au]
  BY <1>1, LiveCharged, Zenon DEF GuardsInv
<1>4. /\ a.handler = IF "handler" \in T THEN 0 ELSE at[c].handler
      /\ a.stream = IF "stream" \in T THEN 0 ELSE at[c].stream
  BY DEF Tasks
<1>5. Charged(Kind(c), setting.kind[c], IF "handler" \in T THEN 0 ELSE at[c].handler,
              IF "stream" \in T THEN 0 ELSE at[c].stream, authed[c], bl)
  <2>1. CASE note = <<"auth", "failure">>
    <3>1. \/ said = <<"auth", "failure">>
          \/ "handler" \in T /\ ReturnNote(c, result) = <<"auth", "failure">>
      BY <2>1, Zenon
    <3>2. bl = result
      BY <2>1, Zenon
    <3> HIDE DEF bl
    <3> QED
      BY <3>1, <3>2, Zenon
  <2>2. CASE note # <<"auth", "failure">>
    <3>1. bl = Absent
      BY <2>2, Zenon
    <3> HIDE DEF bl
    <3> QED
      BY <3>1, LiveCharged, ChargedEnd, ZenonT(30) DEF ChargedAt
  <2> QED
    BY <2>1, <2>2, Zenon
<1> HIDE DEF a, bl
<1>6. ChargedAt(c, a, au, bl)
  BY <1>4, <1>5, Zenon DEF ChargedAt
<1> HIDE DEF au
<1> QED
  BY <1>1, <1>2, <1>3, <1>6, PutCharged, ZenonT(30)

\* A return that is counted is no refusal of credentials that were accepted.
LEMMA ReturnCharged ==
  ASSUME GuardsInv, BlameInv, NEW c \in Live, NEW result \in Results, NEW k,
         Kind(c).records = "return" /\ authed[c] => result \notin {"auth", "user"},
         ReturnNote(c, result) = <<"auth", "failure">>
  PROVE  Charged(Kind(c), setting.kind[c], 0, k, authed[c], result)
<1>1. Nothing # <<"auth", "failure">> /\ <<"auth", "success">> # <<"auth", "failure">>
  BY DEF Nothing
<1>2. /\ Kind(c).records = "return" /\ result # "error" /\ result # "ok"
      /\ should_record_tcp_auth_failure(Words[result])
  BY <1>1, Zenon DEF ReturnNote
<1>3. result \in {"auth", "user", "outbound", "name"}
  BY <1>2, CountedResults, Zenon
<1>4. authed[c] => result \in {"outbound", "name"}
  BY <1>2, <1>3, Zenon
<1> QED
  BY <1>3, <1>4, LiveCharged, ChargedReturn, ZenonT(30)

\* A task is over that has told nothing of a login.
LEMMA OverCharged ==
  ASSUME GuardsInv, BlameInv, NEW c \in Live, NEW t \in Tasks, NEW result \in Results, NEW said,
         said # <<"auth", "failure">>,
         Kind(c).records = "return" /\ authed[c] => result \notin {"auth", "user"},
         OverSaying(c, t, result, said)
  PROVE  BlameInv'
<1>1. "ok" \in Results /\ "error" \in Results
  BY Zenon DEF Results
<1>2. PICK T \in SUBSET Tasks, shown \in {result, "ok", "error"} : End(c, T, shown, said)
  BY Zenon DEF OverSaying
<1>3. shown \in Results
      /\ (Kind(c).records = "return" /\ authed[c] => shown \notin {"auth", "user"})
  BY <1>1, <1>2, Zenon
<1>4. \/ said = <<"auth", "failure">>
      \/ "handler" \in T /\ ReturnNote(c, shown) = <<"auth", "failure">>
      => Charged(Kind(c), setting.kind[c], IF "handler" \in T THEN 0 ELSE at[c].handler,
                 IF "stream" \in T THEN 0 ELSE at[c].stream, authed[c], shown)
  BY <1>3, ReturnCharged, ZenonT(30)
<1> QED
  BY <1>2, <1>3, <1>4, EndCharged, ZenonT(30)

LEMMA FailsUncharged ==
  ASSUME GuardsInv, BlameInv, NEW c \in Live, NEW t \in Tasks, NEW result \in Results,
         result \notin {"auth", "user"}, Over(c, t, result)
  PROVE  BlameInv'
<1>1. Nothing # <<"auth", "failure">>
  BY DEF Nothing
<1> QED
  BY <1>1, OverCharged, Zenon DEF Over

-----------------------------------------------------------------------------
\* A task moves on.
LEMMA AdvanceCharged ==
  ASSUME GuardsInv, BlameInv, NEW c \in Live, NEW t \in Tasks, Advance(c, t),
         StepOf(c, t) \notin {"none", "serving", "closing", "failing"},
         setting' = setting, UNCHANGED <<authed, blame>>
  PROVE  BlameInv'
<1> DEFINE a == [at[c] EXCEPT ![t] = at[c][t] + 1]
<1>1. at[c][t] \in 1 .. IF t = "handler" THEN Kind(c).own ELSE Len(Kind(c).steps)
  BY At, Zenon
<1>2. a \in [Tasks -> Nat] /\ at' = [at EXCEPT ![c] = a]
  BY Advanced, Zenon
<1>3. at[c][t] + 1 \in Nat /\ at[c][t] # 0
  BY <1>1, LiveCharged
<1>4. Charged(Kind(c), setting.kind[c], at[c].handler, at[c].stream, authed[c], blame[c])
      /\ Kind(c).own \in Nat
  BY LiveCharged, Zenon DEF ChargedAt
<1>5. ASSUME t = "handler" PROVE ChargedAt(c, a, authed[c], blame[c])
  <2>1. a.handler = at[c].handler + 1 /\ a.stream = at[c].stream
    BY <1>3, <1>5, Places
  <2>2. at[c].handler \in 1 .. Kind(c).own
    BY <1>1, <1>5, Zenon
  <2> HIDE DEF a
  <2> QED
    BY <1>4, <2>1, <2>2, ChargedAdvance, ZenonT(30) DEF ChargedAt
<1>6. ASSUME t = "stream" PROVE ChargedAt(c, a, authed[c], blame[c])
  <2>1. a.stream = at[c].stream + 1 /\ a.handler = at[c].handler
    BY <1>3, <1>6, Places
  <2> HIDE DEF a
  <2> QED
    BY <1>3, <1>4, <1>6, <2>1, ChargedAdvance, ZenonT(30) DEF ChargedAt
<1>7. ChargedAt(c, a, authed[c], blame[c])
  BY <1>5, <1>6, Zenon DEF Tasks
<1> HIDE DEF a
<1> QED
  BY <1>2, <1>7, MoveCharged, ZenonT(30)

LEMMA LoginCharged ==
  ASSUME GuardsInv, BlameInv, NEW c \in Live, NEW t \in Tasks, ReadSucceeds(c, t)
  PROVE  BlameInv'
<1>1. /\ StepOf(c, t) \in Reads /\ Advance(c, t) /\ setting' = setting /\ blame' = blame
      /\ authed' = [authed EXCEPT ![c] = authed[c] \/ StepOf(c, t) = "auth"]
  BY Zenon DEF ReadSucceeds, known
<1>2. StepOf(c, t) \notin {"none", "serving", "closing", "failing"}
  BY <1>1, Zenon DEF Reads
<1>3. CASE StepOf(c, t) # "auth"
  <2>1. authed' = authed
    BY <1>1, <1>3, LiveCharged, ZenonT(30) DEF GuardsInv
  <2> QED
    BY <1>1, <1>2, <2>1, AdvanceCharged, ZenonT(30)
<1>4. CASE StepOf(c, t) = "auth"
  <2> DEFINE a == [at[c] EXCEPT ![t] = at[c][t] + 1]
             au == TRUE
             bl == blame[c]
  <2>1. /\ at[c][t] \in 1 .. IF t = "handler" THEN Kind(c).own ELSE Len(Kind(c).steps)
        /\ Kind(c).steps[at[c][t]] = "auth"
    BY <1>2, <1>4, At, ZenonT(30)
  <2>2. at[c][t] + 1 \in Nat
    BY <2>1, LiveCharged
  <2>3. /\ Charged(Kind(c), setting.kind[c], at[c].handler, at[c].stream, authed[c], blame[c])
        /\ Kind(c).own \in Nat /\ Len(Kind(c).steps) \in Nat /\ Accountable(Kind(c))
        /\ Kind(c).own <= Len(Kind(c).steps)
    BY LiveCharged, Zenon DEF ChargedAt
  <2>4. ASSUME t = "handler" PROVE ChargedAt(c, a, TRUE, blame[c])
    <3>1. a.handler = at[c].handler + 1 /\ a.stream = at[c].stream
      BY <2>2, <2>4, Places
    <3>2. at[c].handler \in 1 .. Kind(c).own /\ Kind(c).steps[at[c].handler] = "auth"
      BY <2>1, <2>4, Zenon
    <3> HIDE DEF a
    <3> QED
      BY <2>3, <3>1, <3>2, ChargedLogin, ZenonT(30) DEF ChargedAt
  <2>5. ASSUME t = "stream" PROVE ChargedAt(c, a, TRUE, blame[c])
    <3>1. a.stream = at[c].stream + 1 /\ a.handler = at[c].handler
      BY <2>2, <2>5, Places
    <3>2. at[c].stream \in 1 .. Len(Kind(c).steps) /\ Kind(c).steps[at[c].stream] = "auth"
      BY <2>1, <2>5, Zenon
    <3>3. /\ WellFormed(Kind(c), GuardAt(Kind(c)))
          /\ Fits(Kind(c), GuardAt(Kind(c)), at[c].handler, at[c].stream, held[c], authed[c], lost[c])
      BY LiveShaped, Zenon DEF FitsAt
    <3> HIDE DEF a
    <3> QED
      BY <2>3, <3>1, <3>2, <3>3, ChargedStreamLogin, ZenonT(30) DEF ChargedAt
  <2>6. ChargedAt(c, a, au, bl)
    BY <2>4, <2>5, Zenon DEF Tasks
  <2>7. at' = [at EXCEPT ![c] = a]
    BY <1>1, Advanced, Zenon
  <2>8. /\ authed' = [authed EXCEPT ![c] = au] /\ blame' = [blame EXCEPT ![c] = bl]
        /\ bl \in Marks
    BY <1>1, <1>4, LiveCharged, ZenonT(30) DEF BlameInv
  <2> HIDE DEF a, au, bl
  <2> QED
    BY <1>1, <2>6, <2>7, <2>8, PutCharged, ZenonT(30)
<1> QED
  BY <1>3, <1>4, Zenon

\* The relay goes to the pool.
LEMMA DetachCharged ==
  ASSUME GuardsInv, BlameInv, NEW c \in Live, Detach(c), at[c].handler # 0
  PROVE  BlameInv'
<1> DEFINE n == Len(Kind(c).steps)
           a == [handler |-> 0, stream |-> n]
<1>1. /\ WellFormed(Kind(c), GuardAt(Kind(c)))
      /\ Charged(Kind(c), setting.kind[c], at[c].handler, at[c].stream, authed[c], blame[c])
  BY LiveShaped, LiveCharged, Zenon DEF ChargedAt
<1>2. Charged(Kind(c), setting.kind[c], 0, n, authed[c], blame[c])
  BY <1>1, ChargedJump, ZenonT(30)
<1>3. a.handler = 0 /\ a.stream = n
  BY Zenon
<1>4. at' = [at EXCEPT ![c] = a] /\ setting' = setting /\ UNCHANGED <<authed, blame>>
  BY Zenon DEF Detach, known
<1> HIDE DEF a, n
<1>5. ChargedAt(c, a, authed[c], blame[c])
  BY <1>2, <1>3, Zenon DEF ChargedAt
<1> QED
  BY <1>4, <1>5, MoveCharged, ZenonT(30)

\* A task goes to its relay.
LEMMA JumpCharged ==
  ASSUME GuardsInv, BlameInv, NEW c \in Live, NEW t \in Tasks, at[c][t] # 0,
         t = "handler" => Kind(c).own = Len(Kind(c).steps),
         at' = [at EXCEPT ![c][t] = Len(Kind(c).steps)], UNCHANGED others
  PROVE  BlameInv'
<1> DEFINE n == Len(Kind(c).steps)
           a == [at[c] EXCEPT ![t] = n]
<1>1. /\ c \in Conns /\ WellFormed(Kind(c), GuardAt(Kind(c))) /\ at[c] \in [Tasks -> Nat]
      /\ Charged(Kind(c), setting.kind[c], at[c].handler, at[c].stream, authed[c], blame[c])
      /\ n \in Nat /\ Kind(c).own \in Nat
  BY LiveShaped, LiveCharged, Zenon DEF ChargedAt
<1>2. at' = [at EXCEPT ![c] = a] /\ setting' = setting /\ UNCHANGED <<authed, blame>>
  BY <1>1, Zenon DEF others, known, GuardsInv
<1>3. ASSUME t = "handler" PROVE ChargedAt(c, a, authed[c], blame[c])
  <2>1. Charged(Kind(c), setting.kind[c], n, at[c].stream, authed[c], blame[c])
    BY <1>1, <1>3, ChargedJump, ZenonT(30)
  <2> HIDE DEF n
  <2>2. a.handler = n /\ a.stream = at[c].stream
    BY <1>1, <1>3, Places
  <2> HIDE DEF a
  <2> QED
    BY <2>1, <2>2, Zenon DEF ChargedAt
<1>4. ASSUME t = "stream" PROVE ChargedAt(c, a, authed[c], blame[c])
  <2>1. Charged(Kind(c), setting.kind[c], at[c].handler, n, authed[c], blame[c])
    BY <1>1, <1>4, ChargedAdvance, ZenonT(30)
  <2> HIDE DEF n
  <2>2. a.stream = n /\ a.handler = at[c].handler
    BY <1>1, <1>4, Places, SMTT(30)
  <2> HIDE DEF a
  <2> QED
    BY <2>1, <2>2, Zenon DEF ChargedAt
<1>5. ChargedAt(c, a, authed[c], blame[c])
  BY <1>3, <1>4, Zenon DEF Tasks
<1> HIDE DEF a
<1> QED
  BY <1>2, <1>5, MoveCharged, ZenonT(30)

LEMMA AssociateCharged ==
  ASSUME GuardsInv, BlameInv, NEW c \in Live, NEW t \in Tasks, Associate(c, t)
  PROVE  BlameInv'
<1>1. StepOf(c, t) = "connect"
  BY Zenon DEF Associate
<1>2. /\ at[c][t] \in 1 .. IF t = "handler" THEN Kind(c).own ELSE Len(Kind(c).steps)
      /\ Kind(c).steps[at[c][t]] = "connect"
  BY <1>1, At, Zenon
<1>3. /\ WellFormed(Kind(c), GuardAt(Kind(c)))
      /\ Fits(Kind(c), GuardAt(Kind(c)), at[c].handler, at[c].stream, held[c], authed[c], lost[c])
      /\ Len(Kind(c).steps) \in Nat /\ Kind(c).own \in Nat
  BY LiveShaped, LiveCharged, ZenonT(30) DEF FitsAt
<1>4. at[c][t] # 0
  BY <1>2, <1>3, SMTT(30)
<1>5. ASSUME t = "handler" PROVE Kind(c).own = Len(Kind(c).steps)
  <2>1. at[c].handler \in 1 .. Kind(c).own /\ Kind(c).steps[at[c].handler] = "connect"
    BY <1>2, <1>5, Zenon
  <2> QED
    BY <1>3, <2>1, SMTT(30) DEF WellFormed, Shaped
<1>6. CASE Kind(c).udp = "pool" /\ Detach(c)
  <2>1. CASE t = "handler"
    BY <1>4, <1>6, <2>1, DetachCharged, Zenon
  <2>2. CASE t = "stream"
    <3>1. at[c].stream \in 1 .. Len(Kind(c).steps) /\ Kind(c).steps[at[c].stream] = "connect"
      BY <1>2, <2>2, Zenon
    <3>2. Kind(c).udp # "pool"
      BY <1>3, <3>1, FitsJump, ZenonT(30)
    <3> QED
      BY <1>6, <3>2, Zenon
  <2> QED
    BY <2>1, <2>2, Zenon DEF Tasks
<1>7. CASE at' = [at EXCEPT ![c][t] = Len(Kind(c).steps)] /\ UNCHANGED others
  BY <1>4, <1>5, <1>7, JumpCharged, Zenon
<1> QED
  BY <1>6, <1>7, Zenon DEF Associate

LEMMA FallBackCharged ==
  ASSUME GuardsInv, BlameInv, NEW c \in Live, FallBack(c) PROVE BlameInv'
<1>1. /\ setting.kind[c] = "vless_reality" /\ StepOf(c, "handler") = "tls" /\ UNCHANGED others
      /\ at' = [at EXCEPT ![c]["handler"] = Len(Kind(c).steps)] /\ "handler" \in Tasks
  BY Zenon DEF FallBack, Tasks
<1>2. Kind(c).own = Len(Kind(c).steps)
  BY <1>1, RealityOwnsAll, Zenon DEF Kind
<1>3. at[c]["handler"] # 0
  BY <1>1, Zenon DEF StepOf
<1> QED
  BY <1>1, <1>2, <1>3, JumpCharged, ZenonT(30)

LEMMA OpenStreamCharged ==
  ASSUME GuardsInv, BlameInv, NEW c \in Live, OpenStream(c) PROVE BlameInv'
<1> DEFINE n == Kind(c).own + 1
           a == [at[c] EXCEPT !["stream"] = n]
<1>1. /\ at[c] \in [Tasks -> Nat] /\ c \in Conns /\ "stream" \in Tasks /\ Kind(c).own \in Nat
      /\ Charged(Kind(c), setting.kind[c], at[c].handler, at[c].stream, authed[c], blame[c])
  BY LiveShaped, LiveCharged, Zenon DEF Tasks, ChargedAt
<1>2. at[c].handler = Kind(c).own + 1
  BY Serving, Zenon DEF OpenStream
<1>3. n \in Nat
  BY <1>1
<1>4. at' = [at EXCEPT ![c] = a] /\ setting' = setting /\ UNCHANGED <<authed, blame>>
  BY <1>1, Zenon DEF OpenStream, others, known, GuardsInv
<1> HIDE DEF n
<1>5. Charged(Kind(c), setting.kind[c], at[c].handler, n, authed[c], blame[c])
  BY <1>1, <1>2, ChargedServe, ZenonT(30)
<1>6. a.stream = n /\ a.handler = at[c].handler
  BY <1>1, <1>3, Places, Zenon
<1> HIDE DEF a
<1>7. ChargedAt(c, a, authed[c], blame[c])
  BY <1>5, <1>6, Zenon DEF ChargedAt
<1> QED
  BY <1>4, <1>7, MoveCharged, ZenonT(30)

LEMMA StopServingCharged ==
  ASSUME GuardsInv, BlameInv, NEW c \in Live, StopServing(c) PROVE BlameInv'
<1>1. ASSUME NEW k \in {1, 2}, at' = [at EXCEPT ![c].handler = @ + k], UNCHANGED others,
             Kind(c).joins # {}
      PROVE  BlameInv'
  <2> DEFINE n == at[c].handler + k
             a == [at[c] EXCEPT !["handler"] = n]
  <2>1. /\ at[c] \in [Tasks -> Nat] /\ c \in Conns /\ "handler" \in Tasks /\ Kind(c).own \in Nat
        /\ Charged(Kind(c), setting.kind[c], at[c].handler, at[c].stream, authed[c], blame[c])
    BY LiveShaped, LiveCharged, Zenon DEF Tasks, ChargedAt
  <2>2. at[c].handler = Kind(c).own + 1
    BY Serving, Zenon DEF StopServing
  <2>3. n \in Nat
    BY <1>1, <2>1, <2>2
  <2>4. at' = [at EXCEPT ![c] = a] /\ setting' = setting /\ UNCHANGED <<authed, blame>>
    BY <1>1, <2>1, Zenon DEF others, known, GuardsInv
  <2>5. Charged(Kind(c), setting.kind[c], n, at[c].stream, authed[c], blame[c])
    BY <1>1, <2>1, <2>2, ChargedServe, ZenonT(30)
  <2> HIDE DEF n
  <2>6. a.handler = n /\ a.stream = at[c].stream
    BY <2>1, <2>3, Places, Zenon
  <2> HIDE DEF a
  <2>7. ChargedAt(c, a, authed[c], blame[c])
    BY <2>5, <2>6, Zenon DEF ChargedAt
  <2> QED
    BY <2>4, <2>7, MoveCharged, ZenonT(30)
<1>2. PICK result \in {"ok", "error"} :
        \/ /\ at' = [at EXCEPT ![c].handler = @ + IF result = "ok" THEN 1 ELSE 2]
           /\ UNCHANGED others /\ result \in Kind(c).joins
        \/ Over(c, "handler", result)
  BY Zenon DEF StopServing
<1>3. CASE Over(c, "handler", result)
  <2>1. result \in Results /\ result \notin {"auth", "user"} /\ "handler" \in Tasks
    BY Zenon DEF Results, Tasks
  <2> QED
    BY <1>3, <2>1, FailsUncharged, Zenon
<1>4. CASE /\ UNCHANGED others /\ result \in Kind(c).joins
           /\ at' = [at EXCEPT ![c].handler = @ + IF result = "ok" THEN 1 ELSE 2]
  <2>1. Kind(c).joins # {}
    BY <1>4, Zenon
  <2>2. CASE result = "ok"
    BY <1>1, <1>4, <2>1, <2>2, Zenon
  <2>3. CASE result # "ok"
    BY <1>1, <1>4, <2>1, <2>3, Zenon
  <2> QED
    BY <2>2, <2>3, Zenon
<1> QED
  BY <1>2, <1>3, <1>4, Zenon

LEMMA AcceptCharged ==
  ASSUME GuardsInv, BlameInv, NEW c \in Live, Accept(c) PROVE BlameInv'
<1> DEFINE a == [at[c] EXCEPT !["handler"] = 1]
           au == FALSE
<1>1. at[c] \in [Tasks -> Nat] /\ c \in Conns /\ "handler" \in Tasks /\ Kind(c).own \in Nat
  BY LiveShaped, LiveCharged, Zenon DEF Tasks
<1>2. at[c].handler = 0 /\ at[c].stream = 0
  BY DEF Accept, Idle
<1>3. a.handler = 1 /\ a.stream = 0
  BY <1>1, <1>2, Places, Zenon
<1>4. /\ setting' = setting /\ at' = [at EXCEPT ![c] = a]
      /\ authed' = [authed EXCEPT ![c] = au] /\ blame' = [blame EXCEPT ![c] = Absent]
  BY <1>1, Zenon DEF Accept, GuardsInv
<1>5. Absent \in Marks
  BY Zenon DEF Marks
<1> HIDE DEF a
<1>6. ChargedAt(c, a, au, Absent)
  BY <1>1, <1>3, ChargedAccept, Zenon DEF ChargedAt
<1> HIDE DEF au
<1> QED
  BY <1>4, <1>5, <1>6, PutCharged, ZenonT(30)

\* A connection whose logins are counted at once never waits for its streams.
LEMMA NeverClosing ==
  ASSUME GuardsInv, BlameInv, NEW c \in Live, Kind(c).records = "auth"
  PROVE  StepOf(c, "handler") \notin {"closing", "failing"}
<1>1. /\ WellFormed(Kind(c), GuardAt(Kind(c))) /\ FitsAt(c, at[c], held[c], authed[c], lost[c])
      /\ Accountable(Kind(c))
      /\ Charged(Kind(c), setting.kind[c], at[c].handler, at[c].stream, authed[c], blame[c])
  BY LiveShaped, LiveCharged, Zenon DEF ChargedAt
<1>2. /\ at[c].handler \in Nat /\ Kind(c).own \in Nat /\ Kind(c).own <= Len(Kind(c).steps)
      /\ Len(Kind(c).steps) \in Nat
  BY <1>1, FitsRange, Zenon DEF FitsAt
<1>3. ~(at[c].handler > Kind(c).own + 1)
  BY <1>1, Zenon DEF Charged, Accountable
<1>4. CASE at[c].handler = 0
  BY <1>4, Zenon DEF StepOf
<1>5. CASE at[c].handler \in 1 .. Kind(c).own
  <2>1. Kind(c).steps[at[c].handler] \notin {"closing", "failing"}
    BY <1>1, <1>2, <1>5, SMTT(30) DEF WellFormed, Shaped
  <2>2. at[c].handler # 0 /\ at[c].handler <= Kind(c).own
    BY <1>5
  <2> QED
    BY <2>1, <2>2, ZenonT(30) DEF StepOf
<1>6. CASE at[c].handler = Kind(c).own + 1
  <2>1. at[c].handler # 0 /\ ~(at[c].handler <= Kind(c).own)
    BY <1>2, <1>6
  <2> QED
    BY <1>6, <2>1, Zenon DEF StepOf
<1> QED
  BY <1>2, <1>3, <1>4, <1>5, <1>6, SMTT(30)

LEMMA RefusedCharged ==
  ASSUME GuardsInv, BlameInv, NEW c \in Live, NEW t \in Tasks, CredentialsRefused(c, t)
  PROVE  BlameInv'
<1>1. PICK refusal \in Kind(c).refusals : OverSaying(c, t, refusal, Said(c, "auth", "failure"))
  BY Zenon DEF CredentialsRefused
<1>2. /\ at[c][t] \in 1 .. IF t = "handler" THEN Kind(c).own ELSE Len(Kind(c).steps)
      /\ Kind(c).steps[at[c][t]] = "auth"
  BY At, ZenonT(30) DEF CredentialsRefused
<1>3. /\ WellFormed(Kind(c), GuardAt(Kind(c))) /\ Accountable(Kind(c)) /\ Kind(c).own \in Nat
      /\ Fits(Kind(c), GuardAt(Kind(c)), at[c].handler, at[c].stream, held[c], authed[c], lost[c])
      /\ Charged(Kind(c), setting.kind[c], at[c].handler, at[c].stream, authed[c], blame[c])
  BY LiveShaped, LiveCharged, ZenonT(30) DEF FitsAt, ChargedAt
<1>4. refusal \in {"auth", "user", "flow"} /\ refusal \in Results
  BY <1>3, Zenon DEF Accountable, Results, Refusals
<1>5. CASE Kind(c).records = "auth"
  <2>1. refusal = "auth" /\ ~Kind(c).fatal
    BY <1>3, <1>5, Zenon DEF Accountable
  <2>2. Said(c, "auth", "failure") = <<"auth", "failure">>
    BY <1>5, Zenon DEF Said
  <2>3. End(c, {t}, "auth", <<"auth", "failure">>)
    BY <1>1, <1>5, <2>1, <2>2, NeverClosing, Zenon DEF OverSaying
  <2>4. Charged(Kind(c), setting.kind[c], IF "handler" \in {t} THEN 0 ELSE at[c].handler,
                IF "stream" \in {t} THEN 0 ELSE at[c].stream, authed[c], "auth")
    BY <1>3, <1>5, ChargedRefused, ZenonT(30)
  <2>5. {t} \in SUBSET Tasks /\ "auth" \in Results
    BY Zenon DEF Results, Refusals
  <2> QED
    BY <2>3, <2>4, <2>5, EndCharged, ZenonT(30)
<1>6. CASE Kind(c).records # "auth"
  <2>1. Said(c, "auth", "failure") # <<"auth", "failure">>
    <3>1. Said(c, "auth", "failure") = Nothing
      BY <1>6, Zenon DEF Said
    <3> QED
      BY <3>1 DEF Nothing
  <2>2. ASSUME Kind(c).records = "return", authed[c] PROVE FALSE
    <3>1. CASE t = "handler"
      <4>1. at[c].handler \in 1 .. Kind(c).own /\ Kind(c).steps[at[c].handler] = "auth"
        BY <1>2, <3>1, Zenon
      <4> QED
        BY <1>3, <2>2, <4>1, LoginIsFirst, ZenonT(30)
    <3>2. CASE t = "stream"
      <4>1. at[c].stream \in 1 .. Len(Kind(c).steps) /\ Kind(c).steps[at[c].stream] = "auth"
        BY <1>2, <3>2, Zenon
      <4> QED
        BY <1>3, <2>2, <4>1, LoginIsFirst, ZenonT(30)
    <3> QED
      BY <3>1, <3>2, Zenon DEF Tasks
  <2> QED
    BY <1>1, <1>4, <2>1, <2>2, OverCharged, ZenonT(30)
<1> QED
  BY <1>5, <1>6, Zenon

\* What is told of a handshake is no failed login.
LEMMA HandshakeSays ==
  ASSUME NEW c PROVE Said(c, "tls", "failure") # <<"auth", "failure">>
<1>1. Said(c, "tls", "failure") \in {<<"tls", "failure">>, Nothing}
  BY Zenon DEF Said
<1> QED
  BY <1>1 DEF Nothing

LEMMA FailsSaying ==
  ASSUME GuardsInv, BlameInv, NEW c \in Live, NEW t \in Tasks, NEW said,
         said \in {Said(c, "tls", "failure"), Nothing}, OverSaying(c, t, "error", said)
  PROVE  BlameInv'
<1>1. said # <<"auth", "failure">>
  <2>1. Nothing # <<"auth", "failure">>
    BY DEF Nothing
  <2> QED
    BY <2>1, HandshakeSays, Zenon
<1>2. "error" \in Results /\ "error" \notin {"auth", "user"}
  BY Zenon DEF Results
<1> QED
  BY <1>1, <1>2, OverCharged, ZenonT(30)

\* A silent client of Hysteria2 that is held to account has not logged in.
LEMMA SilenceCharged ==
  ASSUME GuardsInv, BlameInv, NEW c \in Live, NEW t \in Tasks, setting.kind[c] = "hysteria2",
         StepOf(c, t) \in {"tls", "auth"}, OverSaying(c, t, "error", <<"auth", "failure">>)
  PROVE  BlameInv'
<1>1. /\ Kind(c).records = "auth" /\ Logs(Kind(c)) /\ Kind(c).own = 6 /\ Kind(c).steps[5] = "auth"
      /\ \A i \in 1 .. Len(Kind(c).steps) : Kind(c).steps[i] \in {"tls", "auth"} => i \in 4 .. 5
  BY Hysteria2Reads, Zenon DEF Kind
<1>2. /\ at[c][t] \in 1 .. IF t = "handler" THEN Kind(c).own ELSE Len(Kind(c).steps)
      /\ Kind(c).steps[at[c][t]] \in {"tls", "auth"}
  BY At, ZenonT(30)
<1>3. /\ WellFormed(Kind(c), GuardAt(Kind(c))) /\ Kind(c).own \in Nat
      /\ Fits(Kind(c), GuardAt(Kind(c)), at[c].handler, at[c].stream, held[c], authed[c], lost[c])
      /\ Charged(Kind(c), setting.kind[c], at[c].handler, at[c].stream, authed[c], blame[c])
      /\ authed[c] \in BOOLEAN /\ Accountable(Kind(c))
  BY LiveShaped, LiveCharged, ZenonT(30) DEF FitsAt, ChargedAt
<1>4. /\ Kind(c).own <= Len(Kind(c).steps) /\ Len(Kind(c).steps) \in Nat
  BY LiveCharged, Zenon
<1>5. t = "handler"
  <2>1. ASSUME t = "stream" PROVE FALSE
    <3>1. at[c].stream \in 1 .. Len(Kind(c).steps) /\ Kind(c).steps[at[c].stream] \in {"tls", "auth"}
      BY <1>2, <2>1, Zenon
    <3>2. at[c].stream \in 4 .. 5
      BY <1>1, <3>1, Zenon
    <3>3. /\ 6 = Len(Kind(c).steps) => at[c].stream \in {0, Len(Kind(c).steps)}
          /\ 6 < Len(Kind(c).steps) /\ at[c].stream # 0 => at[c].stream > 6
          /\ Len(Kind(c).steps) \in Nat /\ 6 <= Len(Kind(c).steps)
      BY <1>1, <1>3, <1>4, Zenon DEF Fits
    <3>4. ASSUME NEW n \in Nat, NEW i \in 4 .. 5, 6 <= n, 6 = n => i \in {0, n},
                 6 < n /\ i # 0 => i > 6
          PROVE  FALSE
      BY <3>4
    <3> QED
      BY <3>2, <3>3, <3>4, ZenonT(30)
  <2> QED
    BY <2>1, Zenon DEF Tasks
<1>6. at[c].handler \in 1 .. Kind(c).own /\ at[c].handler \in 4 .. 5
  <2>1. at[c].handler \in 1 .. Kind(c).own /\ Kind(c).steps[at[c].handler] \in {"tls", "auth"}
    BY <1>2, <1>5, Zenon
  <2>2. ASSUME NEW own \in Nat, NEW n \in Nat, own <= n, NEW i \in 1 .. own PROVE i \in 1 .. n
    BY <2>2
  <2>3. at[c].handler \in 1 .. Len(Kind(c).steps)
    BY <1>3, <1>4, <2>1, <2>2, ZenonT(30)
  <2> QED
    BY <1>1, <2>1, <2>3, Zenon
<1>7. at[c].stream = 0
  BY <1>1, <1>3, <1>6, SMTT(30) DEF Fits
<1>8. authed[c] = FALSE
  <2>1. 5 \in at[c].handler .. Kind(c).own /\ at[c].handler # 0
    BY <1>1, <1>6
  <2> QED
    BY <1>1, <1>3, <2>1, ZenonT(30) DEF Charged
<1>9. Charged(Kind(c), "hysteria2", 0, 0, FALSE, "error")
  BY <1>1, <1>3, ChargedSilence, Zenon
<1>10. End(c, {"handler"}, "error", <<"auth", "failure">>)
  BY <1>5, Zenon DEF OverSaying
<1>11. Charged(Kind(c), setting.kind[c], IF "handler" \in {"handler"} THEN 0 ELSE at[c].handler,
               IF "stream" \in {"handler"} THEN 0 ELSE at[c].stream, authed[c], "error")
  BY <1>7, <1>8, <1>9, Zenon
<1>12. {"handler"} \in SUBSET Tasks /\ "error" \in Results
  BY Zenon DEF Tasks, Results
<1> QED
  BY <1>10, <1>11, <1>12, EndCharged, ZenonT(30)

LEMMA TimeoutCharged ==
  ASSUME GuardsInv, BlameInv, NEW c \in Live, NEW t \in Tasks, ReadTimesOut(c, t)
  PROVE  BlameInv'
<1>1. PICK busy \in cpu_timeout_backoff_active :
        OverSaying(c, t, "error",
                   IF StepOf(c, t) = "tls" /\ Said(c, "tls", "failure") # Nothing
                   THEN Said(c, "tls", "failure")
                   ELSE IF busy /\ setting.kind[c] = "hysteria2" THEN <<"auth", "failure">>
                   ELSE Nothing)
  BY Zenon DEF ReadTimesOut
<1>2. \/ OverSaying(c, t, "error", Said(c, "tls", "failure"))
      \/ OverSaying(c, t, "error", Nothing)
      \/ setting.kind[c] = "hysteria2" /\ OverSaying(c, t, "error", <<"auth", "failure">>)
  BY <1>1, Zenon
<1>3. CASE setting.kind[c] = "hysteria2" /\ OverSaying(c, t, "error", <<"auth", "failure">>)
  <2>1. StepOf(c, t) \in {"tls", "auth"}
    <3>1. Handlers["hysteria2"].timed = {"tls", "auth"}
      BY Zenon DEF Handlers, hysteria2, Multiplexed, Plain
    <3> QED
      BY <1>3, <3>1, Zenon DEF ReadTimesOut, Kind
  <2> QED
    BY <1>3, <2>1, SilenceCharged, Zenon
<1> QED
  BY <1>2, <1>3, FailsSaying, ZenonT(30)

LEMMA TaskCharged ==
  ASSUME GuardsInv, BlameInv, NEW c \in Live, NEW t \in Tasks, Step(c, t) \/ RelayEnds(c, t)
  PROVE  BlameInv'
<1>1. ASSUME NEW result \in Results \ {"auth", "user"}, Over(c, t, result) PROVE BlameInv'
  BY <1>1, FailsUncharged, ZenonT(30)
<1>2. {"ok", "error", "source", "device"} \subseteq Results \ {"auth", "user"}
  BY Zenon DEF Results, Refusals
<1>3. Kind(c).connects \cup Kind(c).relays \subseteq Results \ {"auth", "user"}
  <2>1. Accountable(Kind(c))
    BY LiveCharged, Zenon
  <2> QED
    BY <2>1, Zenon DEF Accountable, Results, Refusals
<1>4. ASSUME Advance(c, t), setting' = setting, UNCHANGED <<authed, blame>>,
             StepOf(c, t) \notin {"none", "serving", "closing", "failing"}
      PROVE  BlameInv'
  BY <1>4, AdvanceCharged, ZenonT(30)
<1>5. CASE t = "handler" /\ TakeSlot(c)
  BY <1>1, <1>2, <1>4, <1>5, Zenon DEF TakeSlot, others, known
<1>6. ASSUME NEW role \in {"auth", "tls"}, CheckBackoff(c, t, role) PROVE BlameInv'
  BY <1>1, <1>2, <1>4, <1>6, Zenon DEF CheckBackoff, known
<1>7. CASE CheckSource(c, t)
  BY <1>1, <1>2, <1>4, <1>7, Zenon DEF CheckSource, others, known
<1>8. CASE ReadSucceeds(c, t) \/ CredentialsRefused(c, t) \/ ReadTimesOut(c, t)
  BY <1>8, LoginCharged, RefusedCharged, TimeoutCharged, Zenon
<1>9. CASE ReadFails(c, t) \/ ReadEnds(c, t)
  BY <1>9, FailsSaying, Zenon DEF ReadFails, ReadEnds
<1>10. CASE LookUpUser(c, t)
  BY <1>1, <1>2, <1>4, <1>10, Zenon DEF LookUpUser, known
<1>11. CASE AcquireGuard(c, t)
  BY <1>1, <1>2, <1>4, <1>11, Zenon DEF AcquireGuard, known
<1>12. CASE LookForClose(c, t)
  BY <1>1, <1>2, <1>4, <1>12, Zenon DEF LookForClose, others, known
<1>13. CASE Connect(c, t)
  BY <1>1, <1>2, <1>3, <1>4, <1>13, Zenon DEF Connect, others, known
<1>14. CASE Associate(c, t)
  BY <1>14, AssociateCharged, Zenon
<1>15. CASE Answer(c, t)
  <2>1. CASE t = "handler" /\ Detach(c)
    <3>1. at[c].handler # 0
      BY <1>15, <2>1, Zenon DEF Answer, StepOf
    <3> QED
      BY <2>1, <3>1, DetachCharged, Zenon
  <2> QED
    BY <1>1, <1>2, <1>4, <1>15, <2>1, ZenonT(30) DEF Answer, others, known
<1>16. CASE RelayEnds(c, t)
  BY <1>1, <1>3, <1>16, Zenon DEF RelayEnds
<1> QED
  BY <1>5, <1>6, <1>7, <1>8, <1>9, <1>10, <1>11, <1>12, <1>13, <1>14, <1>15, <1>16, ZenonT(30)
     DEF Step

LEMMA BlameStep ==
  ASSUME GuardsInv, BlameInv, [HandlersNext]_handlers_vars PROVE BlameInv'
<1>1. CASE setting' = setting /\ UNCHANGED <<at, authed, blame>>
  BY <1>1, SameCharged, Zenon
<1>2. CASE Tick \/ UpdateUsers \/ UNCHANGED handlers_vars
  BY <1>1, <1>2, Zenon DEF Tick, UpdateUsers, handlers_vars, known
<1>3. ASSUME NEW c \in Live, FallSilent(c) \/ Leave(c) PROVE BlameInv'
  BY <1>1, <1>3, Zenon DEF FallSilent, Leave
<1> QED
  BY <1>2, <1>3, AcceptCharged, FallBackCharged, OpenStreamCharged, StopServingCharged, TaskCharged,
     ZenonT(30) DEF HandlersNext

LEMMA InitBlame == HandlersInit => BlameInv
<1> SUFFICES ASSUME HandlersInit PROVE BlameInv
  BY Zenon
<1>1. GuardsInv
  BY InitGuards, Zenon
<1>2. /\ at = [c \in Conns |-> Idle] /\ authed = [c \in Conns |-> FALSE]
      /\ blame = [c \in Conns |-> Absent]
  BY Zenon DEF HandlersInit
<1>3. blame \in [Conns -> Marks]
  BY <1>2, Zenon DEF Marks
<1>4. ASSUME NEW c \in Live PROVE ChargedAt(c, at[c], authed[c], blame[c])
  <2>1. c \in Conns /\ WellFormed(Kind(c), GuardAt(Kind(c)))
    BY <1>1, LiveShaped, Zenon
  <2>2. at[c] = Idle /\ authed[c] = FALSE /\ blame[c] = Absent
    BY <1>2, <2>1, Zenon
  <2>3. Charged(Kind(c), setting.kind[c], 1, 0, FALSE, Absent)
    <3>1. Kind(c).own \in Nat
      BY <2>1 DEF WellFormed, Shaped
    <3> QED
      BY <3>1, ChargedAccept, ZenonT(30)
  <2>4. Charged(Kind(c), setting.kind[c], 0, 0, FALSE, Absent)
    BY <2>1, <2>3, ChargedJump, ZenonT(30)
  <2>5. Idle.handler = 0 /\ Idle.stream = 0
    BY Zenon DEF Idle
  <2> QED
    BY <2>2, <2>4, <2>5, Zenon DEF ChargedAt
<1> QED
  BY <1>3, <1>4, Zenon DEF BlameInv

\* For any connections of any handlers, any settings, threshold and window: an address
\* is shut out for failures only, and what is counted is the client's doing, never a
\* full device limit, a source rule, a blocked target, a flow, or credentials that
\* were accepted (service.rs should_record_tcp_auth_failure).
THEOREM ShutOut == HandlersSpec => ShutOutForCause
<1>1. HandlersInit => GuardsInv /\ BlameInv
  BY InitGuards, InitBlame, Zenon
<1>2. GuardsInv /\ BlameInv /\ [HandlersNext]_handlers_vars => (GuardsInv /\ BlameInv)'
  BY GuardsStep, BlameStep, Zenon
<1>3. GuardsInv /\ BlameInv => NotBlamed
  <2> SUFFICES ASSUME GuardsInv, BlameInv, NEW c \in Live
               PROVE  /\ blame[c] \notin {"device", "source", "route", "wrapped", "flow"}
                      /\ blame[c] = "error" => setting.kind[c] = "hysteria2" /\ ~authed[c]
                      /\ authed[c] /\ Kind(c).records = "return" =>
                           blame[c] \in {Absent, "outbound", "name"}
    BY Zenon DEF NotBlamed
  <2> QED
    BY LiveCharged, Zenon DEF ChargedAt, Charged
<1> QED
  BY <1>1, <1>2, <1>3, EarnedBlock, PTL DEF HandlersSpec, ShutOutForCause
=============================================================================
