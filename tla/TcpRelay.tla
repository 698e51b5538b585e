------------------------------ MODULE TcpRelay ------------------------------
(***************************************************************************)
(* One relay between a client and a remote. The core has a loop of its own *)
(* for nearly every kind of stream; they share one shape, and differ in    *)
(* what they watch and in what ends what. A loop is a record here, and the *)
(* relay of a handler is the record of the loop it runs. A chunk is what   *)
(* one read returns.                                                       *)
(***************************************************************************)
EXTENDS Naturals, FiniteSets

CONSTANTS
  ConnectionIdle, UplinkOnly, DownlinkOnly,   \* the timeouts
  Drain,          \* vless_vision_drain_after_client_eof
  Window,         \* chunks a peer may be ahead
  None

ASSUME RelayAssumption ==
  /\ {ConnectionIdle, UplinkOnly, DownlinkOnly, Drain} \subseteq Nat
  /\ Window \in Nat \ {0}
  /\ None \notin Nat

Dir == {"up", "down"}
Side == {"client", "remote"}
From == [up |-> "client", down |-> "remote"]
To == [up |-> "remote", down |-> "client"]

-----------------------------------------------------------------------------
\* What a cause of an end in direction d ends: that direction, or both.
Causes == {"eof", "read", "limiter", "write"}
Own == [d \in Dir |-> {d}]
Both == [d \in Dir |-> Dir]

\* style      "poll": one thread tries both directions in turn; "select": one
\*            task takes whichever is ready; "copies": a task per direction
\* limiter    whether the relay may be given a limiter, or none
\* limits     the directions whose chunks pass the limiter
\* watch      a revoked limiter is looked for in every round
\* wakes      and ends a wait for data
\* ends       per cause: what it ends; errs: the causes the relay fails with
\* idle, half there is a timeout of silence, and of a half-closed relay
\* tells      the directions whose end is passed on to the peer
\* keeps      what is recorded when the relay fails: the traffic of "none", of
\*            its "own" direction, of "both"
\* counts     it records traffic at all
\* io_timeout a write has a timeout
\* registers  the sockets a revocation shuts
\* severs     <<cause, d, s>>: that end of direction d also ends side s
\* cancels    an upload that is blocked gives up when the client has closed
\* first      there is a payload to be sent before the loop
\* direct     the vision flow, which may end in a relay of the raw sockets
Poll ==
  [style |-> "poll", limiter |-> BOOLEAN, limits |-> Dir, watch |-> TRUE, wakes |-> FALSE,
   ends |-> [eof |-> Own, read |-> Both, limiter |-> Both, write |-> Both],
   errs |-> {"write"}, idle |-> TRUE, half |-> TRUE, tells |-> {"up"},
   keeps |-> "none", counts |-> TRUE, io_timeout |-> FALSE, registers |-> {},
   severs |-> {}, cancels |-> FALSE, first |-> FALSE, direct |-> FALSE]

relay_tls_stream_with_timeouts ==
  [Poll EXCEPT !.ends.limiter = [up |-> {"up"}, down |-> Dir]]

relay_websocket_tls_stream_stats ==
  [Poll EXCEPT !.watch = FALSE, !.limits = {"up"}]

vless_relay_plain_websocket ==
  [Poll EXCEPT !.watch = FALSE, !.limits = {"up"}, !.keeps = "both", !.registers = {"client"}]

trojan_relay_plain_websocket ==
  [Poll EXCEPT !.watch = FALSE, !.limits = {"up"}, !.keeps = "both", !.registers = {"client"}]

\* A body's last chunk tells the client of the end.
vmess_relay_single_io ==
  [Poll EXCEPT !.watch = FALSE, !.limits = {"up"}, !.idle = FALSE, !.half = FALSE,
               !.tells = Dir, !.ends = [eof |-> Own, read |-> Own, limiter |-> Own, write |-> Both]]

\* The bridges of the outbounds: between the plain socket that a handler
\* relays and a stream to the outbound's server.
Bridge ==
  [Poll EXCEPT !.limiter = {FALSE}, !.watch = FALSE, !.idle = FALSE, !.half = FALSE,
               !.tells = Dir, !.counts = FALSE, !.ends.read = Own]

vless_relay_plain_to_tls == Bridge
vless_relay_plain_to_grpc == Bridge
trojan_relay_plain_to_tls == Bridge
trojan_relay_plain_to_grpc == Bridge
\* These only flush the stream at the end of the uploads.
vless_relay_plain_to_websocket == [Bridge EXCEPT !.tells = {"down"}]
trojan_relay_plain_to_websocket == [Bridge EXCEPT !.tells = {"down"}]
relay_plain_to_http2 == [Bridge EXCEPT !.tells = {"down"}]

relay_websocket_async_stream_stats ==
  [Poll EXCEPT !.style = "select", !.limits = {"up"}]

relay_tcp_streams_async_with_label ==
  [Poll EXCEPT !.style = "select", !.watch = FALSE, !.wakes = TRUE, !.errs = {"read", "write"},
               !.idle = FALSE, !.tells = Dir, !.keeps = "both", !.io_timeout = TRUE]

relay_tls_vision_stream_inner ==
  [Poll EXCEPT !.idle = FALSE, !.direct = TRUE, !.cancels = TRUE,
               !.ends.eof = [up |-> {"up"}, down |-> Dir],
               !.ends.read = [up |-> {"up"}, down |-> Dir]]

relay_tls_vision_stream_async ==
  [relay_tls_vision_stream_inner EXCEPT !.style = "select", !.io_timeout = TRUE,
                                        !.cancels = FALSE]

relay_tcp_bidirectional_async ==
  [Poll EXCEPT !.style = "copies", !.wakes = TRUE, !.idle = FALSE, !.tells = Dir, !.errs = {},
               !.ends = [eof |-> Own, read |-> Own, limiter |-> Own, write |-> Own]]

\* close_peer_on_eof: the first direction that is finished ends the relay.
ClosingOnEof ==
  [relay_tcp_bidirectional_async EXCEPT
     !.ends = [eof |-> Both, read |-> Both, limiter |-> Both, write |-> Both]]

\* Two threads of copy_count_best_effort_limited, joined.
copy_count_best_effort_limited ==
  [relay_tcp_bidirectional_async EXCEPT !.watch = FALSE, !.wakes = FALSE, !.half = FALSE,
                                        !.tells = {"up"}]

\* A task per direction, joined until one fails. The end of the downloads shuts
\* the socket of the remote, and so does a limiter that refuses.
hysteria2_relay_streams ==
  [relay_tcp_bidirectional_async EXCEPT
     !.limiter = {TRUE}, !.watch = FALSE, !.half = FALSE, !.errs = {"read", "write"}, !.keeps = "own",
     !.severs = {<<"eof", "down", "remote">>, <<"limiter", "up", "remote">>, <<"limiter", "down", "remote">>}]

relay_streams_unlimited ==
  [hysteria2_relay_streams EXCEPT !.limiter = {FALSE}, !.io_timeout = TRUE]

tuic_relay_streams ==
  [relay_tcp_bidirectional_async EXCEPT
     !.watch = FALSE, !.half = FALSE, !.errs = {"read", "write"}]

\* The end of the downloads stops the uploads, which read from a queue.
relay_mieru_streams ==
  [copy_count_best_effort_limited EXCEPT
     !.tells = Dir, !.first = TRUE, !.severs = {<<c, "down", "client">> : c \in Causes}]

-----------------------------------------------------------------------------
\* The relays of the handlers.
Registered(l, sides) == [l EXCEPT !.registers = sides]
Unlimited(l) == [l EXCEPT !.limiter = {FALSE}]
Limited(l) == [l EXCEPT !.limiter = {TRUE}]

socks5_relay == Registered(relay_tcp_bidirectional_async, {"client"})
http_proxy_handle_connect == Registered(relay_tcp_bidirectional_async, {"client"})
trojan_relay == Registered(relay_tcp_bidirectional_async, {"client"})
trojan_relay_websocket == Registered(copy_count_best_effort_limited, {"remote"})
trojan_relay_tls == relay_tls_stream_with_timeouts
trojan_relay_tls_websocket == [relay_websocket_tls_stream_stats EXCEPT !.first = TRUE]
trojan_relay_tls_websocket_async == [relay_websocket_async_stream_stats EXCEPT !.first = TRUE]
naive_relay == Registered(copy_count_best_effort_limited, {"remote"})
shadowsocks_relay ==
  [Registered(copy_count_best_effort_limited, {"client"}) EXCEPT !.first = TRUE]
relay_plain_to_shadowsocks ==
  [Unlimited(copy_count_best_effort_limited) EXCEPT !.tells = {"down"}, !.counts = FALSE]
vmess_relay_split_io ==
  {Registered([copy_count_best_effort_limited EXCEPT !.tells = Dir], r) : r \in {{}, {"client"}}}
vless_relay ==
  {Registered(copy_count_best_effort_limited, {"client"}),
   Limited(Registered(relay_tcp_bidirectional_async, {"client"})),
   Unlimited(Registered(ClosingOnEof, {"client"}))}
vless_relay_async == Registered(relay_tcp_streams_async_with_label, {"client"})
vless_relay_websocket ==
  {copy_count_best_effort_limited,
   [Registered(copy_count_best_effort_limited, {"remote"}) EXCEPT !.severs = {<<c, "up", "remote">> : c \in Causes}]}
vless_relay_tls_async == Registered(relay_tls_vision_stream_async, {"client"})
vless_relay_tls == {relay_tls_stream_with_timeouts, relay_tls_vision_stream_inner}
vless_relay_tls_websocket == relay_websocket_tls_stream_stats
vless_relay_tls_websocket_async == relay_websocket_async_stream_stats
\* The TLS in front of the protocols that have none of their own.
local_bridge_for_tls ==
  [Unlimited(relay_tls_stream_with_timeouts) EXCEPT !.counts = FALSE]

Relays ==
  {socks5_relay, http_proxy_handle_connect, trojan_relay, trojan_relay_websocket,
   trojan_relay_plain_websocket, trojan_relay_tls, trojan_relay_tls_websocket,
   trojan_relay_tls_websocket_async, naive_relay, shadowsocks_relay,
   relay_plain_to_shadowsocks, vless_relay_async, vless_relay_plain_websocket,
   vless_relay_tls_websocket, vless_relay_tls_websocket_async, vless_relay_tls_async,
   hysteria2_relay_streams, relay_streams_unlimited, tuic_relay_streams, relay_mieru_streams,
   vmess_relay_single_io, local_bridge_for_tls,
   vless_relay_plain_to_tls, vless_relay_plain_to_grpc, trojan_relay_plain_to_tls,
   trojan_relay_plain_to_grpc, vless_relay_plain_to_websocket,
   trojan_relay_plain_to_websocket, relay_plain_to_http2}
    \cup vless_relay \cup vless_relay_websocket \cup vless_relay_tls \cup vmess_relay_split_io

\* What the vision flow hands the raw sockets to.
raw_relay(l) ==
  IF l.style = "poll" THEN ClosingOnEof ELSE vless_relay_async

-----------------------------------------------------------------------------
VARIABLES
  loop,           \* the relay's record
  limited,        \* it has a limiter
  revoked,        \* the user has been revoked
  peer,           \* of a side: "open", "eof", "reset"; "cut" by a shutdown
  inbox,          \* of a direction: chunks that can be read
  at,             \* "first", "top", "up", "down", "select", "wait", "run", "over"
  done,           \* upload_done, download_done
  writing,        \* of a direction: a chunk is being written
  decoding,       \* a chunk of uploads is in the vision decoder
  direct,         \* uplink_direct, downlink_direct
  shut,           \* of a side: no more is written to it
  quiet,          \* time since idle_since
  half,           \* time since one_side_finished_since
  progressed,
  unrecorded,     \* of a direction: forwarded chunks are not recorded yet
  lost,           \* a chunk was read and not forwarded
  timed_out,
  result          \* "none", "ok", "err"

relay == <<loop, limited>>
book == <<unrecorded, lost, timed_out, result>>
time == <<quiet, half>>
vars == <<relay, revoked, peer, inbox, at, done, writing, decoding, direct, shut, time,
          progressed, book>>

Begin(l) == IF l.style = "copies" THEN "run" ELSE "top"

Init ==
  /\ \E l \in Relays, given \in BOOLEAN :
       given \in l.limiter /\ limited = given /\ loop = [l EXCEPT !.limiter = {given}]
  /\ revoked = FALSE
  /\ peer = [s \in Side |-> "open"]
  /\ inbox = [d \in Dir |-> 0]
  /\ at = IF loop.first THEN "first" ELSE Begin(loop)
  /\ done = [d \in Dir |-> FALSE]
  /\ writing = [d \in Dir |-> FALSE]
  /\ decoding = FALSE
  /\ direct = [d \in Dir |-> FALSE]
  /\ shut = [s \in Side |-> FALSE]
  /\ quiet = 0
  /\ half = None
  /\ progressed = FALSE
  /\ unrecorded = [d \in Dir |-> FALSE]
  /\ lost = FALSE
  /\ timed_out = FALSE
  /\ result = "none"

-----------------------------------------------------------------------------
\* The peers, the revocation of the user, and time, while there is a relay.
Send(d) ==
  /\ at # "over"
  /\ peer[From[d]] = "open"
  /\ inbox[d] < Window
  /\ inbox' = [inbox EXCEPT ![d] = @ + 1]
  /\ UNCHANGED <<relay, revoked, peer, at, done, writing, decoding, direct, shut, time,
                 progressed, book>>

\* A side that has sent its last may be gone or may still read.
Leave(s) ==
  /\ at # "over"
  /\ \/ peer[s] = "open" /\ peer' = [peer EXCEPT ![s] = "eof"]
     \/ peer[s] \in {"open", "eof"} /\ peer' = [peer EXCEPT ![s] = "reset"]
  /\ UNCHANGED <<relay, revoked, inbox, at, done, writing, decoding, direct, shut, time,
                 progressed, book>>

\* It only matters to a relay that it can reach.
Revoke ==
  /\ at # "over"
  /\ ~revoked
  /\ limited \/ loop.registers # {}
  /\ revoked' = TRUE
  /\ UNCHANGED <<relay, peer, inbox, at, done, writing, decoding, direct, shut, time,
                 progressed, book>>

ShutSocket(s) ==
  /\ at # "over"
  /\ revoked
  /\ s \in loop.registers
  /\ peer[s] # "cut"
  /\ peer' = [peer EXCEPT ![s] = "cut"]
  /\ UNCHANGED <<relay, revoked, inbox, at, done, writing, decoding, direct, shut, time,
                 progressed, book>>

Longest == CHOOSE n \in {ConnectionIdle, UplinkOnly, DownlinkOnly, Drain} :
             \A m \in {ConnectionIdle, UplinkOnly, DownlinkOnly, Drain} : m <= n
Later(t) == IF t < Longest THEN t + 1 ELSE t

Tick ==
  /\ at # "over"
  /\ quiet' = IF loop.idle THEN Later(quiet) ELSE quiet
  /\ half' = IF loop.half /\ half # None THEN Later(half) ELSE half
  /\ UNCHANGED <<relay, revoked, peer, inbox, at, done, writing, decoding, direct, shut,
                 progressed, book>>

-----------------------------------------------------------------------------
\* RelayActivityDeadline, and the timers of the loops without one.
OneSided == done["up"] # done["down"]

idle_limit ==
  IF ~OneSided THEN ConnectionIdle
  ELSE IF loop.direct THEN Drain
  ELSE IF done["up"] THEN DownlinkOnly ELSE UplinkOnly

get_or_insert == IF half = None THEN 0 ELSE half

elapsed == IF OneSided THEN get_or_insert ELSE quiet

Expired ==
  IF OneSided THEN loop.half /\ elapsed >= idle_limit
  ELSE loop.idle /\ elapsed >= idle_limit

\* Mutant: data in the open direction restarts the timeout.
restart_on_progress ==
  IF OneSided THEN half' = 0 /\ UNCHANGED quiet ELSE quiet' = 0 /\ half' = None

note_progress ==
  IF OneSided THEN half' = get_or_insert /\ UNCHANGED quiet ELSE quiet' = 0 /\ half' = None

Refused == limited /\ revoked

\* The relay is over: its sockets are closed and, unless it fails and forgets
\* them, the bytes of both directions are recorded.
\* Mutant: a relay that fails records nothing.
ForgetWhenFailed(how, d) == IF how = "ok" THEN [e \in Dir |-> FALSE] ELSE unrecorded

Record(how, d) ==
  [e \in Dir |-> unrecorded[e] /\ how = "err" /\ loop.keeps # "both" /\ ~(loop.keeps = "own" /\ e = d)]

Finish(how, d) ==
  /\ at' = "over"
  /\ result' = how
  /\ lost' = (lost \/ decoding \/ \E e \in Dir : writing[e])
  /\ writing' = [e \in Dir |-> FALSE]
  /\ decoding' = FALSE
  /\ shut' = [s \in Side |-> TRUE]
  /\ unrecorded' = Record(how, d)
  /\ UNCHANGED <<done, time>>

Tell(d) == [shut EXCEPT ![To[d]] = @ \/ d \in loop.tells]

\* Mutant: either end of file ends both directions.
EndsBoth(cause, d) == Dir

Ended(cause, d) == loop.ends[cause][d]

End(cause, d, dropped) ==
  LET ended == Ended(cause, d)
  IN  /\ done' = [e \in Dir |-> done[e] \/ e \in ended]
      /\ shut' = IF ended = Dir THEN [s \in Side |-> TRUE] ELSE Tell(d)
      /\ lost' = (lost \/ dropped \/ \E e \in ended \ {d} : writing[e])
      /\ writing' = [e \in Dir |-> writing[e] /\ e \notin ended]
      /\ half' = IF loop.idle \/ half # None THEN half ELSE 0
      /\ peer' = [s \in Side |-> IF /\ ended = Dir \/ <<cause, d, s>> \in loop.severs
                                   /\ peer[s] # "reset"
                                THEN "cut" ELSE peer[s]]
      /\ UNCHANGED <<quiet, unrecorded, result>>

-----------------------------------------------------------------------------
\* The payload that came with the request.
FirstPayload ==
  /\ at = "first"
  /\ ~writing["up"]
  /\ \/ Refused /\ Finish("ok", "up")
     \/ /\ ~Refused
        /\ writing' = [writing EXCEPT !["up"] = TRUE]
        /\ UNCHANGED <<at, done, decoding, shut, time, unrecorded, lost, result>>
  /\ UNCHANGED <<relay, revoked, peer, inbox, direct, progressed, timed_out>>

\* A round of a poll or select loop: what is looked at before the streams.
AllDone == done["up"] /\ done["down"]

SeesRevoked == loop.watch /\ Refused

CanSwitch == loop.direct /\ direct["up"] /\ direct["down"] /\ ~decoding
PollsVision == loop.direct /\ loop.style = "poll"

Top ==
  /\ at = "top"
  /\ \/ (AllDone \/ SeesRevoked) /\ Finish("ok", "up")
     \/ /\ ~AllDone /\ ~SeesRevoked
        /\ PollsVision \/ (~decoding /\ ~CanSwitch /\ ~Expired)
        /\ at' = IF loop.style = "poll" THEN "up" ELSE "select"
        /\ half' = IF loop.idle /\ OneSided THEN get_or_insert ELSE half
        /\ UNCHANGED <<done, writing, decoding, shut, quiet, unrecorded, lost, result>>
  /\ progressed' = FALSE
  /\ UNCHANGED <<relay, revoked, peer, inbox, direct, timed_out>>

TimeOut ==
  /\ \/ at = "top" /\ ~AllDone /\ ~SeesRevoked /\ ~PollsVision /\ ~decoding /\ ~CanSwitch
     \/ at = "wait" /\ loop.style = "poll" /\ (loop.idle => ~progressed)
     \/ at = "select"
     \/ at = "run" /\ ~AllDone
  /\ Expired
  /\ Finish("ok", "up")
  /\ timed_out' = TRUE
  /\ UNCHANGED <<relay, revoked, peer, inbox, direct, progressed>>

\* The end of a round. The others wait for data, for a bounded time.
Wait ==
  /\ at = "wait"
  /\ loop.style = "poll" => ~Expired \/ (loop.idle /\ progressed)
  /\ ~(PollsVision /\ CanSwitch)
  /\ IF loop.idle /\ progressed THEN note_progress ELSE UNCHANGED time
  /\ at' = "top"
  /\ UNCHANGED <<relay, revoked, peer, inbox, done, writing, decoding, direct, shut,
                 progressed, book>>

\* Both directions of a vision flow are past their padding: the sockets go to
\* a new relay, and what was forwarded so far is recorded.
Switch ==
  /\ CanSwitch
  /\ \/ at = "wait" /\ PollsVision /\ ~Expired
     \/ at = "top" /\ ~PollsVision /\ ~AllDone /\ ~SeesRevoked
  /\ loop' = [raw_relay(loop) EXCEPT !.limiter = {limited}]
  /\ at' = Begin(raw_relay(loop))
  /\ done' = [d \in Dir |-> FALSE]
  /\ direct' = [d \in Dir |-> FALSE]
  /\ quiet' = 0
  /\ half' = None
  /\ unrecorded' = [d \in Dir |-> FALSE]
  /\ UNCHANGED <<limited, revoked, peer, inbox, writing, decoding, shut, progressed, lost,
                 timed_out, result>>

-----------------------------------------------------------------------------
\* Reads.
Turn(d) ==
  /\ ~done[d] /\ ~writing[d]
  /\ \/ loop.style = "poll" /\ at = d
     \/ loop.style = "select" /\ at = "select"
     \/ loop.style = "copies" /\ at = "run"

After(d) ==
  IF loop.style = "copies" THEN "run"
  ELSE IF loop.style = "poll" /\ d = "up" THEN "down" ELSE "wait"

\* A chunk in hand passes the limiter, and is written.
Forward(d) ==
  \/ /\ d \in loop.limits /\ Refused
     /\ End("limiter", d, TRUE)
     /\ at' = Begin(loop)
     /\ UNCHANGED progressed
  \/ /\ ~(d \in loop.limits /\ Refused)
     /\ writing' = [writing EXCEPT ![d] = TRUE]
     /\ at' = IF loop.style = "copies" THEN "run" ELSE d
     /\ UNCHANGED <<peer, done, shut, time, progressed, unrecorded, lost, result>>

ReadChunk(d) ==
  /\ Turn(d)
  /\ inbox[d] > 0
  /\ d = "up" => ~decoding
  /\ inbox' = [inbox EXCEPT ![d] = @ - 1]
  /\ \/ /\ loop.direct /\ d = "up" /\ ~direct["up"]
        /\ decoding' = TRUE
        /\ at' = After(d)
        /\ progressed' = TRUE
        /\ UNCHANGED <<peer, done, writing, shut, time, unrecorded, lost, result>>
     \/ /\ ~(loop.direct /\ d = "up" /\ ~direct["up"])
        /\ Forward(d)
        /\ UNCHANGED decoding
  /\ UNCHANGED <<relay, revoked, direct, timed_out>>

\* read_decoded, in the next round.
Decode ==
  /\ decoding
  /\ ~done["up"] /\ ~writing["up"]
  /\ \/ PollsVision /\ at = "up"
     \/ ~PollsVision /\ at = "top" /\ ~SeesRevoked
  /\ decoding' = FALSE
  /\ Forward("up")
  /\ UNCHANGED <<relay, revoked, inbox, direct, timed_out>>

ReadEof(d) ==
  /\ Turn(d)
  /\ inbox[d] = 0 /\ peer[From[d]] \in {"eof", "cut"}
  /\ d = "up" => ~decoding
  /\ End("eof", d, FALSE)
  /\ at' = After(d)
  /\ progressed' = TRUE
  /\ UNCHANGED <<relay, revoked, inbox, decoding, direct, timed_out>>

ReadError(d) ==
  /\ Turn(d)
  /\ inbox[d] = 0 /\ peer[From[d]] = "reset"
  /\ d = "up" => ~decoding
  /\ \/ "read" \in loop.errs /\ Finish("err", d) /\ UNCHANGED peer
     \/ "read" \notin loop.errs /\ End("read", d, FALSE) /\ at' = After(d) /\ UNCHANGED decoding
  /\ progressed' = TRUE
  /\ UNCHANGED <<relay, revoked, inbox, direct, timed_out>>

\* WouldBlock, or the direction is done.
Nothing(d) ==
  /\ loop.style = "poll" /\ at = d
  /\ ~writing[d]
  /\ \/ done[d]
     \/ inbox[d] = 0 /\ peer[From[d]] = "open" /\ (d = "up" => ~decoding)
  /\ at' = After(d)
  /\ UNCHANGED <<relay, revoked, peer, inbox, done, writing, decoding, direct, shut, time,
                 progressed, book>>

\* A wait for data that a revocation ends.
WokenByRevoke(d) ==
  /\ loop.wakes /\ Refused
  /\ Turn(d)
  /\ \/ loop.style = "select" /\ Finish("ok", "up") /\ UNCHANGED peer
     \/ loop.style = "copies" /\ End("limiter", d, FALSE) /\ UNCHANGED <<at, decoding>>
  /\ UNCHANGED <<relay, revoked, inbox, direct, progressed, timed_out>>

\* Both tasks of the copies are finished, or the first one was enough.
Joined ==
  /\ at = "run"
  /\ AllDone
  /\ Finish("ok", "up")
  /\ UNCHANGED <<relay, revoked, peer, inbox, direct, progressed, timed_out>>

-----------------------------------------------------------------------------
\* Writes. traffic_flush_callback records once enough has come together.
Flushes == loop.style # "poll" /\ loop.keeps # "none"

WriteOk(d) ==
  /\ writing[d]
  /\ peer[To[d]] \in {"open", "eof"}
  /\ writing' = [writing EXCEPT ![d] = FALSE]
  /\ \E kept \in IF Flushes THEN BOOLEAN ELSE {loop.counts} :
       unrecorded' = [unrecorded EXCEPT ![d] = kept]
  /\ \E found \in IF loop.direct THEN BOOLEAN ELSE {FALSE} :
       direct' = [direct EXCEPT ![d] = @ \/ found]
  /\ at' = IF at = "first" THEN Begin(loop) ELSE After(d)
  /\ progressed' = TRUE
  /\ UNCHANGED <<relay, revoked, peer, inbox, done, decoding, shut, time, lost, timed_out,
                 result>>

\* The peer is gone, the write took too long, or the client is seen to be gone.
WriteFails(d) ==
  /\ writing[d]
  /\ \/ peer[To[d]] \in {"reset", "cut"}
     \/ loop.io_timeout
     \/ loop.cancels /\ d = "up" /\ peer["client"] # "open"
  /\ \/ ("write" \in loop.errs \/ at = "first") /\ Finish("err", d) /\ UNCHANGED peer
     \/ /\ ~("write" \in loop.errs \/ at = "first")
        /\ End("write", d, TRUE)
        /\ at' = After(d)
        /\ UNCHANGED decoding
  /\ UNCHANGED <<relay, revoked, inbox, direct, progressed, timed_out>>

-----------------------------------------------------------------------------
Environment ==
  \/ \E d \in Dir : Send(d)
  \/ \E s \in Side : Leave(s) \/ ShutSocket(s)
  \/ Revoke
  \/ Tick

Round == FirstPayload \/ Top \/ TimeOut \/ Wait \/ Switch \/ Decode \/ Joined
Read(d) == ReadChunk(d) \/ ReadEof(d) \/ ReadError(d) \/ Nothing(d) \/ WokenByRevoke(d)

Next ==
  \/ Environment
  \/ Round
  \/ \E d \in Dir : Read(d) \/ WriteOk(d) \/ WriteFails(d)

Spec == Init /\ [][Next]_vars

\* Threads and tasks run, time passes, a revocation shuts the sockets, and a
\* select does not pass over a ready branch forever (its order is random). That a
\* write gets through is up to the peer: nothing is assumed of it.
Fairness ==
  /\ WF_vars(Round)
  /\ \A d \in Dir : SF_vars(Read(d)) /\ WF_vars(WriteFails(d))
  /\ \A s \in Side : WF_vars(ShutSocket(s))
  /\ WF_vars(Tick)

FairSpec == Spec /\ Fairness

-----------------------------------------------------------------------------
Ends == [Dir -> SUBSET Dir]

Loop ==
  [style : {"poll", "select", "copies"}, limiter : SUBSET BOOLEAN, limits : SUBSET Dir,
   watch : BOOLEAN, wakes : BOOLEAN,
   ends : [eof : Ends, read : Ends, limiter : Ends, write : Ends],
   errs : SUBSET Causes, idle : BOOLEAN, half : BOOLEAN, tells : SUBSET Dir,
   keeps : {"none", "own", "both"}, counts : BOOLEAN, io_timeout : BOOLEAN,
   registers : SUBSET Side, severs : SUBSET (Causes \X Dir \X Side), cancels : BOOLEAN,
   first : BOOLEAN, direct : BOOLEAN]

\* The variables hold values of their types, whichever loop a handler runs and
\* whichever it goes on with (the loops of stream.rs, tls.rs and the protocols).
TypeOK ==
  /\ loop \in Loop
  /\ limited \in BOOLEAN /\ revoked \in BOOLEAN
  /\ peer \in [Side -> {"open", "eof", "reset", "cut"}]
  /\ inbox \in [Dir -> 0..Window]
  /\ at \in {"first", "top", "up", "down", "select", "wait", "run", "over"}
  /\ done \in [Dir -> BOOLEAN] /\ writing \in [Dir -> BOOLEAN]
  /\ decoding \in BOOLEAN
  /\ direct \in [Dir -> BOOLEAN]
  /\ shut \in [Side -> BOOLEAN]
  /\ quiet \in Nat /\ half \in Nat \cup {None}
  /\ progressed \in BOOLEAN
  /\ unrecorded \in [Dir -> BOOLEAN]
  /\ lost \in BOOLEAN /\ timed_out \in BOOLEAN
  /\ result \in {"none", "ok", "err"}

Over == at = "over"
Writing == \E d \in Dir : writing[d]

\* Every chunk that was forwarded is recorded when the relay is over: always if
\* it ends well, however it ends (end of file, timeout, revocation, a direction
\* that was cut short), and for the loops that record on errors after those too.
RecordedWhenOver ==
  Over /\ (result = "ok" \/ loop.keeps = "both") => \A d \in Dir : ~unrecorded[d]

Undisturbed == ~revoked /\ ~timed_out /\ \A s \in Side : peer[s] # "reset"
ClosesEarly == loop.direct \/ loop.severs # {} \/ loop.ends.eof = Both

\* A relay that nothing disturbed (no revocation, no reset, no timeout) is over
\* only after both peers have sent their last, and everything they sent has been
\* forwarded (the copy loops of stream.rs, tls.rs, websocket.rs, vless.rs and the
\* others). The loops that close on the first end of file do not promise it.
WholeIfUndisturbed ==
  Over /\ result = "ok" /\ Undisturbed /\ ~ClosesEarly =>
    /\ ~lost
    /\ \A s \in Side : peer[s] = "eof"
    /\ \A d \in Dir : inbox[d] = 0

\* A half-closed relay ends in bounded time however much still comes from the
\* other side, in every loop that has the timeouts. A loop may be stuck in a
\* write; copies are given up even then.
HalfCloseEnds ==
  [](loop.half /\ OneSided => <>(Over \/ (loop.style # "copies" /\ []Writing)))

\* A relay with an idle timeout is not kept by silence: as long as it is there,
\* it forwards something again and again.
SilenceEnds ==
  []<>(loop.idle => Over \/ Writing)

\* A loop may look for the revocation, or see it as the end of its client.
RevocationReaches ==
  \/ limited /\ (loop.watch \/ loop.wakes)
  \/ "client" \in loop.registers /\ loop.half

\* A revoked user's relay ends, whatever the peers do, if its loop looks for
\* the revocation, or its client's socket is shut and a half-closed relay ends;
\* unless it is stuck in a write.
RevokedEnds ==
  [](revoked /\ RevocationReaches => <>(Over \/ []Writing))

\* No relay outlives what should end it: a half-close, silence, or the revocation
\* of its user (the loops of stream.rs, tls.rs, websocket.rs, vless.rs, trojan.rs,
\* vmess.rs, hysteria2.rs 1739-1942, tuic.rs 1053-1120, mieru.rs 1794-1838).
RelaysEnd == HalfCloseEnds /\ SilenceEnds /\ RevokedEnds

=============================================================================
