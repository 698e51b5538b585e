------------------------------ MODULE StreamUdp ------------------------------
(***************************************************************************)
(* UDP carried inside a client's stream: Trojan, VLESS, VMess, AnyTLS and  *)
(* Mieru read packets from the stream, SOCKS5 from a socket that lives as  *)
(* long as its control connection. Each relay sends a packet on and either *)
(* waits for one answer before it reads the next, or polls for answers     *)
(* beside reading. Trojan over a plain WebSocket has a thread for each     *)
(* direction. What crossed is counted, and recorded when the relay ends.   *)
(***************************************************************************)
EXTENDS Naturals

CONSTANT MaxPackets  \* a client sends

VARIABLES
  relay,      \* one of Relays
  client,     \* "open" or "gone"
  incoming,   \* packets sent and not yet read
  left,       \* packets the client may still send
  revoked,    \* the limiter of the user refuses
  up,         \* the thread that reads: "read", "wait", "write", "over", "died"
  down,       \* the thread that polls: "none", "poll", "join", "over"
  stop,       \* asks the polling thread to end
  replies,    \* answers in the socket
  unanswered, \* packets the socket may still be sent an answer to
  counted, crossed, recorded, ending

vars == <<relay, client, incoming, left, revoked, up, down, stop, replies, unanswered,
          counted, crossed, recorded, ending>>

-----------------------------------------------------------------------------
(* The sockets of a relay: one of each address family, bound when first    *)
(* needed and kept (Mieru: bound for the packet), let go of when idle or   *)
(* not, and asked for an answer that is awaited or only for one available. *)
Sockets(kept, released, awaited) == [kept |-> kept, released |-> released, awaited |-> awaited]

TrojanUdpRelayState == Sockets(TRUE, FALSE, TRUE)
NonblockingTrojanUdpRelayState == Sockets(TRUE, TRUE, FALSE)
AsyncTrojanUdpRelayState == Sockets(TRUE, TRUE, FALSE)
VlessUdpRelayState == Sockets(TRUE, FALSE, TRUE)
AsyncVlessUdpRelayState == Sockets(TRUE, FALSE, TRUE)
VmessUdpRelayState == Sockets(TRUE, FALSE, TRUE)
AnyTlsUdpStream == Sockets(TRUE, FALSE, TRUE)
send_direct_mieru_udp == Sockets(FALSE, FALSE, TRUE)
Socks5UdpSocket == Sockets(TRUE, FALSE, FALSE)

(* A forwarder sends one packet on. It counts a packet sent or only one    *)
(* answered, and skips the packet of a revoked user or ends the relay.     *)
Forwards(sockets, counts, revoked_) == [sockets |-> sockets, counts |-> counts, revoked |-> revoked_]

trojan_forward_udp_packet == Forwards(TrojanUdpRelayState, "sent", "skip")
trojan_send_udp_packet == Forwards(NonblockingTrojanUdpRelayState, "sent", "skip")
trojan_send_udp_packet_async == Forwards(AsyncTrojanUdpRelayState, "sent", "skip")
vless_forward_udp_payload == Forwards(VlessUdpRelayState, "sent", "skip")
vless_forward_udp_payload_async == Forwards(AsyncVlessUdpRelayState, "sent", "skip")
vless_forward_udp_payload_async_websocket == Forwards(AsyncVlessUdpRelayState, "sent", "skip")
vmess_forward_udp_payload == Forwards(VmessUdpRelayState, "sent", "skip")
anytls_forward_udp_packet == Forwards(AnyTlsUdpStream, "sent", "skip")
mieru_send_udp == Forwards(send_direct_mieru_udp, "answered", "stop")
socks5_send_udp == Forwards(Socks5UdpSocket, "sent", "stop")

(* A relay names its forwarder, its threads, and the errors that end it    *)
(* without a record.                                                       *)
Relay(name, forward, threads, lost) ==
  [name |-> name, forward |-> forward, threads |-> threads, lost |-> lost]

trojan_relay_udp_stream == Relay("trojan", trojan_forward_udp_packet, 1, {})
trojan_relay_udp_split == Relay("trojan split", trojan_forward_udp_packet, 1, {})
trojan_relay_udp_plain_websocket == Relay("trojan ws", trojan_send_udp_packet, 2, {"recv"})
trojan_relay_udp_tls_websocket ==
  Relay("trojan wss", trojan_send_udp_packet, 1, {"parse", "recv", "write"})
trojan_relay_udp_tls_websocket_async ==
  Relay("trojan async wss", trojan_send_udp_packet_async, 1, {"parse", "recv", "write"})
vless_relay_udp_stream == Relay("vless", vless_forward_udp_payload, 1, {})
vless_relay_udp_split == Relay("vless split", vless_forward_udp_payload, 1, {})
vless_relay_udp_stream_async == Relay("vless async", vless_forward_udp_payload_async, 1, {})
vless_relay_udp_tls_websocket_async ==
  Relay("vless wss", vless_forward_udp_payload_async_websocket, 1, {})
vmess_relay_udp_split == Relay("vmess split", vmess_forward_udp_payload, 1, {"write"})
vmess_relay_udp_single == Relay("vmess", vmess_forward_udp_payload, 1, {"write"})
anytls_handle_udp_psh == Relay("anytls", anytls_forward_udp_packet, 1, {})
relay_mieru_udp_associate ==
  Relay("mieru", mieru_send_udp, 1, {"read", "parse", "send", "recv", "write"})
socks5_handle_udp_associate ==
  Relay("socks5", socks5_send_udp, 1, {"read", "parse", "send", "recv", "write"})

Relays ==
  {trojan_relay_udp_stream, trojan_relay_udp_split, trojan_relay_udp_plain_websocket,
   trojan_relay_udp_tls_websocket, trojan_relay_udp_tls_websocket_async, vless_relay_udp_stream,
   vless_relay_udp_split, vless_relay_udp_stream_async, vless_relay_udp_tls_websocket_async,
   vmess_relay_udp_split, vmess_relay_udp_single, anytls_handle_udp_psh,
   relay_mieru_udp_associate, socks5_handle_udp_associate}

Nothing == [up |-> 0, down |-> 0]
Plus(c, u, d) == [up |-> c.up + u, down |-> c.down + d]
Unrecorded == [up |-> MaxPackets + 1, down |-> MaxPackets + 1]  \* no record

Init ==
  /\ relay \in Relays
  /\ client = "open" /\ incoming = 0 /\ left = MaxPackets /\ revoked = FALSE
  /\ up = "read" /\ down = IF relay.threads = 2 THEN "poll" ELSE "none"
  /\ stop = FALSE
  /\ replies = 0 /\ unanswered = 0
  /\ counted = Nothing /\ crossed = Nothing /\ recorded = Unrecorded /\ ending = "none"

-----------------------------------------------------------------------------
(* The world around the relay.                                             *)
ClientSends ==
  /\ client = "open" /\ left > 0
  /\ incoming' = incoming + 1 /\ left' = left - 1
  /\ UNCHANGED <<relay, client, revoked, up, down, stop, replies, unanswered, counted, crossed, recorded, ending>>

ClientLeaves ==
  /\ client = "open"
  /\ client' = "gone"
  /\ UNCHANGED <<relay, incoming, left, revoked, up, down, stop, replies, unanswered, counted, crossed, recorded, ending>>

Revoke ==
  /\ ~revoked /\ client = "open"
  /\ revoked' = TRUE
  /\ UNCHANGED <<relay, client, incoming, left, up, down, stop, replies, unanswered, counted, crossed, recorded, ending>>

RemoteAnswers ==
  /\ unanswered > 0
  /\ unanswered' = unanswered - 1 /\ replies' = replies + 1
  /\ UNCHANGED <<relay, client, incoming, left, revoked, up, down, stop, counted, crossed, recorded, ending>>

-----------------------------------------------------------------------------
(* The thread that reads.                                                  *)

\* The end of the loop. A thread of its own only asks the other to stop, and
\* does not even do that when an answer cannot be written.
Ends(why) ==
  /\ up' = IF relay.threads = 2 /\ why = "write" THEN "died" ELSE "over"
  /\ ending' = IF ending = "none" THEN why ELSE ending
  /\ IF relay.threads = 2 THEN stop' = (why # "write" \/ stop) /\ recorded' = recorded
     ELSE stop' = stop /\ recorded' = IF why \in relay.lost THEN Unrecorded ELSE counted

Ended(why) == Ends(why) /\ UNCHANGED <<relay, client, left, revoked, down, replies, unanswered, counted>>

\* The stream is closed, or shut down by the polling thread; a read may also fail.
StreamEnds ==
  /\ up = "read"
  /\ (client = "gone" /\ incoming = 0) \/ down = "join"
  /\ \E why \in {"closed", "read"} : Ended(why)
  /\ UNCHANGED <<incoming, crossed>>

Parses ==
  /\ up = "read" /\ incoming > 0
  /\ incoming' = incoming - 1
  /\ Ended("parse")
  /\ UNCHANGED crossed

\* A route blocks the packet, or the limiter refuses it.
Skips ==
  /\ up = "read" /\ incoming > 0
  /\ incoming' = incoming - 1
  /\ UNCHANGED <<relay, client, left, revoked, up, down, stop, replies, unanswered, counted, crossed, recorded, ending>>

Refused ==
  /\ up = "read" /\ incoming > 0 /\ revoked /\ relay.forward.revoked = "stop"
  /\ incoming' = incoming - 1
  /\ Ended("revoked")
  /\ UNCHANGED crossed

\* Resolving, binding, sending or the outbound fails.
SendFails ==
  /\ up = "read" /\ incoming > 0
  /\ incoming' = incoming - 1
  /\ Ended("send")
  /\ UNCHANGED crossed

\* A packet goes out, directly or through an outbound whose answer is awaited.
Direct ==
  /\ up = "read" /\ incoming > 0 /\ ~revoked
  /\ incoming' = incoming - 1
  /\ unanswered' = unanswered + 1
  /\ crossed' = Plus(crossed, 1, 0)
  /\ IF relay.forward.sockets.awaited THEN up' = "wait" /\ counted' = counted
     ELSE up' = up /\ counted' = Plus(counted, 1, 0)
  /\ UNCHANGED <<relay, client, left, revoked, down, stop, replies, recorded, ending>>

Outbound(answered) ==
  /\ up = "read" /\ incoming > 0 /\ ~revoked
  /\ incoming' = incoming - 1
  /\ crossed' = Plus(crossed, 1, 0)
  /\ up' = IF answered THEN "write" ELSE up
  /\ counted' = IF ~answered /\ relay.forward.counts = "answered" THEN counted
                ELSE IF answered /\ relay.forward.sockets.awaited THEN counted ELSE Plus(counted, 1, 0)
  /\ UNCHANGED <<relay, client, left, revoked, down, stop, replies, unanswered, recorded, ending>>

\* The socket a forwarder does not keep is closed with the answers it might get.
Unkept(n) == IF relay.forward.sockets.kept THEN n ELSE 0

recv_udp_response ==
  /\ up = "wait" /\ replies > 0
  /\ replies' = Unkept(replies - 1) /\ unanswered' = Unkept(unanswered)
  /\ up' = "write"
  /\ UNCHANGED <<relay, client, incoming, left, revoked, down, stop, counted, crossed, recorded, ending>>

\* Mutant: a packet nobody answered is not counted.
AnsweredOnly == counted

CountUnanswered == IF relay.forward.counts = "sent" THEN Plus(counted, 1, 0) ELSE counted

RecvTimesOut ==
  /\ up = "wait" /\ replies = 0
  /\ replies' = replies /\ unanswered' = Unkept(unanswered)
  /\ counted' = CountUnanswered
  /\ up' = "read"
  /\ UNCHANGED <<relay, client, incoming, left, revoked, down, stop, crossed, recorded, ending>>

RecvFails == up = "wait" /\ Ended("recv") /\ UNCHANGED <<incoming, crossed>>

\* An answer to the client; a forwarder that waits counts both ways now.
Writes ==
  /\ up = "write"
  /\ crossed' = Plus(crossed, 0, 1)
  /\ counted' = IF relay.forward.sockets.awaited THEN Plus(counted, 1, 1) ELSE Plus(counted, 0, 1)
  /\ up' = "read"
  /\ UNCHANGED <<relay, client, incoming, left, revoked, down, stop, replies, unanswered, recorded, ending>>

WriteFails == up = "write" /\ client = "gone" /\ Ended("write") /\ UNCHANGED <<incoming, crossed>>

\* A relay on one thread that does not wait polls between two reads.
recv_available ==
  /\ relay.threads = 1 /\ ~relay.forward.sockets.awaited /\ up = "read" /\ replies > 0
  /\ replies' = replies - 1
  /\ \/ /\ crossed' = Plus(crossed, 0, 1) /\ counted' = Plus(counted, 0, 1)
        /\ UNCHANGED <<up, stop, recorded, ending>>
     \/ /\ client = "gone" /\ Ends("write")
        /\ UNCHANGED <<crossed, counted>>
  /\ UNCHANGED <<relay, client, incoming, left, revoked, down, unanswered>>

PollFails ==
  /\ relay.threads = 1 /\ ~relay.forward.sockets.awaited /\ up = "read"
  /\ Ended("recv")
  /\ UNCHANGED <<incoming, crossed>>

\* Nothing has moved for udp_relay_socket_idle_timeout.
release_idle_sockets ==
  /\ relay.forward.sockets.released /\ replies = 0 /\ unanswered > 0
  /\ IF relay.threads = 2 THEN down = "poll" ELSE up = "read" /\ incoming = 0
  /\ unanswered' = 0
  /\ UNCHANGED <<relay, client, incoming, left, revoked, up, down, stop, replies, counted, crossed, recorded, ending>>

-----------------------------------------------------------------------------
(* The thread that polls, of Trojan over a plain WebSocket.                *)
PollWrites ==
  /\ down = "poll" /\ ~stop /\ replies > 0
  /\ replies' = replies - 1
  /\ \/ /\ crossed' = Plus(crossed, 0, 1) /\ counted' = Plus(counted, 0, 1)
        /\ UNCHANGED <<down, stop, ending>>
     \/ /\ client = "gone"
        /\ stop' = TRUE /\ down' = "join" /\ ending' = "poll write"
        /\ UNCHANGED <<crossed, counted>>
  /\ UNCHANGED <<relay, client, incoming, left, revoked, up, unanswered, recorded>>

PollEnds ==
  /\ down = "poll"
  /\ \/ stop /\ down' = "join" /\ ending' = ending
     \/ down' = "over" /\ ending' = "recv"
  /\ UNCHANGED <<relay, client, incoming, left, revoked, up, stop, replies, unanswered, counted, crossed, recorded>>

join_native_blocking_relay ==
  /\ down = "join" /\ up \in {"over", "died"}
  /\ down' = "over" /\ recorded' = counted
  /\ UNCHANGED <<relay, client, incoming, left, revoked, up, stop, replies, unanswered, counted, crossed, ending>>

Over == IF relay.threads = 2 THEN down = "over" ELSE up = "over"
Done == Over /\ up \in {"over", "died"} /\ UNCHANGED vars

Reading ==
  \/ StreamEnds \/ Parses \/ Skips \/ Refused \/ SendFails \/ Direct \/ Outbound(TRUE) \/ Outbound(FALSE)
  \/ recv_udp_response \/ RecvTimesOut \/ RecvFails \/ Writes \/ WriteFails \/ recv_available \/ PollFails
Polling == PollWrites \/ PollEnds \/ join_native_blocking_relay

Next ==
  \/ ClientSends \/ ClientLeaves \/ Revoke \/ RemoteAnswers
  \/ Reading \/ Polling \/ release_idle_sockets \/ Done

Fairness == WF_vars(Reading) /\ WF_vars(Polling)
Spec == Init /\ [][Next]_vars /\ Fairness

-----------------------------------------------------------------------------
\* No thread reads the client any more and the polling one has not been told:
\* it goes on until an answer comes that it cannot write.
Stranded == up = "died" /\ down = "poll" /\ ~stop

\* A user is never charged for more than crossed. When a relay ends because the
\* client left or was refused, what crossed in both directions is recorded to
\* the packet (Mieru: what was answered); when it ends by an error that is
\* recorded at all, only the packet whose handling failed may be missing.
Charged ==
  /\ counted.up <= crossed.up /\ counted.down <= crossed.down
  /\ Over /\ ending \notin relay.lost =>
       /\ recorded = counted
       /\ recorded.down = crossed.down
       /\ relay.forward.counts = "sent" =>
            crossed.up - recorded.up <= IF ending \in {"closed", "read", "revoked"} THEN 0 ELSE 1

\* A relay whose client has left comes to its end, whatever is in flight, except
\* that Trojan over a plain WebSocket may be stranded, and it has then charged
\* for what crossed (relay_udp_stream and the other loops, forward_udp_packet,
\* record_traffic; relay_udp_plain_websocket_upload sets stop on all paths but
\* one).
UdpRelaysSettle == []Charged /\ (client = "gone" ~> Over \/ Stranded)
=============================================================================
