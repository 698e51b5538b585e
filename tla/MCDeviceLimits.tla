---------------------------- MODULE MCDeviceLimits ----------------------------
(***************************************************************************)
(* The device limits of a user, and the packets of a UDP protocol. A       *)
(* behaviour is about one of the two, the other rests.                     *)
(***************************************************************************)
EXTENDS DeviceLimits, TLC

CONSTANTS
  Sessions, PacketIds, PayloadSizes, MaxSizes, MaxSends, MaxTime, Lifetime, Expiry, MaxFragments,
  HYSTERIA2_MAX_FRAGMENT_SETS, TUIC_MAX_FRAGMENT_SETS, UDP_MAX_REASSEMBLED_BYTES

VARIABLES part, protocol, sent, flying, fragments, receiver, full, received, now

Symmetry == Permutations(Clients) \cup Permutations(Ips)

Udp == INSTANCE Datagrams

-------------------------------------------------------------------------------
udpVars == <<protocol, sent, flying, fragments, receiver, full, received, now>>

UdpRests ==
  /\ protocol = "hysteria2" /\ sent = {} /\ flying = {} /\ fragments = <<>>
  /\ receiver = "open" /\ full = FALSE /\ received = {} /\ now = MaxTime

MCInit ==
  /\ DevicesInit
  /\ \/ part = "devices" /\ UdpRests
     \/ part = "datagrams" /\ Udp!Init

MCNext ==
  /\ UNCHANGED part
  /\ \/ part = "devices" /\ DevicesNext /\ UNCHANGED udpVars
     \/ part = "datagrams" /\ Udp!Next /\ UNCHANGED device_vars

MCSpec == MCInit /\ [][MCNext]_<<part, device_vars, udpVars>>

\* However datagrams are lost, repeated and overtaken, a packet taken out is
\* one that was sent, whole and to its target; what was sent is understood; a
\* store refuses a fragment only because it holds too many packets, it counts
\* what it holds exactly, and it never keeps a packet of which all is there
\* (hysteria2.rs 1330-1409, tuic.rs 827-917).
PacketsAreWhole == Udp!PacketsAreWhole
===============================================================================
