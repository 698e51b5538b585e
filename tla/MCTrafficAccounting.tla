------------------------- MODULE MCTrafficAccounting -------------------------
(***************************************************************************)
(* The traffic registries; the relays of UDP over streams, which count     *)
(* what they charge; or the sessions of one Mieru connection. A behaviour  *)
(* is about one of the three, the others rest.                             *)
(***************************************************************************)
EXTENDS TrafficAccounting

CONSTANTS k1, k2, m1, MaxPackets, Openings, Ids, MaxData, MaxWire

VARIABLES part, relay, client, incoming, left, revoked, up, down, ended, replies, unanswered,
          tally, crossed, recorded, ending,
          peer, wire, id, said, closing, loop, sessions, workers, joining, ends, inbox, job,
          deaf, received, told

\* Two keys in shards of their own, the second drained after the first.
MCShardOf == [k \in Keys |-> IF k = k1 THEN 1 ELSE 2]

Udp == INSTANCE StreamUdp WITH stop <- ended, counted <- tally

Mieru == INSTANCE MieruUnderlay WITH client <- peer, sent <- said, done <- ends, closed <- deaf

-----------------------------------------------------------------------------
udpVars == <<relay, client, incoming, left, revoked, up, down, ended, replies, unanswered,
             tally, crossed, recorded, ending>>

UdpRests ==
  /\ relay = Udp!vless_relay_udp_stream
  /\ client = "open" /\ incoming = 0 /\ left = 0 /\ revoked = FALSE
  /\ up = "over" /\ down = "none" /\ ended = FALSE
  /\ replies = 0 /\ unanswered = 0
  /\ tally = Udp!Nothing /\ crossed = Udp!Nothing /\ recorded = Udp!Nothing /\ ending = "closed"

mieruVars == <<peer, wire, id, said, closing, loop, sessions, workers, joining, ends, inbox, job,
               deaf, received, told>>

MieruRests ==
  /\ peer = "there" /\ wire = <<>> /\ closing = {} /\ told = {} /\ ends = <<>>
  /\ loop = "returned" /\ sessions = Mieru!Empty /\ workers = Mieru!Empty /\ joining = None
  /\ id = [o \in Openings |-> None] /\ job = [o \in Openings |-> "none"]
  /\ inbox = [o \in Openings |-> <<>>] /\ deaf = [o \in Openings |-> FALSE]
  /\ said = [o \in Openings |-> 0] /\ received = said

MCInit ==
  /\ Init
  /\ \/ part = "registries" /\ UdpRests /\ MieruRests
     \/ part = "udp" /\ Udp!Init /\ MieruRests
     \/ part = "mieru" /\ UdpRests /\ Mieru!Init /\ workers[1] = m1  \* the others are alike

MCNext ==
  /\ UNCHANGED part
  /\ \/ part = "registries" /\ Next /\ UNCHANGED <<udpVars, mieruVars>>
     \/ part = "udp" /\ Udp!Next /\ UNCHANGED <<vars, mieruVars>>
     \/ part = "mieru" /\ Mieru!Next /\ UNCHANGED <<vars, udpVars>>
     \/ part = "mieru" /\ loop \in {"returned", "failed"} /\ UNCHANGED <<vars, udpVars, mieruVars>>

MCSpec ==
  /\ MCInit /\ [][MCNext]_<<part, vars, udpVars, mieruVars>>
  /\ Udp!Fairness /\ Mieru!Fairness

\* A relay of UDP over a stream ends once its client has left, stranded ones
\* apart, and has charged for what crossed (relay_udp_stream and its kin in
\* trojan.rs 1187-1841, vless.rs 1749-2189, vmess.rs 654-839, anytls.rs
\* 487-588, mieru.rs 1542-1598, socks5.rs 368-468). The sessions of a Mieru
\* connection get what is theirs and end with it (mieru.rs 298-515).
RelaysSettle == Udp!UdpRelaysSettle /\ []Mieru!SessionsAreSeparate /\ Mieru!SessionsEnd
==============================================================================
