-------------------------- MODULE MCUserRevocation --------------------------
(***************************************************************************)
(* The revocation of a user, and a framed stream. A behaviour is about one *)
(* of the two, the other rests.                                            *)
(***************************************************************************)
EXTENDS UserRevocation, TLC

CONSTANTS Sizes, PacketSizes, MaxWrites

VARIABLES part, format, encoder, decoder, wire, input, buffer, written, delivered, writes, writer, reader

Interchangeable == Permutations(Connections)

Stream == INSTANCE FramedStream

-----------------------------------------------------------------------------
streamVars == <<format, encoder, decoder, wire, input, buffer, written, delivered, writes, writer, reader>>

StreamRests ==
  /\ format = Stream!WebSocketReader
  /\ encoder = Stream!Codec /\ decoder = Stream!Codec
  /\ wire = <<>> /\ input = <<>> /\ buffer = <<>> /\ written = <<>> /\ delivered = <<>>
  /\ writes = 0 /\ writer = "finished" /\ reader = "ended"

MCInit ==
  \/ part = "revocation" /\ Init /\ StreamRests
  \/ /\ part = "stream" /\ Stream!Init
     /\ Init /\ users = [i \in Inbounds |-> None]

MCNext ==
  /\ UNCHANGED part
  /\ \/ part = "revocation" /\ Next /\ UNCHANGED streamVars
     \/ part = "stream" /\ Stream!Next /\ UNCHANGED vars

MCSpec == MCInit /\ [][MCNext]_<<part, vars, streamVars>>

\* However the transport cuts the bytes up, a reader delivers a prefix of what
\* was written, the target a head or a packet names included, and never refuses
\* what it reads; and when it has read all there is and waits for more, or has
\* come to the end a writer gave the stream, it has delivered everything
\* (websocket.rs 1156-1240, grpc.rs 373-545, vmess.rs 1137-1372 and 1596-1723,
\* shadowsocks.rs 668-775, mieru.rs 734-1170 and 1409-1541, anytls.rs 297-347,
\* naive.rs 785-880, vision.rs 283-354, trojan.rs 500-541, vless.rs 837-893).
FramesAreWhole == Stream!FramesAreWhole
=============================================================================
