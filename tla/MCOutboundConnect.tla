-------------------------- MODULE MCOutboundConnect --------------------------
(***************************************************************************)
(* OutboundConnect with two connects to one target, which has a public and *)
(* a private address or a private one only; or one resolve through a       *)
(* config's name servers. A behaviour is one of the two, the other part    *)
(* rests.                                                                  *)
(***************************************************************************)
EXTENDS OutboundConnect, Sequences

CONSTANTS pub, priv

VARIABLES part, resolver, dns, host, asked, query_id, ips, meant

MCAnswers == {{pub, priv}, {priv}}
MCPrivate == {priv}

-----------------------------------------------------------------------------
NameServer(scheme, known, domains) == [scheme |-> scheme, known |-> known, domains |-> domains]
Site == <<<<7>>, <<8, 9>>>>
Ip4(n) == <<10, 0, 0, n>>
Ip6(n) == [i \in 1 .. 16 |-> IF i = 16 THEN n ELSE 0]
Record(owner, type, class, data) == [owner |-> owner, type |-> type, class |-> class, data |-> data]

\* A server for one site beside one for all; two that cannot be asked before one
\* that can.
MCServers ==
  { <<>>,
    <<NameServer("", TRUE, {})>>,
    <<NameServer("tcp", TRUE, {Site}), NameServer("", TRUE, {})>>,
    <<NameServer("https", TRUE, {}), NameServer("udp", FALSE, {}), NameServer("tcp", TRUE, {})>> }

MCConfigs == [servers : MCServers, strategy : {"ipv4", "ipv6", "useipv6v4", "useip"}]

\* A name, the same with dots behind it, and one that has an empty label.
MCHosts == {Site, Site \o <<<<>>, <<>>>>, <<<<7>>, <<>>, <<8>>>>}

\* Both families; an alias, another class and a short address between two
\* addresses; a name that points to itself.
MCRecordSets ==
  { <<>>,
    <<Record("pointer", 1, 1, Ip4(1)), Record("name", 28, 1, Ip6(2))>>,
    <<Record("name", 5, 1, <<1, 7, 0>>), Record("pointer", 1, 1, Ip4(1)), Record("pointer", 1, 3, Ip4(2)),
      Record("pointer", 1, 1, Ip4(3))>>,
    <<Record("pointer", 28, 1, Ip6(1)), Record("circle", 28, 1, Ip6(3))>> }

MCSystemAnswers ==
  {<<>>, <<Ip4(1)>>, <<Ip4(1), Ip4(2), Ip6(1)>>, <<Ip6(1), Ip6(2), Ip4(1), Ip6(3)>>}

Dns == INSTANCE DnsQuery WITH
  addrs <- ips, Configs <- MCConfigs, Hosts <- MCHosts, RecordSets <- MCRecordSets,
  SystemAnswers <- MCSystemAnswers, MaxDatagram <- 80, MaxSteps <- 6

dns_vars == <<resolver, dns, host, asked, query_id, ips, meant>>
mc_vars == <<part, vars, dns_vars>>

MCInit ==
  /\ part \in {"connect", "resolve"}
  /\ Init
  /\ IF part = "resolve" THEN Dns!Init /\ ~googlevideo /\ ~blocking
     ELSE /\ resolver = "done" /\ asked = 0 /\ query_id = 0 /\ ips = <<>> /\ meant = <<>>
          /\ dns = None /\ host = None

Connecting(A) == part = "connect" /\ A /\ UNCHANGED <<part, dns_vars>>

MCNext ==
  \/ part = "connect" /\ Next /\ UNCHANGED <<part, dns_vars>>
  \/ part = "resolve" /\ Dns!Next /\ UNCHANGED <<part, vars>>
  \/ part = "resolve" /\ resolver = "done" /\ UNCHANGED mc_vars

\* The fairness of FairSpec.
MCSpec ==
  /\ MCInit /\ [][MCNext]_mc_vars
  /\ WF_mc_vars(Connecting(Tick))
  /\ WF_mc_vars(Connecting(Configuring))
  /\ \A c \in Connects : WF_mc_vars(Connecting(Resolve(c) \/ Race(c)))

\* What a resolve returns is what the first server with a sound answer meant
\* (dns.rs resolve_socket_addrs, parse_response, happy_eyeballs_order).
AnswersAreTaken == part = "resolve" => Dns!AnswersAreTaken
=============================================================================
