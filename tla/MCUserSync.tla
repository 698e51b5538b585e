------------------------------ MODULE MCUserSync ------------------------------
(***************************************************************************)
(* UserSync with two inbounds, two revisions of each and two tables; or    *)
(* one request through a Dispatcher while its rules are replaced; or the   *)
(* table of one server. A behaviour is one of the three, the others rest.  *)
(***************************************************************************)
EXTENDS UserSync, TLC

VARIABLES
  part, table, sniffing, zone, req, pc, target, decision, outcome, since,
  server, store, auth, step, known, settled, clear, honest, served, client

route_vars == <<table, sniffing, zone, req, pc, target, decision, outcome, since>>
table_vars == <<server, store, auth, step, known, settled, clear, honest, served, client>>

Users(u, v) == [x \in Uuids |-> IF x = "u" THEN u ELSE v]

In(shape, port) ==
  [shape |-> shape, port |-> port, routes |-> "r1", users |-> NoUsers]

Config(core, a, b) ==
  [core |-> core, routes |-> "r1",
   inbounds |-> [t \in Tags |-> IF t = "a" THEN a ELSE b]]

MCTags == {"a", "b"}
MCPorts == {"p1", "p2"}
MCShapes == {"vless", "hy2"}
MCTcp == {"vless"}
MCUdp == {"hy2"}
MCQuic == {"hy2"}
MCRoutes == {"r1"}
MCCores == {"k1", "k2"}
MCUuids == {"u", "v"}
MCRecords == {1, 2}
MCRevisions == {1, 2}
MCPanelTables == {Users(1, None), Users(2, 1)}

MCConfigs ==
  { Config("k1", In("vless", "p1"), None),
    Config("k1", In("vless", "p1"), In("vless", "p2")),
    Config("k1", In("vless", "p2"), None) }

-----------------------------------------------------------------------------
\* Addresses of two bits in family 4 and of three in family 6.
Ip4(n) == [family |-> 4, number |-> n]
Ip6(n) == [family |-> 6, number |-> n]
Name(n) == [name |-> n]
MCWidth == (4 :> 2) @@ (6 :> 3)

MCGeoip == "cn" :> {[ip |-> Ip4(2), prefix |-> 1], [ip |-> Ip6(5), prefix |-> None]}

Line(p, r) == [prefix |-> p, rule |-> r]
\* Two lists that include each other, one of them a third, built-in one.
MCGeosite ==
  ("x" :> <<Line("include", "y"), Line("full", <<"c">>)>>) @@
  ("y" :> <<Line("include", "x"), Line("include", "z"), Line("domain", <<"b", "c">>)>>)
MCBuiltin == "z" :> {<<"d">>}

Rule(action, outbound, targets) == [action |-> action, outbound |-> outbound, targets |-> targets]
Free(host, port) == [tag |-> "out", protocol |-> "freedom", address |-> host, port |-> port]
Source(r, inner) == Line("source_ip", [ip |-> r, inner |-> inner])
Cidr(i, p) == [ip |-> i, prefix |-> p]
List(n, spaced) == [geoip |-> n, spaced |-> spaced]
RouteSet(r, i, o) == [routes |-> r, inbound_routes |-> i, outbounds |-> o]

MCRouteSets ==
  { RouteSet(<<>>, <<>>, {}),
    RouteSet(<<Rule("Block", None, <<Line("ip", List("private", FALSE)), Source(Cidr(Ip4(3), 1), FALSE)>>)>>,
             <<Rule("Direct", None, <<Line("geosite", "x")>>), Rule("Block", None, <<Line("*", "")>>)>>, {}),
    RouteSet(<<Rule("out", None, <<Line("ip", Cidr(Ip4(2), 1)), Line("keyword", <<"b">>)>>)>>,
             <<Rule("Block", None, <<Line("network", {"udp"}), Line("protocol", {"tls", "quic"})>>)>>,
             {Free(Name(<<"d">>), None)}),
    RouteSet(<<Rule("Block", None, <<Source(List("private", FALSE), FALSE), Line("geoip", "cn")>>),
               Rule("out", Free(None, 2), <<Line("port", <<[first |-> 1, last |-> 1]>>)>>)>>,
             <<Rule("Block", None, <<Line("ip", Cidr(Ip6(0), 0))>>)>>, {}),
    RouteSet(<<Rule("Block", None, <<Line("ip", List("private", TRUE)), Source(List("private", FALSE), TRUE),
                                     Line("full", <<"c">>), Line("", Ip4(1)), Line("*.", <<"b", "c">>),
                                     Line("regexp", {<<"d">>})>>)>>,
             <<>>, {}),
    \* refused: no such outbound, another outbound's tag, a prefix too long
    RouteSet(<<Rule("out", None, <<Line("*", "")>>)>>, <<>>, {}),
    RouteSet(<<>>, <<Rule("other", Free(None, None), <<Line("*", "")>>)>>, {}),
    RouteSet(<<Rule("Block", None, <<Line("ip", Cidr(Ip4(0), 3))>>)>>, <<>>, {}) }

MCHosts == {<<"c">>, <<"b", "c">>, <<"a", "b", "c">>, <<"d">>}
Zone(ips) == [h \in MCHosts |-> IF h = <<"b", "c">> THEN ips ELSE IF h = <<"d">> THEN {} ELSE {Ip4(2)}]
MCZones == {Zone({Ip4(0), Ip6(3)}), Zone({Ip4(3)})}

Payload(looks, host, port, whole) == [looks |-> looks, host |-> host, port |-> port, whole |-> whole]
MCPayloads ==
  {None, Payload("http", Name(<<"a", "b", "c">>), 2, TRUE), Payload("http", Name(<<"d">>), None, FALSE),
   Payload("tls", Name(<<"d">>), None, TRUE), Payload("quic", None, None, TRUE),
   Payload("nothing", None, None, TRUE)}

\* Only Trojan renames a target, by what its first payload names.
MCRequests ==
  {q \in [source : {None, Ip4(1), Ip4(2)}, host : {Name(h) : h \in MCHosts} \cup {Ip4(1), Ip6(5)},
          port : {0, 1}, network : {"tcp", "udp"}, payload : MCPayloads, trojan : BOOLEAN] :
     /\ q.trojan <=> q.network = "tcp" /\ q.payload # None
     /\ q.source # None => q.payload = None /\ q.network = "tcp"
     /\ q.port = 0 => q.payload = None}

MCSniffings == {[enabled |-> FALSE, dest_override |-> {}], [enabled |-> TRUE, dest_override |-> {"http", "tls"}]}

Route == INSTANCE Dispatcher WITH
  routes <- table, dns <- zone, Configs <- MCRouteSets, Zones <- MCZones, Requests <- MCRequests,
  Sniffings <- MCSniffings, Width <- MCWidth, PrivateIps <- {Ip4(1), Ip6(1)},
  GeoipFiles <- MCGeoip, GeositeFiles <- MCGeosite, Builtin <- MCBuiltin

-----------------------------------------------------------------------------
Account(uuid, password) == [uuid |-> uuid, password |-> password]
Bare(uuid) == Account(uuid, None)

\* "A" is another spelling of "a", "x" is no uuid. Credentials may be the uuid of
\* the user or of another one.
MCSpelling == [u \in {"a", "A", "b", "x", ""} |-> IF u = "A" THEN "a" ELSE u]
MCAccounts ==
  [k \in {"uuid", "compact", "parsed", "credential"} |->
     IF k = "credential"
     THEN {Bare("a"), Account("a", "p"), Bare("b"), Account("b", "p"), Account("b", "a"), Bare("")}
     ELSE {Bare("a"), Account("a", "p"), Bare("A"), Bare("b"), Bare("x"), Bare("")}]

Table == INSTANCE UserTables WITH
  Accounts <- MCAccounts, Spelling <- MCSpelling, Malformed <- {"x", ""}, MaxOps <- 2

-----------------------------------------------------------------------------
MCInit ==
  /\ part \in {"sync", "route", "table"}
  /\ SyncInit
  /\ IF part = "route" THEN Route!RouteDispatcher
     ELSE /\ pc = "done"
          /\ table = None /\ sniffing = None /\ zone = None /\ req = None /\ target = None
          /\ decision = None /\ outcome = None /\ since = {}
  /\ IF part = "table" THEN Table!Init
     ELSE /\ server = None /\ store = None /\ auth = {} /\ step = "idle" /\ known = None
          /\ settled = {} /\ clear = TRUE /\ honest = TRUE /\ served = TRUE /\ client = None

MCNext ==
  \/ part = "sync" /\ SyncNext /\ UNCHANGED <<part, route_vars, table_vars>>
  \/ part = "route" /\ Route!DispatchNext /\ UNCHANGED <<part, sync_vars, table_vars>>
  \/ part = "table" /\ Table!Next /\ UNCHANGED <<part, sync_vars, route_vars>>

MCSpec == MCInit /\ [][MCNext]_<<part, sync_vars, route_vars, table_vars>>

\* What happens to a request is what one set of rules in force meanwhile says
\* (RouteDispatcher, RouteMatcher).
RoutedByRulesInForce == part = "route" => Route!RoutedByRulesInForce

\* The table of a server holds the users of the commands, under the keys they
\* have now, whatever order additions, updates and deletions come in (user.rs).
TablesAreFaithful == part = "table" => Table!TablesAreFaithful
=============================================================================
