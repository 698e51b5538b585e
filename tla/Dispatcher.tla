----------------------------- MODULE Dispatcher -----------------------------
(***************************************************************************)
(* One request through the dispatcher of a listener, while reloads replace *)
(* its rules and names change their addresses: the source is checked, the  *)
(* first payload may rename the target (Trojan), the rules in force decide *)
(* and the decision is carried out.                                        *)
(***************************************************************************)
EXTENDS Routing

CONSTANTS
  Configs,    \* [routes, inbound_routes, outbounds] a reload may bring
  Sniffings,  \* [enabled, dest_override]
  Zones,      \* what names may resolve to
  Requests    \* [source, host, port, network, payload, trojan]

VARIABLES
  routes,     \* RouteDispatcher::router
  sniffing,
  dns,        \* the zone in force
  req, pc, target, decision, outcome,
  since       \* rules and zones in force since the request began

dispatchVars == <<routes, sniffing, dns, req, pc, target, decision, outcome, since>>

Outcome(how, to) == [how |-> how, to |-> to]
Now == [routes |-> routes, dns |-> dns]
Accepted(c) ==
  validate_route_rules(c.routes, c.outbounds) /\ validate_route_rules(c.inbound_routes, c.outbounds)
Table(c) == resolved_inbound_routes(c.routes, c.inbound_routes, c.outbounds)

RouteDispatcher ==
  /\ \E c \in Configs : Accepted(c) /\ routes = Table(c)
  /\ sniffing \in Sniffings
  /\ dns \in Zones
  /\ req \in Requests
  /\ pc = "accepted" /\ target = None /\ decision = None /\ outcome = None
  /\ since = {Now}

-----------------------------------------------------------------------------
(* A payload is what it looks like, the target it names, and whether the   *)
(* header or record that names it has arrived whole.                       *)

sniffing_allows(protocol) == protocol \in sniffing.dest_override

\* looks_like_http, _tls, _quic, _bittorrent: at most one says yes, by the
\* first bytes, whether or not the rest has arrived.
looks_like(payload) == {payload.looks} \ {"nothing"}
route_protocol_labels(network, payload) == {network} \cup looks_like(payload)

protocol_labels(network, payload) ==
  IF ~sniffing.enabled \/ payload = None THEN {network}
  ELSE {l \in route_protocol_labels(network, payload) : l = network \/ sniffing_allows(l)}

sniff_http_host(payload, port) ==
  IF payload.looks # "http" \/ ~payload.whole \/ payload.host = None THEN None
  ELSE [host |-> payload.host, port |-> IF payload.port = None THEN port ELSE payload.port]

sniff_tls_sni(payload) ==
  IF payload.looks # "tls" \/ ~payload.whole THEN None ELSE payload.host

sniffed_tcp_target(t, payload) ==
  LET http == sniff_http_host(payload, t.port)
      sni == sniff_tls_sni(payload)
  IN  CASE ~sniffing.enabled \/ payload = None -> t
        [] sniffing.enabled /\ payload # None ->
             CASE sniffing_allows("http") /\ http # None -> http
               [] sniffing_allows("tls") /\ sni # None -> [host |-> sni, port |-> t.port]
               [] OTHER -> t

-----------------------------------------------------------------------------
ensure_source_ip_allowed ==
  /\ pc = "accepted"
  /\ IF req.source # None /\ source_ip_blocked(routes, req.source)
     THEN pc' = "done" /\ outcome' = Outcome("refused", None) /\ target' = target
     ELSE /\ pc' = "read" /\ outcome' = outcome
          /\ target' = LET t == [host |-> req.host, port |-> req.port]
                       IN  IF req.trojan /\ req.network = "tcp" THEN sniffed_tcp_target(t, req.payload) ELSE t
  /\ UNCHANGED <<routes, sniffing, dns, req, decision, since>>

decide_by_payload ==
  /\ pc = "read"
  /\ decision' = decide_target(routes, target.host, target.port,
                               protocol_labels(req.network, req.payload), dns)
  /\ pc' = "decided"
  /\ UNCHANGED <<routes, sniffing, dns, req, target, outcome, since>>

connect_tcp_with_decision ==
  /\ pc = "decided" /\ req.network = "tcp"
  /\ outcome' = CASE decision.action = "Block" -> Outcome("denied", None)
                  [] decision.action = "UnsupportedOutbound" -> Outcome("unsupported", None)
                  [] OTHER -> Outcome("sent", apply_to_target(decision, target.host, target.port))
  /\ pc' = "done"
  /\ UNCHANGED <<routes, sniffing, dns, req, target, decision, since>>

\* A blocked datagram is answered by an empty one from nowhere.
send_udp ==
  /\ pc = "decided" /\ req.network = "udp"
  /\ outcome' = CASE decision.action = "Block" -> Outcome("empty answer", None)
                  [] decision.action = "UnsupportedOutbound" -> Outcome("unsupported", None)
                  [] OTHER -> Outcome("sent", apply_to_target(decision, target.host, target.port))
  /\ pc' = "done"
  /\ UNCHANGED <<routes, sniffing, dns, req, target, decision, since>>

\* A reload; what validation refuses never gets here.
replace_routes ==
  /\ pc # "done"
  /\ \E c \in Configs : Accepted(c) /\ routes' = Table(c)
  /\ routes' # routes
  /\ since' = since \cup {[routes |-> routes', dns |-> dns]}
  /\ Cardinality(since') <= 2
  /\ UNCHANGED <<sniffing, dns, req, pc, target, decision, outcome>>

ZoneChanges ==
  /\ pc # "done"
  /\ dns' \in Zones \ {dns}
  /\ since' = since \cup {[routes |-> routes, dns |-> dns']}
  /\ Cardinality(since') <= 2
  /\ UNCHANGED <<routes, sniffing, req, pc, target, decision, outcome>>

Served == pc = "done" /\ UNCHANGED dispatchVars

DispatchNext ==
  \/ ensure_source_ip_allowed \/ decide_by_payload \/ connect_tcp_with_decision \/ send_udp
  \/ replace_routes \/ ZoneChanges \/ Served

-----------------------------------------------------------------------------
(* What the rules mean, said without the matcher.                          *)

Bit(ip, k) == (ip.number \div 2 ^ (Width[ip.family] - k)) % 2
InBlock(ip, rule) ==
  /\ ip.family = rule.ip.family
  /\ \A k \in 1..(IF rule.prefix = None THEN Width[ip.family] ELSE rule.prefix) : Bit(ip, k) = Bit(rule.ip, k)
InList(ip, name) ==
  IF name \in {"private", "local", "lan"} THEN ip \in PrivateIps
  ELSE name \in DOMAIN GeoipFiles /\ \E rule \in GeoipFiles[name] : InBlock(ip, rule)

\* Every list a list leads to by includes, itself among them.
Includes(lists) ==
  lists \cup UNION {{LinesOf(n)[k].rule : k \in {j \in 1..Len(LinesOf(n)) : LinesOf(n)[j].prefix = "include"}} :
                    n \in lists}
LeadsTo(name) ==
  LET step[n \in 0..Cardinality(DOMAIN GeositeFiles)] == IF n = 0 THEN {name} ELSE Includes(step[n - 1])
  IN  step[Cardinality(DOMAIN GeositeFiles)]

Under(host, d) == ~IsIp(host) /\ d # <<>> /\ \E s \in Suffixes(host.name) : s = d
Named(host, line) ==
  /\ ~IsIp(host)
  /\ CASE line.prefix = "full" -> host.name = line.rule
       [] line.prefix = "keyword" -> Head(line.rule) \in {host.name[k] : k \in 1..Len(host.name)}
       [] OTHER -> Under(host, line.rule)
OnSite(host, name) ==
  \E n \in LeadsTo(name) :
    \/ n \in DOMAIN Builtin /\ \E d \in Builtin[n] : Under(host, d)
    \/ \E k \in 1..Len(LinesOf(n)) : LinesOf(n)[k].prefix # "include" /\ Named(host, LinesOf(n)[k])

Ips(w) == IF IsIp(target.host) THEN {target.host} ELSE IF target.port = 0 THEN {} ELSE w.dns[target.host.name]
Looks == protocol_labels(req.network, req.payload)
Catches(w, t) ==
  CASE t.prefix = "ip" ->
         \E ip \in Ips(w) : IF "geoip" \in DOMAIN t.rule THEN ~t.rule.spaced /\ InList(ip, t.rule.geoip)
                            ELSE InBlock(ip, t.rule)
    [] t.prefix = "geoip" -> \E ip \in Ips(w) : InList(ip, t.rule)
    [] t.prefix = "geosite" -> OnSite(target.host, t.rule)
    [] t.prefix \in {"domain", "full", "keyword"} -> Named(target.host, t)
    [] t.prefix = "regexp" -> ~IsIp(target.host) /\ target.host.name \in t.rule
    [] t.prefix \in {"protocol", "network"} -> \E l \in t.rule : l \in Looks
    [] t.prefix = "port" -> target.port # 0 /\ \E k \in 1..Len(t.rule) :
                              t.rule[k].first <= target.port /\ target.port <= t.rule[k].last
    [] t.prefix = "*" -> TRUE
    [] t.prefix = "*." -> Under(target.host, t.rule)
    [] t.prefix = "" -> target.host = t.rule
    [] t.prefix = "source_ip" -> FALSE
CaughtBy(w, k) == \E j \in 1..Len(w.routes[k].targets) : Catches(w, w.routes[k].targets[j])

\* The decision is the one the rules of w ask for: the first that catches.
AsRulesSay(w) ==
  \/ decision.action = "Direct" /\ \A k \in 1..Len(w.routes) : ~CaughtBy(w, k)
  \/ \E k \in 1..Len(w.routes) :
       /\ CaughtBy(w, k) /\ \A j \in 1..k - 1 : ~CaughtBy(w, j)
       /\ w.routes[k].action = IF decision.action = "Outbound" THEN decision.outbound.tag ELSE decision.action

ShutOut(w) ==
  /\ req.source # None
  /\ \E k \in 1..Len(w.routes) : \E j \in 1..Len(w.routes[k].targets) :
       LET t == w.routes[k].targets[j]
       IN  /\ t.prefix = "source_ip"
           /\ IF "geoip" \in DOMAIN t.rule.ip THEN ~t.rule.inner /\ InList(req.source, t.rule.ip.geoip)
              ELSE InBlock(req.source, t.rule.ip)

\* However reloads and changing names fall between the steps of a request, what
\* happens to it is what one set of rules in force during the request asks for:
\* the first rule that catches the target (prefixes bit by bit, lists through
\* all their includes), never half of an old and half of a new table; an
\* accepted configuration never names an outbound that is not there
\* (RouteDispatcher, RouteMatcher::decide_target, matches_geosite_rule_inner).
RoutedByRulesInForce ==
  /\ pc \in {"read", "decided"} => \E w \in since : ~ShutOut(w)
  /\ decision # None =>
       /\ decision.action # "UnsupportedOutbound"
       /\ \E w \in since : AsRulesSay(w)
  /\ pc = "done" =>
       CASE outcome.how = "refused" -> \E w \in since : ShutOut(w)
         [] outcome.how \in {"denied", "empty answer"} -> decision.action = "Block"
         [] outcome.how = "sent" -> decision.action \in {"Direct", "Outbound"}
=============================================================================
