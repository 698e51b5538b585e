------------------------------- MODULE Routing -------------------------------
(***************************************************************************)
(* The rules of routing.rs: which targets the configuration accepts, and   *)
(* which connections a rule catches. A name is the sequence of its labels, *)
(* an address its family and its number, a target of a rule a record of    *)
(* its prefix and what stands behind it.                                   *)
(***************************************************************************)
EXTENDS Naturals, Sequences, SequencesExt, FiniteSets

CONSTANTS
  None,
  Width,        \* bits of an address of family 4 and of family 6
  PrivateIps,   \* loopback, link-local and the like
  GeoipFiles,   \* name -> address rules in the file of that name
  GeositeFiles, \* name -> lines in the file of that name, or <<>>
  Builtin       \* name -> domains built in, or {}

IsIp(host) == "family" \in DOMAIN host

-----------------------------------------------------------------------------
(* What validation accepts.                                                *)

\* An address rule is an address and the length of a prefix, or None for the
\* address itself; or the name of a list, spaced when blanks stand before it.
is_supported_ip_route_rule(rule) ==
  IF "geoip" \in DOMAIN rule THEN rule.geoip # ""
  ELSE rule.prefix = None \/ rule.prefix <= Width[rule.ip.family]

is_supported_source_ip_route_rule(rule) == is_supported_ip_route_rule(rule.ip)

is_supported_port_route_rule(items) == \A k \in 1..Len(items) : items[k].first <= items[k].last

validate_route_targets(route) ==
  \A k \in 1..Len(route.targets) :
    LET t == route.targets[k]
    IN  CASE t.prefix = "ip" -> is_supported_ip_route_rule(t.rule)
          [] t.prefix = "port" -> is_supported_port_route_rule(t.rule)
          [] t.prefix = "network" -> t.rule \in {{"tcp"}, {"udp"}}
          [] t.prefix \in {"domain", "full", "keyword"} -> t.rule # <<>>
          [] t.prefix \in {"geoip", "geosite"} -> t.rule # ""
          [] t.prefix = "protocol" -> t.rule # {}
          [] t.prefix = "source_ip" ->
               route.action = "Block" /\ is_supported_source_ip_route_rule(t.rule)
          [] OTHER -> TRUE

\* The action of a rule is "Direct", "Block" or the tag of an outbound. An
\* outbound written into the rule carries that tag; else the tag is configured.
validate_route_rules(routes, outbounds) ==
  \A k \in 1..Len(routes) :
    LET r == routes[k]
    IN  /\ validate_route_targets(r)
        /\ r.action \notin {"Direct", "Block"} =>
             IF r.outbound # None THEN r.outbound.tag = r.action
             ELSE \E o \in outbounds : o.tag = r.action

\* Mutant: the rules go into force as they are written.
Unresolved(routes, inbound_routes, outbounds) == routes \o inbound_routes

\* The rules of the core, then those of the inbound, each with its outbound.
resolved_inbound_routes(routes, inbound_routes, outbounds) ==
  LET all == routes \o inbound_routes
      Resolved(r) ==
        IF r.outbound = None /\ \E o \in outbounds : o.tag = r.action
        THEN [r EXCEPT !.outbound = CHOOSE o \in outbounds : o.tag = r.action]
        ELSE r
  IN  [k \in 1..Len(all) |-> Resolved(all[k])]

-----------------------------------------------------------------------------
(* What a rule catches.                                                    *)

matches_domain_suffix(host, suffix) == ~IsIp(host) /\ suffix # <<>> /\ IsSuffix(suffix, host.name)

\* An address and the mask of a prefix.
Masked(ip, prefix) == ip.number - (ip.number % 2 ^ (Width[ip.family] - prefix))

matches_ip_rule(ip, rule) ==
  IF rule.prefix = None THEN ip = rule.ip
  ELSE /\ ip.family = rule.ip.family /\ rule.prefix <= Width[ip.family]
       /\ Masked(ip, rule.prefix) = Masked(rule.ip, rule.prefix)

is_private_ip(ip) == ip \in PrivateIps

matches_geoip_rule(ip, name) ==
  IF name \in {"private", "local", "lan"} THEN is_private_ip(ip)
  ELSE name \in DOMAIN GeoipFiles /\ \E rule \in GeoipFiles[name] : matches_ip_rule(ip, rule)

\* A line of a list: a bare name is a suffix.
matches_geosite_domain(host, line) ==
  CASE line.prefix = "full" -> ~IsIp(host) /\ host.name = line.rule
    [] line.prefix = "keyword" -> ~IsIp(host) /\ \E k \in 1..Len(host.name) : <<host.name[k]>> = line.rule
    [] OTHER -> matches_domain_suffix(host, line.rule)

BuiltinHas(host, name) == name \in DOMAIN Builtin /\ \E d \in Builtin[name] : matches_domain_suffix(host, d)
LinesOf(name) == IF name \in DOMAIN GeositeFiles THEN GeositeFiles[name] ELSE <<>>

\* matches_geosite_rule_inner: depth first through the included lists, each of
\* them once, up to the first hit.
RECURSIVE matches_geosite_rule_inner(_, _, _)
matches_geosite_rule_inner(host, name, visited) ==
  LET RECURSIVE Lines(_, _)
      Lines(k, v) ==
        IF k > Len(LinesOf(name)) THEN [hit |-> FALSE, visited |-> v]
        ELSE LET line == LinesOf(name)[k]
                 r == IF line.prefix = "include" THEN matches_geosite_rule_inner(host, line.rule, v)
                      ELSE [hit |-> matches_geosite_domain(host, line), visited |-> v]
             IN  IF r.hit THEN r ELSE Lines(k + 1, r.visited)
  IN  CASE BuiltinHas(host, name) -> [hit |-> TRUE, visited |-> visited]
        [] ~BuiltinHas(host, name) /\ name \in visited -> [hit |-> FALSE, visited |-> visited]
        [] OTHER -> Lines(1, visited \cup {name})

matches_geosite_rule(host, name) == matches_geosite_rule_inner(host, name, {}).hit

protocol_labels_match(labels, rule) == labels \cap rule # {}
matches_port_rule(port, items) == \E k \in 1..Len(items) : port \in items[k].first..items[k].last

\* The addresses a rule is held against: the host itself, or what the name
\* resolves to; without a port nothing is resolved.
TargetIps(host, port, dns) == IF IsIp(host) THEN {host} ELSE IF port = 0 THEN {} ELSE dns[host.name]
any_target_ip_matches(host, port, dns, P(_)) == \E ip \in TargetIps(host, port, dns) : P(ip)

\* An address rule. "ip: geoip:name" passes validation, but here the blank
\* keeps it from being read as a list, and as an address it says nothing.
IpRuleHolds(ip, rule) ==
  IF "geoip" \in DOMAIN rule THEN ~rule.spaced /\ matches_geoip_rule(ip, rule.geoip)
  ELSE matches_ip_rule(ip, rule)

matches_target(host, port, labels, dns, t) ==
  CASE t.prefix = "ip" -> any_target_ip_matches(host, port, dns, LAMBDA ip : IpRuleHolds(ip, t.rule))
    [] t.prefix = "geoip" ->
         any_target_ip_matches(host, port, dns, LAMBDA ip : matches_geoip_rule(ip, t.rule))
    [] t.prefix = "geosite" -> matches_geosite_rule(host, t.rule)
    [] t.prefix = "regexp" -> ~IsIp(host) /\ host.name \in t.rule
    [] t.prefix \in {"protocol", "network"} -> protocol_labels_match(labels, t.rule)
    [] t.prefix = "port" -> port # 0 /\ matches_port_rule(port, t.rule)
    [] t.prefix \in {"domain", "full", "keyword"} -> matches_geosite_domain(host, t)
    [] t.prefix = "*" -> TRUE
    [] t.prefix = "*." -> matches_domain_suffix(host, t.rule)
    [] t.prefix = "" -> host = t.rule
    [] t.prefix = "source_ip" -> FALSE

route_targets_match(targets, host, port, labels, dns) ==
  \E k \in 1..Len(targets) : matches_target(host, port, labels, dns, targets[k])

Decided(action, outbound) == [action |-> action, outbound |-> outbound]
RouteDecision(r) ==
  CASE r.action \in {"Direct", "Block"} -> Decided(r.action, None)
    [] OTHER -> Decided(IF r.outbound = None THEN "UnsupportedOutbound" ELSE "Outbound", r.outbound)

\* The first rule that catches the target decides, none is Direct.
decide_target(routes, host, port, labels, dns) ==
  LET hits == {k \in 1..Len(routes) : route_targets_match(routes[k].targets, host, port, labels, dns)}
  IN  IF hits = {} THEN Decided("Direct", None)
      ELSE RouteDecision(routes[CHOOSE k \in hits : \A j \in hits : k <= j])

\* "source_ip:ip:geoip:name" passes validation and is then read as an address.
matches_source_ip_target(ip, t) ==
  /\ t.prefix = "source_ip"
  /\ IF t.rule.inner THEN "geoip" \notin DOMAIN t.rule.ip /\ matches_ip_rule(ip, t.rule.ip)
     ELSE IpRuleHolds(ip, t.rule.ip)

source_ip_blocked(routes, ip) ==
  \E k \in 1..Len(routes) :
    /\ routes[k].action = "Block"
    /\ \E j \in 1..Len(routes[k].targets) : matches_source_ip_target(ip, routes[k].targets[j])

\* A freedom outbound may send the connection somewhere else.
apply_to_target(decision, host, port) ==
  IF decision.action # "Outbound" \/ decision.outbound.protocol # "freedom"
  THEN [host |-> host, port |-> port]
  ELSE [host |-> IF decision.outbound.address = None THEN host ELSE decision.outbound.address,
        port |-> IF decision.outbound.port = None THEN port ELSE decision.outbound.port]
=============================================================================
