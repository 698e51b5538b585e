-------------------------- MODULE MCNativeRelayPool --------------------------
(***************************************************************************)
(* The pool of relay threads, and the connectors of the outbounds, which   *)
(* run their bridges on it. A behaviour is about one of the two, the other *)
(* one rests.                                                              *)
(***************************************************************************)
EXTENDS NativeRelayPool

CONSTANTS s1, s2, u1, u2

VARIABLE part

\* Two sessions compete for one label, and each submits an upload of another.
Sessions == {s1, s2}
MCLabel == [s \in Submitters |-> IF s \in Sessions THEN "session" ELSE "upload"]
MCParent == [s \in Submitters |-> CASE s = u1 -> s1 [] s = u2 -> s2 [] OTHER -> None]

-----------------------------------------------------------------------------
Plain(p) ==
  [tag |-> "tag", protocol |-> p, address |-> "host", port |-> "port", username |-> "uuid",
   password |-> "secret", method |-> None, tls |-> None, transport |-> None]
Via(n) ==
  [network |-> n, path |-> None, host |-> None, service_name |-> None, method |-> None,
   headers |-> {}, quic_security |-> None, quic_key |-> None, quic_header_type |-> None]

\* Outbounds of every protocol, over every transport, with TLS and without.
Proper ==
  {[Plain(p) EXCEPT !.method = "aes-128-gcm"] : p \in {"freedom", "socks", "http", "shadowsocks"}}
    \cup {[Plain(p) EXCEPT !.transport = Via(n), !.tls = t] :
            p \in {"TROJAN", "vless", "vmess"},
            n \in {"TCP", "ws", "httpupgrade", "grpc", "h2", "quic"},
            t \in {None, [server_name |-> ""]}}
    \cup {[Plain("vless") EXCEPT !.tls = [server_name |-> "name"], !.method = "xtls-rprx-vision"]}

\* The same with one setting that is missing, wrong or out of place.
Changed(o) ==
  {[o EXCEPT !.tag = ""], [o EXCEPT !.protocol = "hysteria"], [o EXCEPT !.address = ""],
   [o EXCEPT !.port = None], [o EXCEPT !.username = "name"], [o EXCEPT !.password = ""],
   [o EXCEPT !.method = "xtls-rprx-vision"], [o EXCEPT !.method = "rot13"],
   [o EXCEPT !.tls = [server_name |-> "bad name"]]}
  \cup IF o.transport = None THEN {[o EXCEPT !.transport = Via("kcp")]} ELSE
  {[o EXCEPT !.transport.network = "kcp"], [o EXCEPT !.transport.path = "/"],
   [o EXCEPT !.transport.service_name = "name"], [o EXCEPT !.transport.method = "bad method"],
   [o EXCEPT !.transport.headers = {"bad header"}],
   [o EXCEPT !.transport.quic_security = "aes-128-gcm"],
   [o EXCEPT !.transport.quic_key = "key"], [o EXCEPT !.transport.quic_header_type = "srtp"]}

MCConfigs == UNION {{o} \cup Changed(o) : o \in Proper}

-----------------------------------------------------------------------------
useVars == <<outbound, udp, steps, result, resets, task, ready, bridge, user, server, told>>

UseRests ==
  /\ outbound = Plain("freedom") /\ udp = FALSE
  /\ steps = <<>> /\ result = "error" /\ resets = 0
  /\ task = Use!NoWorker /\ ready = "none" /\ bridge = Use!NoBridge
  /\ user = "none" /\ server = "silent" /\ told = FALSE

MCInit ==
  \/ part = "pool" /\ Init /\ UseRests
  \/ part = "use" /\ Init /\ Use!Init

MCNext ==
  /\ UNCHANGED part
  /\ \/ part = "pool" /\ Next /\ UNCHANGED useVars
     \/ part = "use" /\ Use!Next /\ UNCHANGED vars

MCSpec ==
  /\ MCInit /\ [][MCNext]_<<part, vars, useVars>>
  /\ \A s \in Submitters : WF_vars(Submit(s) /\ pc[s] # "submit")
  /\ \A w \in Workers : WF_vars(run_worker(w))
  /\ Use!Fairness
=============================================================================
