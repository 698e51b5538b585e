---------------------------- MODULE DeviceLimits ----------------------------
(***************************************************************************)
(* UserSessionTracker (limits.rs): the per-user device limit.  All state   *)
(* is keyed by the user, so the module follows one user.  A connection     *)
(* handler acquires a session in two critical sections, first under the    *)
(* devices mutex (the pending and the known addresses of a node), then     *)
(* under the user's session shard (the devices with a session, shared by   *)
(* all nodes), and releases it in two more when its guard is dropped.  The *)
(* control plane revokes the user, installs the panel's snapshots and      *)
(* commits online reports in between.                                      *)
(*                                                                         *)
(* Time appears only as order: an address was reported before or after the *)
(* node's last snapshot, and expires from the reports at any moment after  *)
(* (REPORTED_ALIVE_BRIDGE_TTL).  A device_limit of 0 is not tracked.       *)
(***************************************************************************)
EXTENDS Integers, FiniteSets

CONSTANTS
  Clients,      \* connection handlers
  Ips,          \* client addresses
  Nodes,        \* node tags of the inbounds
  Limit,        \* the user's device_limit
  Policies,     \* values of udp_rebind_tolerant in use
  PanelNodes,   \* nodes the panel sends snapshots and reports for
  AliveCounts,  \* alive counts the panel's snapshots carry
  Revocations,  \* bound: how often the user is revoked
  NoIp          \* a handler without a client address

VARIABLES
  ips,          \* UserSessionState.ips: sessions per address
  anonymous,    \* UserSessionState.anonymous
  pending,      \* pending addresses per node
  alive,        \* snapshot: alive devices per node
  alive_ips,    \* snapshot: alive addresses per node, in mode 1
  reported,     \* reported addresses per node: "no", "old" or "new"
  place,        \* where each handler is
  req,          \* the node tag, address and policy a busy handler works with
  revoking,     \* revoke_users is between its two critical sections
  revocations,  \* how often the user was revoked
  tolerated     \* some handler of the rebind-tolerant policy was admitted

device_vars == <<ips, anonymous, pending, alive, alive_ips, reported, place, req, revoking,
                 revocations, tolerated>>

ASSUME ClientsAssumption == IsFiniteSet(Clients) /\ IsFiniteSet(Ips)
ASSUME LimitAssumption == Limit \in Nat \ {0}
ASSUME PolicyAssumption ==
  Policies \subseteq BOOLEAN /\ AliveCounts \subseteq Nat /\ PanelNodes \subseteq Nodes
ASSUME IpAssumption == NoIp \notin Ips

Request == [node : Nodes, ip : Ips \cup {NoIp}, tolerant : BOOLEAN]

-----------------------------------------------------------------------------
(* What the two maps say.                                                  *)

is_known_alive_ip(n, ip) == reported[n][ip] # "no" \/ ip \in alive_ips[n]

known_device_count(n) == alive[n] + Cardinality({ip \in Ips : reported[n][ip] = "new"})

Unknown(n, addresses) == {ip \in addresses : ~ is_known_alive_ip(n, ip)}

Devices == {ip \in Ips : ips[ip] > 0}

device_count == Cardinality(Devices) + anonymous

\* drop_one_pending_unknown_ip: what may remain pending at node n when a
\* tolerant handler finds its node full.
PendingAfterDrop(n, ip, tolerant) ==
  LET unknown == Unknown(n, pending[n])
  IN  IF /\ ip \notin pending[n] /\ ~ is_known_alive_ip(n, ip)
         /\ Limit <= known_device_count(n) + Cardinality(unknown)
         /\ tolerant /\ known_device_count(n) > 0
         /\ unknown # {}
      THEN {pending[n] \ {x} : x \in unknown}
      ELSE {pending[n]}

\* check_device_limit_ip returns Ok with p left pending.
Admits(n, ip, tolerant, p) ==
  LET total == known_device_count(n) + Cardinality(Unknown(n, p))
  IN  \/ ip \in pending[n]
      \/ is_known_alive_ip(n, ip)
      \/ total < Limit
      \/ tolerant /\ known_device_count(n) > 0 /\ total = Limit

-----------------------------------------------------------------------------
DevicesInit ==
  /\ ips = [ip \in Ips |-> 0]
  /\ anonymous = 0
  /\ pending = [n \in Nodes |-> {}]
  /\ alive = [n \in Nodes |-> 0]
  /\ alive_ips = [n \in Nodes |-> {}]
  /\ reported = [n \in Nodes |-> [ip \in Ips |-> "no"]]
  /\ place = [c \in Clients |-> "idle"]
  /\ req = [c \in Clients |-> NoIp]
  /\ revoking = FALSE
  /\ revocations = 0
  /\ tolerated = FALSE

MoveTo(c, label) == place' = [place EXCEPT ![c] = label] /\ UNCHANGED <<req, tolerated>>

Arrive(c, n, ip, tolerant) ==
  /\ place' = [place EXCEPT ![c] = "enter"]
  /\ req' = [req EXCEPT ![c] = [node |-> n, ip |-> ip, tolerant |-> tolerant]]
  /\ tolerated' = IF tolerant THEN TRUE ELSE tolerated

Finish(c) ==
  /\ place' = [place EXCEPT ![c] = "idle"]
  /\ req' = [req EXCEPT ![c] = NoIp]
  /\ UNCHANGED tolerated

Known == <<alive, alive_ips, reported>>
Control == <<revoking, revocations>>

\* try_acquire_for_node_ip_with_policy without an address skips the check.
StartAnonymous(c, n) ==
  /\ place[c] = "idle"
  /\ Arrive(c, n, NoIp, FALSE)
  /\ UNCHANGED <<ips, anonymous, pending, Known, Control>>

\* The first critical section: check_device_limit_ip.
check_device_limit_ip(c, n, ip, tolerant) ==
  /\ place[c] = "idle"
  /\ \E p \in PendingAfterDrop(n, ip, tolerant) :
       \/ /\ Admits(n, ip, tolerant, p)
          /\ pending' = [pending EXCEPT ![n] = p \cup {ip}]
          /\ Arrive(c, n, ip, tolerant)
       \/ /\ ~ Admits(n, ip, tolerant, p)
          /\ pending' = [pending EXCEPT ![n] = p]
          /\ UNCHANGED <<req, place, tolerated>>
  /\ UNCHANGED <<ips, anonymous, Known, Control>>

\* Mutant: the session is counted before the limit is looked at.
EnterIpCountsFirst(c) ==
  /\ place[c] = "enter"
  /\ req[c].ip # NoIp
  /\ ips' = [ips EXCEPT ![req[c].ip] = @ + 1]
  /\ MoveTo(c, IF ips[req[c].ip] = 0 /\ ~ req[c].tolerant /\ device_count >= Limit
               THEN "undo" ELSE "held")
  /\ UNCHANGED <<anonymous, pending, Known, Control>>

\* Mutant: the check under the devices lock is trusted.
EnterIpUnchecked(c) ==
  /\ place[c] = "enter"
  /\ req[c].ip # NoIp
  /\ ips' = [ips EXCEPT ![req[c].ip] = @ + 1]
  /\ MoveTo(c, "held")
  /\ UNCHANGED <<anonymous, pending, Known, Control>>

\* The second critical section for a handler with an address.  One over the
\* limit still has to take its address out of the pending ones.
EnterIp(c) ==
  LET ip == req[c].ip
  IN  /\ place[c] = "enter"
      /\ ip # NoIp
      /\ IF ips[ip] = 0 /\ ~ req[c].tolerant /\ device_count >= Limit
         THEN MoveTo(c, "undo") /\ UNCHANGED ips
         ELSE MoveTo(c, "held") /\ ips' = [ips EXCEPT ![ip] = @ + 1]
      /\ UNCHANGED <<anonymous, pending, Known, Control>>

EnterAnonymous(c) ==
  /\ place[c] = "enter"
  /\ req[c].ip = NoIp
  /\ IF device_count >= Limit
     THEN Finish(c) /\ UNCHANGED anonymous
     ELSE MoveTo(c, "held") /\ anonymous' = anonymous + 1
  /\ UNCHANGED <<ips, pending, Known, Control>>

\* Dropping the guard: UserSessionState::release under the shard lock.
release(c) ==
  LET ip == req[c].ip
  IN  /\ place[c] = "held"
      /\ \/ /\ ip = NoIp
            /\ anonymous' = IF anonymous > 0 THEN anonymous - 1 ELSE 0
            /\ Finish(c)
            /\ UNCHANGED ips
         \/ /\ ip # NoIp
            /\ ips' = [ips EXCEPT ![ip] = IF @ > 0 THEN @ - 1 ELSE 0]
            /\ IF ips[ip] = 1 THEN MoveTo(c, "unpend") ELSE Finish(c)
            /\ UNCHANGED anonymous
      /\ UNCHANGED <<pending, Known, Control>>

\* remove_pending_ip_for_user, after a rejection or the last release.
remove_pending_ip(c) ==
  /\ place[c] \in {"undo", "unpend"}
  /\ pending' = [pending EXCEPT ![req[c].node] = @ \ {req[c].ip}]
  /\ Finish(c)
  /\ UNCHANGED <<ips, anonymous, Known, Control>>

\* revoke_users, or sync_users with a list that lacks the user: the session
\* shard first, ...
revoke_sessions ==
  /\ ~ revoking
  /\ revocations < Revocations
  /\ ips' = [ip \in Ips |-> 0]
  /\ anonymous' = 0
  /\ revoking' = TRUE
  /\ revocations' = revocations + 1
  /\ UNCHANGED <<pending, Known, place, req, tolerated>>

\* ... then the pending addresses of every node.
revoke_pending ==
  /\ revoking
  /\ pending' = [n \in Nodes |-> {}]
  /\ revoking' = FALSE
  /\ UNCHANGED <<ips, anonymous, Known, place, req, revocations, tolerated>>

\* A snapshot of the panel; what was reported before no longer counts beside
\* its alive count.
apply_device_limit_snapshot(n, count, addresses) ==
  /\ alive' = [alive EXCEPT ![n] = count]
  /\ alive_ips' = [alive_ips EXCEPT ![n] = addresses]
  /\ reported' = [reported EXCEPT ![n] =
                    [ip \in Ips |-> IF @[ip] = "new" THEN "old" ELSE @[ip]]]
  /\ UNCHANGED <<ips, anonymous, pending, place, req, Control, tolerated>>

commit_device_limit_report(n, ip) ==
  /\ reported' = [reported EXCEPT ![n][ip] = "new"]
  /\ pending' = [pending EXCEPT ![n] = @ \ {ip}]
  /\ UNCHANGED <<ips, anonymous, alive, alive_ips, place, req, Control, tolerated>>

\* Time passes: prune_reported will not find the address any more.
prune_reported(n, ip) ==
  /\ reported[n][ip] # "no"
  /\ reported' = [reported EXCEPT ![n][ip] = "no"]
  /\ UNCHANGED <<ips, anonymous, pending, alive, alive_ips, place, req, Control, tolerated>>

SessionStep(c) ==
  \/ \E n \in Nodes : StartAnonymous(c, n)
  \/ \E n \in Nodes, ip \in Ips, tolerant \in Policies :
       check_device_limit_ip(c, n, ip, tolerant)
  \/ EnterIp(c)
  \/ EnterAnonymous(c)
  \/ release(c)
  \/ remove_pending_ip(c)

Panel ==
  \/ \E n \in PanelNodes, count \in AliveCounts, addresses \in SUBSET Ips :
       apply_device_limit_snapshot(n, count, addresses)
  \/ \E n \in PanelNodes, ip \in Ips :
       commit_device_limit_report(n, ip) \/ prune_reported(n, ip)

DevicesNext ==
  \/ \E c \in Clients : SessionStep(c)
  \/ revoke_sessions
  \/ revoke_pending
  \/ Panel

DevicesSpec == DevicesInit /\ [][DevicesNext]_device_vars

-----------------------------------------------------------------------------
(* Properties.                                                             *)

Holders(ip) == {c \in Clients : place[c] = "held" /\ req[c].ip = ip}

\* The variables hold values of their types (limits.rs 26-30, 124-149).
DevicesTypeOK ==
  /\ ips \in [Ips -> Nat]
  /\ anonymous \in Nat
  /\ pending \in [Nodes -> SUBSET Ips]
  /\ alive \in [Nodes -> Nat]
  /\ alive_ips \in [Nodes -> SUBSET Ips]
  /\ reported \in [Nodes -> [Ips -> {"no", "old", "new"}]]
  /\ place \in [Clients -> {"idle", "enter", "undo", "held", "unpend"}]
  /\ req \in [Clients -> Request \cup {NoIp}]
  /\ revoking \in BOOLEAN
  /\ revocations \in Nat
  /\ tolerated \in BOOLEAN

\* No phantom device: an address never counts more sessions than handlers
\* hold on it, nor the anonymous counter more than its holders, across any
\* revocation; so a client that left never occupies a slot (limits.rs
\* 539-557, 1017-1042).
NoPhantomDevice ==
  /\ \A ip \in Ips : ips[ip] <= Cardinality(Holders(ip))
  /\ anonymous <= Cardinality(Holders(NoIp))

\* Until the user is first revoked, and as long as all handlers are strict,
\* the devices that hold sessions, on all nodes together, never exceed the
\* limit, whatever two handlers did between their two critical sections
\* (limits.rs 220-268).
DevicesWithinLimit ==
  revocations = 0 /\ ~ tolerated =>
    Cardinality({ip \in Ips : Holders(ip) # {}}) + Cardinality(Holders(NoIp)) <= Limit

=============================================================================
