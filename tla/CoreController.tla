---------------------------- MODULE CoreController ----------------------------
(***************************************************************************)
(* The control plane of the core: CoreController (control.rs) owns a       *)
(* RuntimeState (runtime.rs: the active config fingerprint and the status  *)
(* reported to the agent) and an optional CoreService (service.rs: the     *)
(* running config, the listeners, the per-inbound user revisions and the   *)
(* per-inbound user fingerprints).  Commands are serialised by the mutex   *)
(* the control server holds around CoreController::handle, so one command  *)
(* is one action.                                                          *)
(*                                                                         *)
(* Abstractions.  A config is its structural parts: "core" stands for      *)
(* instance_id, log_level, dns, policy and stats; "routes" for the global  *)
(* routes and the outbounds; an inbound has a shape (protocol, transport,  *)
(* TLS, ...), a port (listen address and port), its own routes and its     *)
(* users.  The 64-bit hashes of configs and users are taken to be          *)
(* injective, so a fingerprint is the value it was computed from.  The     *)
(* order of the inbounds in a config is left out: when a start fails, any  *)
(* of the other listeners may have been started before.                    *)
(***************************************************************************)
EXTENDS Integers

CONSTANTS
  Tags,            \* inbound tags
  Ports,           \* listen addresses with their ports
  Shapes,          \* inbound shapes: everything of an inbound but the rest
  TcpShapes,       \* the shapes that bind a TCP socket
  UdpShapes,       \* the shapes that bind a UDP socket
  QuicShapes,      \* the shapes that bind a QUIC endpoint (a UDP socket)
  Routes,          \* route tables, with the outbounds they name
  Cores,           \* instance, log, dns, policy and stats sections
  Invalid,         \* the shapes, routes and cores CoreConfig::validate rejects
  Uuids,           \* user uuids
  Records,         \* contents of a user record: credential, limits, ...
  Revisions,       \* user-table revisions the agent assigns
  Configs,         \* the configs the agent sends
  Deltas,          \* the user deltas the agent sends
  None             \* Option::None

VARIABLES
  active_fingerprint,  \* RuntimeState.active_fingerprint
  status,              \* RuntimeState.status
  service,             \* CoreController.service
  dns,                 \* the process-wide DNS configuration of dns.rs
  orphans              \* addresses where a listener accepts whose handle was
                       \* dropped without being stopped

vars == <<active_fingerprint, status, service, dns, orphans>>

-----------------------------------------------------------------------------
(* The data the commands carry.                                            *)

UserTable == [Uuids -> Records \cup {None}]

NoUsers == [u \in Uuids |-> None]

InboundConfig == [shape : Shapes, port : Ports, routes : Routes, users : UserTable]

CoreConfig ==
  [core : Cores, routes : Routes, inbounds : [Tags -> InboundConfig \cup {None}]]

CoreUserDelta ==
  [full : UserTable \cup {None}, added : UserTable, updated : UserTable,
   deleted : SUBSET Uuids,
   base_revision : Revisions \cup {None}, revision : Revisions \cup {None}]

\* A listener handle: what start_listener_handle bound, the resolved routes
\* and the user table its server authenticates against.
ListenerHandle ==
  [shape : Shapes, port : Ports, routes : Routes \X Routes, users : UserTable]

CoreService ==
  [config : CoreConfig,
   listeners : [Tags -> ListenerHandle \cup {None}],
   user_revisions : [Tags -> Revisions \cup {None}],
   user_fingerprints : [Tags -> UserTable \cup {None}]]

ASSUME DataAssumption ==
  /\ Configs \subseteq CoreConfig
  /\ Deltas \subseteq CoreUserDelta

ASSUME NoneAssumption ==
  /\ None \notin Records
  /\ None \notin Revisions
  /\ None \notin UserTable
  /\ None \notin InboundConfig
  /\ None \notin ListenerHandle
  /\ None \notin CoreConfig
  /\ None \notin CoreService

-----------------------------------------------------------------------------
(* Predicates on configs.                                                  *)

Present(c) == {t \in Tags : c.inbounds[t] # None}

\* CoreConfig::validate
Valid(c) ==
  /\ Present(c) # {}
  /\ c.core \notin Invalid
  /\ c.routes \notin Invalid
  /\ \A t \in Present(c) : /\ c.inbounds[t].shape \notin Invalid
                           /\ c.inbounds[t].routes \notin Invalid

\* validate_unique_listener_binds
UniqueBinds(c) ==
  \A s, t \in Present(c) :
    /\ s # t
    /\ c.inbounds[s].port = c.inbounds[t].port
    => \A shapes \in {TcpShapes, UdpShapes} :
         ~ ({c.inbounds[s].shape, c.inbounds[t].shape} \subseteq shapes)

inbound_without_users(i) == [i EXCEPT !.users = NoUsers]

config_without_users(c) ==
  [c EXCEPT !.inbounds =
     [t \in Tags |-> IF c.inbounds[t] = None THEN None
                     ELSE inbound_without_users(c.inbounds[t])]]

inbound_eq_without_users_routes(i, j) == i.shape = j.shape /\ i.port = j.port

listener_bind_eq(i, j) == i.port = j.port

config_eq_without_users(c, d) == config_without_users(c) = config_without_users(d)

config_eq_without_users_routes_and_outbounds(c, d) ==
  /\ c.core = d.core
  /\ Present(c) = Present(d)
  /\ \A t \in Present(c) :
       inbound_eq_without_users_routes(c.inbounds[t], d.inbounds[t])

config_allows_listener_level_update(c, d) == c.core = d.core

QuicTags(c) == {t \in Present(c) : c.inbounds[t].shape \in QuicShapes}

quic_listener_structures_unchanged(c, d) ==
  /\ QuicTags(c) = QuicTags(d)
  /\ \A t \in QuicTags(c) :
       inbound_eq_without_users_routes(c.inbounds[t], d.inbounds[t])

resolved_inbound_routes(c, t) == <<c.routes, c.inbounds[t].routes>>

-----------------------------------------------------------------------------
(* User tables and their fingerprints.                                     *)

\* UserStore::apply_uuid_delta: the server's own table.  An update of a user
\* that is not in the table is only counted (missing_updated).
apply_uuid_delta(users, d) ==
  IF d.full # None THEN d.full
  ELSE [u \in Uuids |->
          IF u \in d.deleted THEN None
          ELSE IF d.updated[u] # None /\ (users[u] # None \/ d.added[u] # None)
               THEN d.updated[u]
          ELSE IF d.added[u] # None THEN d.added[u]
          ELSE users[u]]

\* Mutant: the updated users are not inserted.
fingerprint_ignores_updates(fingerprint, d) ==
  IF d.full # None THEN d.full
  ELSE [u \in Uuids |->
          IF u \in d.deleted THEN None
          ELSE IF d.added[u] # None THEN d.added[u]
          ELSE IF fingerprint = None THEN None ELSE fingerprint[u]]

\* UserFingerprintState::apply_delta: added and updated are both inserted.
fingerprint_apply_delta(fingerprint, d) ==
  IF d.full # None THEN d.full
  ELSE [u \in Uuids |->
          IF u \in d.deleted THEN None
          ELSE IF d.updated[u] # None THEN d.updated[u]
          ELSE IF d.added[u] # None THEN d.added[u]
          ELSE IF fingerprint = None THEN None ELSE fingerprint[u]]

-----------------------------------------------------------------------------
(* The service: what CoreService's operations make of it.                  *)

\* start_listener_handle
start_listener_handle(c, t) ==
  [shape |-> c.inbounds[t].shape, port |-> c.inbounds[t].port,
   routes |-> resolved_inbound_routes(c, t), users |-> c.inbounds[t].users]

\* A service with every listener of c started.
StartedService(c) ==
  [config |-> config_without_users(c),
   listeners |-> [t \in Tags |-> IF t \in Present(c) THEN start_listener_handle(c, t)
                                 ELSE None],
   user_revisions |-> [t \in Tags |-> None],
   user_fingerprints |-> [t \in Tags |-> IF t \in Present(c) THEN c.inbounds[t].users
                                         ELSE None]]

\* Mutant: only the uuids are compared, not the contents of the records.
UsersChangedByUuid(c) ==
  {t \in Present(c) :
     \/ service.user_fingerprints[t] = None
     \/ \E u \in Uuids :
          (service.user_fingerprints[t][u] = None) # (c.inbounds[t].users[u] = None)}

\* The inbounds of c whose user fingerprint differs from the remembered one:
\* only their listeners get replace_users.
UsersChanged(c) ==
  {t \in Present(c) : service.user_fingerprints[t] # c.inbounds[t].users}

can_update_users(c) == config_eq_without_users(service.config, c)

can_update_routes(c) ==
  config_eq_without_users_routes_and_outbounds(service.config, c)

UpdatedRevisions(c) ==
  [t \in Tags |-> IF t \in UsersChanged(c) THEN None ELSE service.user_revisions[t]]

UpdatedFingerprints(c) ==
  [t \in Tags |-> IF t \in UsersChanged(c) THEN c.inbounds[t].users
                  ELSE service.user_fingerprints[t]]

update_users(c) ==
  [config |-> config_without_users(c),
   listeners |->
     [t \in Tags |->
        IF service.listeners[t] # None /\ t \in UsersChanged(c)
        THEN [service.listeners[t] EXCEPT !.users = c.inbounds[t].users]
        ELSE service.listeners[t]],
   user_revisions |-> UpdatedRevisions(c),
   user_fingerprints |-> UpdatedFingerprints(c)]

\* Mutant: the routes of a kept listener are not replaced.
KeptListenerUsersOnly(c, t) ==
  [service.listeners[t] EXCEPT
     !.users = IF t \in UsersChanged(c) THEN c.inbounds[t].users ELSE @]

\* A kept listener of update_routes_and_users and of the listener-level
\* update: users only if their fingerprint changed, routes always.
KeptListener(c, t) ==
  [service.listeners[t] EXCEPT
     !.users = IF t \in UsersChanged(c) THEN c.inbounds[t].users ELSE @,
     !.routes = resolved_inbound_routes(c, t)]

update_routes_and_users(c) ==
  [config |-> config_without_users(c),
   listeners |->
     [t \in Tags |-> IF service.listeners[t] # None /\ t \in Present(c)
                     THEN KeptListener(c, t) ELSE service.listeners[t]],
   user_revisions |-> UpdatedRevisions(c),
   user_fingerprints |-> UpdatedFingerprints(c)]

update_routes(c) ==
  [config |-> config_without_users(c),
   listeners |->
     [t \in Tags |->
        IF service.listeners[t] # None /\ t \in Present(c)
        THEN [service.listeners[t] EXCEPT !.routes = resolved_inbound_routes(c, t)]
        ELSE service.listeners[t]],
   user_revisions |-> service.user_revisions,
   user_fingerprints |-> service.user_fingerprints]

\* The inbounds of c that need a listener of their own.
NeedNewListener(c) ==
  {t \in Present(c) :
     \/ service.config.inbounds[t] = None
     \/ ~ inbound_eq_without_users_routes(service.config.inbounds[t], c.inbounds[t])}

\* The inbounds that need a new listener on the address the old one holds.
RebindInPlace(c) ==
  {t \in NeedNewListener(c) :
     /\ service.config.inbounds[t] # None
     /\ listener_bind_eq(service.config.inbounds[t], c.inbounds[t])}

\* update_changed_listeners_and_users does not return Ok(false) early.
ListenerLevelUpdate(c) ==
  /\ config_allows_listener_level_update(service.config, c)
  /\ quic_listener_structures_unchanged(service.config, c)

\* The result of update_changed_listeners_and_users when every new listener
\* started: new ones replace old ones, kept ones are patched, the rest stop.
SwappedService(c) ==
  [config |-> config_without_users(c),
   listeners |->
     [t \in Tags |-> IF t \notin Present(c) THEN None
                     ELSE IF t \in NeedNewListener(c) THEN start_listener_handle(c, t)
                     ELSE IF service.listeners[t] # None THEN KeptListener(c, t)
                     ELSE None],
   user_revisions |->
     [t \in Tags |-> IF t \in Present(c) \ (NeedNewListener(c) \cup UsersChanged(c))
                     THEN service.user_revisions[t] ELSE None],
   user_fingerprints |->
     [t \in Tags |-> IF t \in Present(c) THEN c.inbounds[t].users ELSE None]]

-----------------------------------------------------------------------------
Init ==
  /\ active_fingerprint = None
  /\ status = "Stopped"
  /\ service = None
  /\ dns = None
  /\ orphans = {}

(* ApplyConfig: CoreController::apply_config, one action per way out.      *)

NeedsReload(c) == Valid(c) /\ active_fingerprint # c

Applied(c) == active_fingerprint' = c /\ status' = "Running"

\* RuntimeState::plan rejects the config.
ApplyInvalidConfig(c) ==
  /\ ~ Valid(c)
  /\ status' = "Failed"
  /\ UNCHANGED <<active_fingerprint, service, dns, orphans>>

\* The fingerprint is the active one: nothing is done.
ApplyNoop(c) ==
  /\ Valid(c)
  /\ active_fingerprint = c
  /\ status' = "Running"
  /\ UNCHANGED <<active_fingerprint, service, dns, orphans>>

ApplyUsers(c) ==
  /\ NeedsReload(c)
  /\ service # None
  /\ can_update_users(c)
  /\ service' = update_users(c)
  /\ Applied(c)
  /\ UNCHANGED <<dns, orphans>>

ApplyRoutesAndUsers(c) ==
  /\ NeedsReload(c)
  /\ service # None
  /\ ~ can_update_users(c)
  /\ can_update_routes(c)
  /\ service' = update_routes_and_users(c)
  /\ Applied(c)
  /\ UNCHANGED <<dns, orphans>>

\* The config reaches update_changed_listeners_and_users.
ChangesListeners(c) ==
  /\ NeedsReload(c)
  /\ service # None
  /\ ~ can_update_users(c)
  /\ ~ can_update_routes(c)

\* Two inbounds on one address: rejected before anything is touched.
ApplyConflictingBinds(c) ==
  /\ \/ ChangesListeners(c)
     \/ NeedsReload(c) /\ service = None
  /\ ~ UniqueBinds(c)
  /\ status' = "Failed"
  /\ UNCHANGED <<active_fingerprint, service, dns, orphans>>

ApplyListeners(c) ==
  /\ ChangesListeners(c)
  /\ UniqueBinds(c)
  /\ ListenerLevelUpdate(c)
  /\ RebindInPlace(c) = {}
  /\ ~ (NeedNewListener(c) = {} /\ Present(service.config) = Present(c))
  /\ service' = SwappedService(c)
  /\ Applied(c)
  /\ UNCHANGED <<dns, orphans>>

\* A new listener fails to start: the new ones are stopped, the old service
\* keeps running.
ApplyListenersFails(c) ==
  /\ ChangesListeners(c)
  /\ UniqueBinds(c)
  /\ ListenerLevelUpdate(c)
  /\ NeedNewListener(c) \ RebindInPlace(c) # {}
  /\ status' = "Failed"
  /\ UNCHANGED <<active_fingerprint, service, dns, orphans>>

\* The old service, if any, is stopped and CoreService::start is called.
FullReload(c) ==
  /\ UniqueBinds(c)
  /\ \/ NeedsReload(c) /\ service = None
     \/ /\ ChangesListeners(c)
        /\ \/ ~ ListenerLevelUpdate(c)
           \/ RebindInPlace(c) # {}
           \/ NeedNewListener(c) = {} /\ Present(service.config) = Present(c)

ApplyReload(c) ==
  /\ FullReload(c)
  /\ service' = StartedService(c)
  /\ dns' = c.core
  /\ Applied(c)
  /\ UNCHANGED orphans

\* CoreService::start fails at some listener.  dns::configure has run, the
\* old service is gone, and the handles of the listeners started before are
\* dropped without being stopped: ListenerHandle has no Drop.
ApplyReloadFails(c) ==
  /\ FullReload(c)
  /\ \E started \in SUBSET Present(c) :
       /\ started # Present(c)
       /\ orphans' = orphans \cup {c.inbounds[t].port : t \in started}
  /\ service' = None
  /\ dns' = c.core
  /\ status' = "Failed"
  /\ UNCHANGED active_fingerprint

ApplyConfig(c) ==
  \/ ApplyInvalidConfig(c)
  \/ ApplyNoop(c)
  \/ ApplyUsers(c)
  \/ ApplyRoutesAndUsers(c)
  \/ ApplyConflictingBinds(c)
  \/ ApplyListeners(c)
  \/ ApplyListenersFails(c)
  \/ ApplyReload(c)
  \/ ApplyReloadFails(c)

\* Mutant: the active fingerprint survives a hot update.
RuntimeUpdatedKeepsFingerprint ==
  status' = "Running" /\ UNCHANGED active_fingerprint

\* RuntimeState::apply_runtime_update
RuntimeUpdated == active_fingerprint' = None /\ status' = "Running"

\* CoreController::apply_routes; a config that needs a reload is refused.
ApplyRoutes(c) ==
  /\ service # None
  /\ can_update_routes(c)
  /\ service' = update_routes(c)
  /\ RuntimeUpdated
  /\ UNCHANGED <<dns, orphans>>

\* Mutant: the base revision is not compared.
RevisionUnchecked(t, d) == TRUE

\* The revision check of CoreService::apply_user_delta.
RevisionMatches(t, d) ==
  d.full # None \/ d.base_revision = None \/ d.base_revision = service.user_revisions[t]

\* CoreController::apply_user_delta; a refused delta changes nothing.
ApplyUserDelta(t, d) ==
  /\ service # None
  /\ service.listeners[t] # None
  /\ RevisionMatches(t, d)
  /\ service' =
       [service EXCEPT
          !.listeners[t].users = apply_uuid_delta(@, d),
          !.user_fingerprints[t] = fingerprint_apply_delta(@, d),
          !.user_revisions[t] = IF d.revision # None THEN d.revision
                                ELSE IF d.full # None THEN None ELSE @]
  /\ RuntimeUpdated
  /\ UNCHANGED <<dns, orphans>>

\* CoreCommand::Stop
Stop ==
  /\ service' = None
  /\ active_fingerprint' = None
  /\ status' = "Stopped"
  /\ UNCHANGED <<dns, orphans>>

Next ==
  \/ \E c \in Configs : ApplyConfig(c) \/ ApplyRoutes(c)
  \/ \E t \in Tags, d \in Deltas : ApplyUserDelta(t, d)
  \/ Stop

Spec == Init /\ [][Next]_vars

-----------------------------------------------------------------------------
(* Properties.                                                             *)

\* The variables hold values of their types (control.rs 84-89, runtime.rs
\* 28-33, service.rs 114-134).
TypeOK ==
  /\ active_fingerprint \in Configs \cup {None}
  /\ status \in {"Stopped", "Running", "Failed"}
  /\ service \in CoreService \cup {None}
  /\ dns \in Cores \cup {None}
  /\ orphans \subseteq Ports

\* Whatever mix of hot updates led here, the listeners that accept are the
\* inbounds of the running config: same tags, and for each the shape, the
\* address and the resolved routes the config gives it; and the process-wide
\* DNS configuration is the running config's (service.rs 322-513).
ListenersMatchConfig ==
  service # None =>
    /\ dns = service.config.core
    /\ \A t \in Tags :
         LET l == service.listeners[t]
             i == service.config.inbounds[t]
         IN  /\ (l = None) <=> (i = None)
             /\ l # None =>
                  /\ l.shape = i.shape
                  /\ l.port = i.port
                  /\ l.routes = resolved_inbound_routes(service.config, t)

\* A config remembered as active is the one the running service was last
\* given: its structure is the service's, its users are the remembered
\* fingerprints.  So ApplyConfig answers "noop" for nothing else while a
\* service runs (runtime.rs 81-83, control.rs 250-258).
FingerprintNamesService ==
  service # None /\ active_fingerprint # None =>
    /\ service.config = config_without_users(active_fingerprint)
    /\ \A t \in Present(active_fingerprint) :
         service.user_fingerprints[t] = active_fingerprint.inbounds[t].users

\* A user a listener accepts is one its remembered fingerprint knows with the
\* same contents, so a config or delta that drops or changes the user is never
\* taken for one that changes nothing (service.rs 330, 484, 541-544).
AcceptedUsersAreFingerprinted ==
  service # None =>
    \A t \in Tags : service.listeners[t] # None =>
      /\ service.user_fingerprints[t] # None
      /\ \A u \in Uuids :
           service.listeners[t].users[u] # None =>
             service.user_fingerprints[t][u] = service.listeners[t].users[u]

\* Once ApplyConfig has accepted a config, no listener accepts a user the
\* config does not list, nor an outdated record of one it does, even when the
\* listener was kept and its users were judged unchanged.
NoStaleUser ==
  service # None /\ active_fingerprint # None =>
    \A t \in Tags : service.listeners[t] # None =>
      \A u \in Uuids :
        service.listeners[t].users[u] # None =>
          active_fingerprint.inbounds[t].users[u] = service.listeners[t].users[u]

\* The users in force are those the controller remembers: its fingerprints know
\* every accepted user, and a config it accepted leaves none it dropped.
UsersAreCurrent == AcceptedUsersAreFingerprinted /\ NoStaleUser
=============================================================================
