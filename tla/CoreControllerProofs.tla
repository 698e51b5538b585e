------------------------- MODULE CoreControllerProofs -------------------------
(***************************************************************************)
(* The invariants of CoreController, and of UserSync, which extends it by  *)
(* the panel: proved for every set of tags, users, configs and deltas, and *)
(* for every number of revisions. At the end those of ListenerStart, by    *)
(* which the controller starts a listener.                                 *)
(***************************************************************************)
EXTENDS UserSync, CoreAndStart, Sequences, TLAPS

\* The listener of tag t is the one the config of service s describes.
ListenerMatches(s, t) ==
  /\ (s.listeners[t] = None) <=> (s.config.inbounds[t] = None)
  /\ s.listeners[t] # None =>
       /\ s.listeners[t].shape = s.config.inbounds[t].shape
       /\ s.listeners[t].port = s.config.inbounds[t].port
       /\ s.listeners[t].routes = resolved_inbound_routes(s.config, t)

\* The users the listener of tag t accepts are fingerprinted.
ListenerFingerprinted(s, t) ==
  s.listeners[t] # None =>
    /\ s.user_fingerprints[t] # None
    /\ \A u \in Uuids :
         s.listeners[t].users[u] # None =>
           s.user_fingerprints[t][u] = s.listeners[t].users[u]

\* What every operation of CoreService keeps true of the service.
ServiceOK(s) ==
  /\ s \in CoreService
  /\ \A t \in Tags : ListenerMatches(s, t) /\ ListenerFingerprinted(s, t)

\* s is the service config c was given to.
Holds(s, c) ==
  /\ s.config = config_without_users(c)
  /\ \A t \in Present(c) : s.user_fingerprints[t] = c.inbounds[t].users

\* The inductive invariant.
IInv ==
  /\ TypeOK
  /\ service # None =>
       /\ ServiceOK(service)
       /\ dns = service.config.core
       /\ active_fingerprint # None => Holds(service, active_fingerprint)

-----------------------------------------------------------------------------
\* Dropping the users of a config leaves everything else of it.
LEMMA WithoutUsers ==
  ASSUME NEW c \in CoreConfig
  PROVE  /\ config_without_users(c) \in CoreConfig
         /\ config_without_users(c).core = c.core
         /\ config_without_users(c).routes = c.routes
         /\ \A t \in Tags :
              /\ (config_without_users(c).inbounds[t] = None) <=> (c.inbounds[t] = None)
              /\ c.inbounds[t] # None =>
                   /\ config_without_users(c).inbounds[t].shape = c.inbounds[t].shape
                   /\ config_without_users(c).inbounds[t].port = c.inbounds[t].port
                   /\ config_without_users(c).inbounds[t].routes = c.inbounds[t].routes
<1> DEFINE ins == [t \in Tags |-> IF c.inbounds[t] = None THEN None
                                  ELSE inbound_without_users(c.inbounds[t])]
<1>1. NoUsers \in UserTable
  BY DEF NoUsers, UserTable
<1>2. \A t \in Tags : c.inbounds[t] # None =>
        /\ c.inbounds[t] \in InboundConfig
        /\ inbound_without_users(c.inbounds[t]) \in InboundConfig
        /\ inbound_without_users(c.inbounds[t]).shape = c.inbounds[t].shape
        /\ inbound_without_users(c.inbounds[t]).port = c.inbounds[t].port
        /\ inbound_without_users(c.inbounds[t]).routes = c.inbounds[t].routes
  BY <1>1 DEF CoreConfig, InboundConfig, inbound_without_users
<1>3. ins \in [Tags -> InboundConfig \cup {None}]
  BY <1>2
<1>4. /\ config_without_users(c) \in CoreConfig
      /\ config_without_users(c).core = c.core
      /\ config_without_users(c).routes = c.routes
      /\ config_without_users(c).inbounds = ins
  BY <1>3, ZenonT(30) DEF config_without_users, CoreConfig
<1>5. \A t \in Tags : c.inbounds[t] # None => inbound_without_users(c.inbounds[t]) # None
  BY <1>2, NoneAssumption
<1> QED
  BY <1>2, <1>4, <1>5

\* A started listener has the type of a handle and is not None.
LEMMA StartedListener ==
  ASSUME NEW c \in CoreConfig, NEW t \in Present(c)
  PROVE  /\ t \in Tags
         /\ c.inbounds[t] \in InboundConfig
         /\ c.inbounds[t].users \in UserTable
         /\ start_listener_handle(c, t) \in ListenerHandle
         /\ start_listener_handle(c, t) # None
<1>1. t \in Tags /\ c.inbounds[t] \in InboundConfig /\ c.routes \in Routes
  BY DEF Present, CoreConfig
<1>2. start_listener_handle(c, t) \in ListenerHandle
  BY <1>1 DEF start_listener_handle, resolved_inbound_routes, ListenerHandle, InboundConfig
<1> QED
  BY <1>1, <1>2, NoneAssumption DEF InboundConfig

\* CoreService::start
LEMMA StartedServiceOK ==
  ASSUME NEW c \in CoreConfig
  PROVE  ServiceOK(StartedService(c)) /\ Holds(StartedService(c), c)
<1> DEFINE s == StartedService(c)
<1>1. s \in CoreService
  BY WithoutUsers, StartedListener DEF StartedService, CoreService
<1>2. ASSUME NEW t \in Tags
      PROVE  ListenerMatches(s, t) /\ ListenerFingerprinted(s, t)
  <2>1. CASE t \in Present(c)
    <3>1. c.inbounds[t] # None
      BY <2>1 DEF Present
    <3>2. s.listeners[t] = start_listener_handle(c, t)
      BY <2>1, Zenon DEF StartedService
    <3>3. ListenerMatches(s, t)
      BY <2>1, <3>1, <3>2, WithoutUsers, StartedListener
      DEF ListenerMatches, StartedService, start_listener_handle, resolved_inbound_routes
    <3>4. s.user_fingerprints[t] = c.inbounds[t].users
      BY <2>1 DEF StartedService
    <3>5. ListenerFingerprinted(s, t)
      BY <2>1, <3>2, <3>4, StartedListener, NoneAssumption
      DEF ListenerFingerprinted, start_listener_handle
    <3> QED BY <3>3, <3>5
  <2>2. CASE t \notin Present(c)
    <3>1. c.inbounds[t] = None /\ s.listeners[t] = None
      BY <2>2, Zenon DEF Present, StartedService
    <3> QED
      BY <3>1, WithoutUsers
      DEF ListenerMatches, ListenerFingerprinted, StartedService
  <2> QED BY <2>1, <2>2
<1>3. Holds(s, c)
  BY DEF Holds, StartedService, Present
<1> QED BY <1>1, <1>2, <1>3 DEF ServiceOK

-----------------------------------------------------------------------------
\* Configs equal up to their users agree on all the rest.
LEMMA EqWithoutUsers ==
  ASSUME NEW c \in CoreConfig, NEW d \in CoreConfig, config_eq_without_users(c, d)
  PROVE  /\ c.core = d.core
         /\ c.routes = d.routes
         /\ Present(c) = Present(d)
         /\ \A t \in Present(c) : /\ c.inbounds[t].shape = d.inbounds[t].shape
                                  /\ c.inbounds[t].port = d.inbounds[t].port
                                  /\ c.inbounds[t].routes = d.inbounds[t].routes
BY WithoutUsers DEF config_eq_without_users, Present

\* What the invariant of the service says of one listener.
LEMMA ListenerOf ==
  ASSUME NEW s, ServiceOK(s), NEW t \in Tags, s.listeners[t] # None
  PROVE  /\ s.listeners[t] \in ListenerHandle
         /\ t \in Present(s.config)
         /\ s.user_fingerprints[t] \in UserTable
BY DEF ServiceOK, CoreService, ListenerMatches, ListenerFingerprinted, Present

\* The fingerprints after replace_users: for every inbound of c, c's users.
LEMMA FingerprintsUpdated ==
  ASSUME NEW c \in CoreConfig, service \in CoreService
  PROVE  /\ UpdatedFingerprints(c) \in [Tags -> UserTable \cup {None}]
         /\ UpdatedRevisions(c) \in [Tags -> Revisions \cup {None}]
         /\ \A t \in Present(c) : UpdatedFingerprints(c)[t] = c.inbounds[t].users
<1>1. \A t \in Tags : t \in UsersChanged(c) => c.inbounds[t].users \in UserTable
  BY StartedListener DEF UsersChanged
<1>2. \A t \in Tags : /\ service.user_fingerprints[t] \in UserTable \cup {None}
                      /\ service.user_revisions[t] \in Revisions \cup {None}
  BY DEF CoreService
<1>3. \A t \in Present(c) : t \in Tags
  BY DEF Present
<1> QED
  BY <1>1, <1>2, <1>3, ZenonT(30) DEF UpdatedFingerprints, UpdatedRevisions, UsersChanged

\* A user table that was fingerprinted, and is kept only when its fingerprint
\* is that of c's users, holds no user c does not have.
LEMMA UsersAfterUpdate ==
  ASSUME NEW c \in CoreConfig, NEW t \in Present(c), ServiceOK(service),
         service.listeners[t] # None, NEW u \in Uuids,
         NEW users,
         users = IF t \in UsersChanged(c) THEN c.inbounds[t].users
                 ELSE service.listeners[t].users,
         users[u] # None
  PROVE  c.inbounds[t].users[u] = users[u]
<1>1. t \in Tags
  BY DEF Present
<1>2. CASE t \in UsersChanged(c)
  BY <1>2
<1>3. CASE t \notin UsersChanged(c)
  <2>1. service.user_fingerprints[t] = c.inbounds[t].users
    BY <1>3 DEF UsersChanged
  <2> QED BY <1>1, <1>3, <2>1 DEF ServiceOK, ListenerFingerprinted
<1> QED BY <1>2, <1>3

\* CoreService::update_users
LEMMA UpdateUsersOK ==
  ASSUME NEW c \in CoreConfig, service # None, ServiceOK(service), can_update_users(c)
  PROVE  /\ ServiceOK(update_users(c))
         /\ Holds(update_users(c), c)
         /\ update_users(c).config.core = service.config.core
<1> DEFINE s == update_users(c)
<1>0. service \in CoreService /\ service.config \in CoreConfig
  BY DEF ServiceOK, CoreService
<1>1. /\ service.config.core = c.core
      /\ service.config.routes = c.routes
      /\ Present(service.config) = Present(c)
      /\ \A t \in Present(c) :
           /\ service.config.inbounds[t].shape = c.inbounds[t].shape
           /\ service.config.inbounds[t].port = c.inbounds[t].port
           /\ service.config.inbounds[t].routes = c.inbounds[t].routes
  BY <1>0, EqWithoutUsers DEF can_update_users
<1>2. ASSUME NEW t \in Tags, service.listeners[t] # None
      PROVE  /\ t \in Present(c)
             /\ s.listeners[t] \in ListenerHandle
             /\ s.listeners[t].shape = service.listeners[t].shape
             /\ s.listeners[t].port = service.listeners[t].port
             /\ s.listeners[t].routes = service.listeners[t].routes
             /\ s.listeners[t].users = IF t \in UsersChanged(c) THEN c.inbounds[t].users
                                       ELSE service.listeners[t].users
  <2>1. service.listeners[t] \in ListenerHandle /\ t \in Present(c)
    BY <1>1, <1>2, ListenerOf
  <2>2. c.inbounds[t].users \in UserTable
    BY <2>1, StartedListener
  <2>3. s.listeners[t] = IF t \in UsersChanged(c)
                         THEN [service.listeners[t] EXCEPT !.users = c.inbounds[t].users]
                         ELSE service.listeners[t]
    BY <1>2 DEF update_users
  <2> QED BY <2>1, <2>2, <2>3 DEF ListenerHandle
<1>3. \A t \in Tags : service.listeners[t] = None => s.listeners[t] = None
  BY DEF update_users
<1>4. s.listeners \in [Tags -> ListenerHandle \cup {None}]
  <2>1. s.listeners = [t \in Tags |-> s.listeners[t]]
    BY DEF update_users
  <2> QED BY <1>2, <1>3, <2>1
<1>5. s \in CoreService
  <2>1. config_without_users(c) \in CoreConfig
    BY WithoutUsers
  <2> QED BY <1>0, <1>4, <2>1, FingerprintsUpdated DEF update_users, CoreService
<1>6. ASSUME NEW t \in Tags
      PROVE  ListenerMatches(s, t) /\ ListenerFingerprinted(s, t)
  <2>1. CASE service.listeners[t] = None
    <3>1. service.config.inbounds[t] = None
      BY <2>1 DEF ServiceOK, ListenerMatches
    <3>2. c.inbounds[t] = None
      BY <1>1, <3>1 DEF Present
    <3> QED
      BY <1>3, <2>1, <3>2, WithoutUsers
      DEF ListenerMatches, ListenerFingerprinted, update_users
  <2>2. CASE service.listeners[t] # None
    <3>1. t \in Present(c) /\ c.inbounds[t] # None
      BY <1>2, <2>2 DEF Present
    <3>2. s.listeners[t] # None
      BY <1>2, <2>2, NoneAssumption
    <3>3. s.config = config_without_users(c)
      BY DEF update_users
    <3>4. ListenerMatches(service, t)
      BY ZenonT(30) DEF ServiceOK
    <3>5. ListenerMatches(s, t)
      BY <1>1, <1>2, <2>2, <3>1, <3>2, <3>3, <3>4, WithoutUsers
      DEF ListenerMatches, resolved_inbound_routes
    <3>6. s.user_fingerprints[t] = c.inbounds[t].users /\ c.inbounds[t].users # None
      BY <1>0, <3>1, FingerprintsUpdated, StartedListener, NoneAssumption, ZenonT(30) DEF update_users
    <3>7. ListenerFingerprinted(s, t)
      BY <1>2, <2>2, <3>1, <3>6, UsersAfterUpdate DEF ListenerFingerprinted
    <3> QED BY <3>5, <3>7
  <2> QED BY <2>1, <2>2, Zenon
<1>7. Holds(s, c)
  BY <1>0, FingerprintsUpdated DEF Holds, update_users
<1>8. s.config.core = service.config.core
  BY <1>1, WithoutUsers, Zenon DEF update_users
<1> QED BY <1>5, <1>6, <1>7, <1>8 DEF ServiceOK

-----------------------------------------------------------------------------
\* A listener kept by update_routes_and_users or by the listener-level update,
\* when c gives its inbound the shape and the port it has.
LEMMA Kept ==
  ASSUME NEW c \in CoreConfig, NEW t \in Present(c), ServiceOK(service),
         service.listeners[t] # None,
         service.config.inbounds[t].shape = c.inbounds[t].shape,
         service.config.inbounds[t].port = c.inbounds[t].port
  PROVE  /\ KeptListener(c, t) \in ListenerHandle
         /\ KeptListener(c, t).shape = c.inbounds[t].shape
         /\ KeptListener(c, t).port = c.inbounds[t].port
         /\ KeptListener(c, t).routes = resolved_inbound_routes(c, t)
         /\ \A u \in Uuids : KeptListener(c, t).users[u] # None =>
              c.inbounds[t].users[u] = KeptListener(c, t).users[u]
<1>1. t \in Tags /\ c.inbounds[t] \in InboundConfig /\ c.inbounds[t].users \in UserTable
  BY StartedListener
<1>2. service.listeners[t] \in ListenerHandle /\ ListenerMatches(service, t)
  BY <1>1, ListenerOf DEF ServiceOK
<1>3. resolved_inbound_routes(c, t) \in Routes \X Routes
  BY <1>1 DEF resolved_inbound_routes, CoreConfig, InboundConfig
<1>4. /\ KeptListener(c, t) \in ListenerHandle
      /\ KeptListener(c, t).shape = service.listeners[t].shape
      /\ KeptListener(c, t).port = service.listeners[t].port
      /\ KeptListener(c, t).routes = resolved_inbound_routes(c, t)
      /\ KeptListener(c, t).users = IF t \in UsersChanged(c) THEN c.inbounds[t].users
                                    ELSE service.listeners[t].users
  BY <1>1, <1>2, <1>3, ZenonT(30) DEF KeptListener, ListenerHandle
<1> QED
  BY <1>2, <1>4, UsersAfterUpdate, Zenon DEF ListenerMatches

\* A service whose config is c's, whose fingerprints are c's users and whose
\* listeners are c's inbounds, with no user c does not give them, is in order.
LEMMA BuiltForConfig ==
  ASSUME NEW c \in CoreConfig, NEW s,
         s = [config |-> config_without_users(c), listeners |-> s.listeners,
              user_revisions |-> s.user_revisions,
              user_fingerprints |-> s.user_fingerprints],
         s.listeners \in [Tags -> ListenerHandle \cup {None}],
         s.user_revisions \in [Tags -> Revisions \cup {None}],
         s.user_fingerprints \in [Tags -> UserTable \cup {None}],
         \A t \in Tags \ Present(c) : s.listeners[t] = None,
         \A t \in Present(c) :
           /\ s.listeners[t] # None
           /\ s.listeners[t].shape = c.inbounds[t].shape
           /\ s.listeners[t].port = c.inbounds[t].port
           /\ s.listeners[t].routes = resolved_inbound_routes(c, t)
           /\ s.user_fingerprints[t] = c.inbounds[t].users
           /\ \A u \in Uuids : s.listeners[t].users[u] # None =>
                c.inbounds[t].users[u] = s.listeners[t].users[u]
  PROVE  ServiceOK(s) /\ Holds(s, c) /\ s.config.core = c.core
<1>1. s \in CoreService
  BY WithoutUsers DEF CoreService
<1>2. s.config = config_without_users(c)
  OBVIOUS
<1>3. ASSUME NEW t \in Tags
      PROVE  ListenerMatches(s, t) /\ ListenerFingerprinted(s, t)
  <2>1. CASE t \in Present(c)
    <3>1. c.inbounds[t] # None
      BY <2>1, Zenon DEF Present
    <3>2. ListenerMatches(s, t)
      BY <1>2, <2>1, <3>1, WithoutUsers, SMTT(30) DEF ListenerMatches, resolved_inbound_routes
    <3>3. c.inbounds[t].users # None
      BY <2>1, StartedListener, NoneAssumption, SMTT(30)
    <3> QED BY <2>1, <3>2, <3>3 DEF ListenerFingerprinted
  <2>2. CASE t \notin Present(c)
    BY <1>2, <2>2, WithoutUsers DEF ListenerMatches, ListenerFingerprinted, Present
  <2> QED BY <2>1, <2>2, ZenonT(30)
<1>4. Holds(s, c)
  BY <1>2, Zenon DEF Holds
<1> QED BY <1>1, <1>2, <1>3, <1>4, WithoutUsers, ZenonT(30) DEF ServiceOK

\* CoreService::update_routes_and_users
LEMMA UpdateRoutesAndUsersOK ==
  ASSUME NEW c \in CoreConfig, service # None, ServiceOK(service), can_update_routes(c)
  PROVE  /\ ServiceOK(update_routes_and_users(c))
         /\ Holds(update_routes_and_users(c), c)
         /\ update_routes_and_users(c).config.core = service.config.core
<1> DEFINE s == update_routes_and_users(c)
<1>0. service \in CoreService /\ service.config \in CoreConfig
  BY DEF ServiceOK, CoreService
<1>1. /\ service.config.core = c.core
      /\ Present(service.config) = Present(c)
      /\ \A t \in Present(c) :
           /\ service.config.inbounds[t].shape = c.inbounds[t].shape
           /\ service.config.inbounds[t].port = c.inbounds[t].port
  BY DEF can_update_routes, config_eq_without_users_routes_and_outbounds,
         inbound_eq_without_users_routes
<1>2. \A t \in Tags : (service.listeners[t] # None) <=> (t \in Present(c))
  BY <1>1, ZenonT(30) DEF ServiceOK, ListenerMatches, Present
<1>3. \A t \in Tags : s.listeners[t] = IF t \in Present(c) THEN KeptListener(c, t) ELSE None
  BY <1>2, ZenonT(30) DEF update_routes_and_users
<1>4. \A t \in Present(c) : t \in Tags
  BY Zenon DEF Present
<1>5. s.listeners \in [Tags -> ListenerHandle \cup {None}]
  <2>1. s.listeners = [t \in Tags |-> s.listeners[t]]
    BY ZenonT(30) DEF update_routes_and_users
  <2> QED BY <1>1, <1>2, <1>3, <2>1, Kept
<1>6. ASSUME NEW t \in Present(c)
      PROVE  /\ s.listeners[t] # None
             /\ s.listeners[t].shape = c.inbounds[t].shape
             /\ s.listeners[t].port = c.inbounds[t].port
             /\ s.listeners[t].routes = resolved_inbound_routes(c, t)
             /\ s.user_fingerprints[t] = c.inbounds[t].users
             /\ \A u \in Uuids : s.listeners[t].users[u] # None =>
                  c.inbounds[t].users[u] = s.listeners[t].users[u]
  <2>1. s.listeners[t] = KeptListener(c, t) /\ service.listeners[t] # None
    BY <1>2, <1>3, <1>4, Zenon
  <2>2. s.user_fingerprints[t] = c.inbounds[t].users
    BY <1>0, FingerprintsUpdated, Zenon DEF update_routes_and_users
  <2> QED BY <1>1, <2>1, <2>2, Kept, NoneAssumption
<1>7. /\ s.user_revisions \in [Tags -> Revisions \cup {None}]
      /\ s.user_fingerprints \in [Tags -> UserTable \cup {None}]
  BY <1>0, FingerprintsUpdated, Zenon DEF update_routes_and_users
<1>8. s = [config |-> config_without_users(c), listeners |-> s.listeners,
           user_revisions |-> s.user_revisions,
           user_fingerprints |-> s.user_fingerprints]
  BY Zenon DEF update_routes_and_users
<1> HIDE DEF s
<1>9. ServiceOK(s) /\ Holds(s, c) /\ s.config.core = c.core
  BY <1>3, <1>5, <1>6, <1>7, <1>8, BuiltForConfig, Zenon
<1> QED BY <1>1, <1>9 DEF s

\* CoreService::update_changed_listeners_and_users
LEMMA SwappedServiceOK ==
  ASSUME NEW c \in CoreConfig, service # None, ServiceOK(service), ListenerLevelUpdate(c)
  PROVE  /\ ServiceOK(SwappedService(c))
         /\ Holds(SwappedService(c), c)
         /\ SwappedService(c).config.core = service.config.core
<1> DEFINE s == SwappedService(c)
<1>0. service \in CoreService /\ service.config \in CoreConfig
  BY DEF ServiceOK, CoreService
<1>1. \A t \in Present(c) : t \in Tags /\ c.inbounds[t].users \in UserTable
  BY StartedListener, Zenon
<1>2. \A t \in Tags : s.listeners[t] =
        IF t \notin Present(c) THEN None
        ELSE IF t \in NeedNewListener(c) THEN start_listener_handle(c, t)
        ELSE IF service.listeners[t] # None THEN KeptListener(c, t)
        ELSE None
  BY Zenon DEF SwappedService
<1>3. ASSUME NEW t \in Present(c)
      PROVE  /\ s.listeners[t] # None
             /\ s.listeners[t] \in ListenerHandle
             /\ s.listeners[t].shape = c.inbounds[t].shape
             /\ s.listeners[t].port = c.inbounds[t].port
             /\ s.listeners[t].routes = resolved_inbound_routes(c, t)
             /\ s.user_fingerprints[t] = c.inbounds[t].users
             /\ \A u \in Uuids : s.listeners[t].users[u] # None =>
                  c.inbounds[t].users[u] = s.listeners[t].users[u]
  <2>1. s.user_fingerprints[t] = c.inbounds[t].users
    BY <1>1, ZenonT(30) DEF SwappedService
  <2>2. CASE t \in NeedNewListener(c)
    <3>1. s.listeners[t] = start_listener_handle(c, t)
      BY <1>1, <1>2, <2>2, ZenonT(30)
    <3> QED BY <2>1, <3>1, StartedListener DEF start_listener_handle
  <2>3. CASE t \notin NeedNewListener(c)
    <3>1. /\ service.config.inbounds[t] # None
          /\ service.config.inbounds[t].shape = c.inbounds[t].shape
          /\ service.config.inbounds[t].port = c.inbounds[t].port
      BY <2>3, Zenon DEF NeedNewListener, inbound_eq_without_users_routes
    <3>2. service.listeners[t] # None
      BY <1>1, <3>1, Zenon DEF ServiceOK, ListenerMatches
    <3>3. s.listeners[t] = KeptListener(c, t)
      BY <1>1, <1>2, <2>3, <3>2
    <3> QED BY <2>1, <3>1, <3>2, <3>3, Kept, NoneAssumption
  <2> QED BY <2>2, <2>3, Zenon
<1>4. s.listeners \in [Tags -> ListenerHandle \cup {None}]
  <2>1. s.listeners = [t \in Tags |-> s.listeners[t]]
    BY Zenon DEF SwappedService
  <2> QED BY <1>2, <1>3, <2>1, ZenonT(30)
<1>5. s.user_revisions \in [Tags -> Revisions \cup {None}]
  BY <1>0, ZenonT(30) DEF SwappedService, CoreService
<1>6. s.user_fingerprints \in [Tags -> UserTable \cup {None}]
  BY <1>1, SMTT(30) DEF SwappedService
<1>7. s = [config |-> config_without_users(c), listeners |-> s.listeners,
           user_revisions |-> s.user_revisions,
           user_fingerprints |-> s.user_fingerprints]
  BY ZenonT(30) DEF SwappedService
<1>8. \A t \in Tags \ Present(c) : s.listeners[t] = None
  BY <1>2, ZenonT(30)
<1> HIDE DEF s
<1>9. ServiceOK(s) /\ Holds(s, c) /\ s.config.core = c.core
  BY <1>3, <1>4, <1>5, <1>6, <1>7, <1>8, BuiltForConfig
<1>10. service.config.core = c.core
  BY SMTT(30) DEF ListenerLevelUpdate, config_allows_listener_level_update
<1> QED BY <1>9, <1>10 DEF s

\* CoreService::update_routes keeps users, revisions and fingerprints.
LEMMA UpdateRoutesOK ==
  ASSUME NEW c \in CoreConfig, service # None, ServiceOK(service), can_update_routes(c)
  PROVE  ServiceOK(update_routes(c)) /\ update_routes(c).config.core = service.config.core
<1> DEFINE s == update_routes(c)
<1>0. service \in CoreService /\ service.config \in CoreConfig
  BY DEF ServiceOK, CoreService
<1>1. /\ service.config.core = c.core
      /\ Present(service.config) = Present(c)
      /\ \A t \in Present(c) :
           /\ service.config.inbounds[t].shape = c.inbounds[t].shape
           /\ service.config.inbounds[t].port = c.inbounds[t].port
  BY DEF can_update_routes, config_eq_without_users_routes_and_outbounds,
         inbound_eq_without_users_routes
<1>2. \A t \in Tags : (service.listeners[t] # None) <=> (t \in Present(c))
  BY <1>1, ZenonT(30) DEF ServiceOK, ListenerMatches, Present
<1> DEFINE ls == [t \in Tags |->
                    IF service.listeners[t] # None /\ t \in Present(c)
                    THEN [service.listeners[t] EXCEPT !.routes = resolved_inbound_routes(c, t)]
                    ELSE service.listeners[t]]
<1>3. ASSUME NEW t \in Present(c)
      PROVE  /\ t \in Tags
             /\ ls[t] \in ListenerHandle
             /\ ls[t] # None
             /\ ls[t].shape = c.inbounds[t].shape
             /\ ls[t].port = c.inbounds[t].port
             /\ ls[t].routes = resolved_inbound_routes(c, t)
             /\ ls[t].users = service.listeners[t].users
  <2>1. /\ t \in Tags
        /\ resolved_inbound_routes(c, t) \in Routes \X Routes
    BY StartedListener, Zenon DEF resolved_inbound_routes, CoreConfig, InboundConfig
  <2>2. service.listeners[t] \in ListenerHandle /\ ListenerMatches(service, t)
    BY <1>2, <2>1, ListenerOf DEF ServiceOK
  <2>3. ls[t] = [service.listeners[t] EXCEPT !.routes = resolved_inbound_routes(c, t)]
    BY <1>2, <2>1
  <2> HIDE DEF ls
  <2>4. /\ ls[t] \in ListenerHandle
        /\ ls[t].shape = service.listeners[t].shape
        /\ ls[t].port = service.listeners[t].port
        /\ ls[t].routes = resolved_inbound_routes(c, t)
        /\ ls[t].users = service.listeners[t].users
    BY <2>1, <2>2, <2>3 DEF ListenerHandle
  <2> QED BY <1>1, <1>2, <2>1, <2>2, <2>4, NoneAssumption, Zenon DEF ListenerMatches
<1>4. \A t \in Tags \ Present(c) : ls[t] = None
  BY <1>2, ZenonT(30)
<1>5. ls \in [Tags -> ListenerHandle \cup {None}]
  BY <1>3, <1>4, ZenonT(30)
<1>6. s = [config |-> config_without_users(c), listeners |-> ls,
           user_revisions |-> service.user_revisions,
           user_fingerprints |-> service.user_fingerprints]
  BY Zenon DEF update_routes
<1> HIDE DEF ls, s
<1>7. s \in CoreService
  BY <1>0, <1>5, <1>6, WithoutUsers, Zenon DEF CoreService
<1>8. ASSUME NEW t \in Tags
      PROVE  ListenerMatches(s, t) /\ ListenerFingerprinted(s, t)
  <2>1. CASE t \in Present(c)
    <3>1. c.inbounds[t] # None /\ service.listeners[t] # None
      BY <1>2, <2>1, ZenonT(30) DEF Present
    <3>2. ListenerMatches(s, t)
      BY <1>3, <1>6, <2>1, <3>1, WithoutUsers, SMTT(30) DEF ListenerMatches, resolved_inbound_routes
    <3>3. ListenerFingerprinted(s, t)
      <4>1. /\ s.listeners[t] # None /\ s.listeners[t].users = service.listeners[t].users
            /\ s.user_fingerprints = service.user_fingerprints
        BY <1>3, <1>6, <2>1
      <4>2. ListenerFingerprinted(service, t)
        BY SMTT(30) DEF ServiceOK
      <4> QED
        BY <3>1, <4>1, <4>2, ZenonT(30) DEF ListenerFingerprinted
    <3> QED BY <3>2, <3>3, Zenon
  <2>2. CASE t \notin Present(c)
    BY <1>4, <1>6, <2>2, WithoutUsers, ZenonT(30) DEF ListenerMatches, ListenerFingerprinted, Present
  <2> QED BY <2>1, <2>2
<1> QED BY <1>1, <1>6, <1>7, <1>8, WithoutUsers, SMTT(30) DEF ServiceOK, s

-----------------------------------------------------------------------------
(* User deltas.                                                            *)

\* The table and the fingerprint stay tables; whatever the table held was
\* fingerprinted, and stays so.
LEMMA DeltaKeepsFingerprinted ==
  ASSUME NEW d \in CoreUserDelta, NEW users \in UserTable, NEW fp \in UserTable,
         \A u \in Uuids : users[u] # None => fp[u] = users[u]
  PROVE  /\ apply_uuid_delta(users, d) \in UserTable
         /\ fingerprint_apply_delta(fp, d) \in UserTable
         /\ \A u \in Uuids : apply_uuid_delta(users, d)[u] # None =>
              fingerprint_apply_delta(fp, d)[u] = apply_uuid_delta(users, d)[u]
<1>1. fp # None
  BY NoneAssumption, Zenon
<1>2. CASE d.full # None
  BY <1>2, SMTT(30) DEF CoreUserDelta, apply_uuid_delta, fingerprint_apply_delta
<1>3. CASE d.full = None
  <2>1. /\ d.added \in UserTable
        /\ d.updated \in UserTable
    BY Zenon DEF CoreUserDelta
  <2> QED
    BY <1>1, <1>3, <2>1, ZenonT(30) DEF UserTable, apply_uuid_delta, fingerprint_apply_delta
<1> QED BY <1>2, <1>3, Zenon

\* CoreService::apply_user_delta
LEMMA UserDeltaOK ==
  ASSUME NEW t \in Tags, NEW d \in CoreUserDelta, ServiceOK(service),
         service.listeners[t] # None, NEW s,
         s = [service EXCEPT
                !.listeners[t].users = apply_uuid_delta(@, d),
                !.user_fingerprints[t] = fingerprint_apply_delta(@, d),
                !.user_revisions[t] = IF d.revision # None THEN d.revision
                                      ELSE IF d.full # None THEN None ELSE @]
  PROVE  ServiceOK(s) /\ s.config = service.config
<1> DEFINE users == service.listeners[t].users
           fp == service.user_fingerprints[t]
           rev == IF d.revision # None THEN d.revision
                  ELSE IF d.full # None THEN None ELSE service.user_revisions[t]
           l == [service.listeners[t] EXCEPT !.users = apply_uuid_delta(users, d)]
<1>1. /\ service \in CoreService
      /\ service.listeners[t] \in ListenerHandle
      /\ users \in UserTable
      /\ fp \in UserTable
      /\ \A u \in Uuids : users[u] # None => fp[u] = users[u]
  BY ListenerOf, Zenon DEF ServiceOK, ListenerFingerprinted, ListenerHandle
<1>2. /\ apply_uuid_delta(users, d) \in UserTable
      /\ fingerprint_apply_delta(fp, d) \in UserTable
      /\ \A u \in Uuids : apply_uuid_delta(users, d)[u] # None =>
           fingerprint_apply_delta(fp, d)[u] = apply_uuid_delta(users, d)[u]
  BY <1>1, DeltaKeepsFingerprinted
<1>3. rev \in Revisions \cup {None}
  BY <1>1, Zenon DEF CoreUserDelta, CoreService
<1>4. /\ l \in ListenerHandle
      /\ l.shape = service.listeners[t].shape
      /\ l.port = service.listeners[t].port
      /\ l.routes = service.listeners[t].routes
      /\ l.users = apply_uuid_delta(users, d)
  BY <1>1, <1>2 DEF ListenerHandle
<1>5. /\ s.config = service.config
      /\ s.listeners = [service.listeners EXCEPT ![t] = l]
      /\ s.user_fingerprints =
           [service.user_fingerprints EXCEPT ![t] = fingerprint_apply_delta(fp, d)]
      /\ s.user_revisions = [service.user_revisions EXCEPT ![t] = rev]
      /\ s \in CoreService
  BY <1>1, <1>2, <1>3, <1>4, ZenonT(30) DEF CoreService
<1> HIDE DEF l, rev
<1>6. ASSUME NEW r \in Tags
      PROVE  ListenerMatches(s, r) /\ ListenerFingerprinted(s, r)
  <2>0. ListenerMatches(service, r) /\ ListenerFingerprinted(service, r)
    BY DEF ServiceOK
  <2>1. CASE r = t
    <3>1. s.listeners[r] = l /\ s.user_fingerprints[r] = fingerprint_apply_delta(fp, d)
      BY <1>1, <1>5, <2>1 DEF CoreService
    <3>2. l # None /\ fingerprint_apply_delta(fp, d) # None
      BY <1>2, <1>4, NoneAssumption, Zenon
    <3>3. ListenerMatches(s, r)
      BY <1>4, <1>5, <2>0, <2>1, <3>1, <3>2, Zenon DEF ListenerMatches
    <3>4. ListenerFingerprinted(s, r)
      BY <1>2, <1>4, <3>1, <3>2 DEF ListenerFingerprinted
    <3> QED BY <3>3, <3>4, Zenon
  <2>2. CASE r # t
    <3>1. /\ s.listeners[r] = service.listeners[r]
          /\ s.user_fingerprints[r] = service.user_fingerprints[r]
      BY <1>1, <1>5, <2>2 DEF CoreService
    <3> QED BY <1>5, <2>0, <3>1, ZenonT(30) DEF ListenerMatches, ListenerFingerprinted
  <2> QED BY <2>1, <2>2
<1> QED BY <1>5, <1>6, Zenon DEF ServiceOK

-----------------------------------------------------------------------------
\* A service in order is a service, and is not None.
LEMMA ServiceOKIsService ==
  ASSUME NEW s, ServiceOK(s)
  PROVE  s \in CoreService /\ s # None /\ s.config.core \in Cores
BY NoneAssumption, Zenon DEF ServiceOK, CoreService, CoreConfig

LEMMA InitIInv == Init => IInv
BY DEF Init, IInv, TypeOK

\* Every command keeps the inductive invariant.
LEMMA NextIInv == IInv /\ [Next]_vars => IInv'
<1> SUFFICES ASSUME IInv, [Next]_vars PROVE IInv'
  BY Zenon
<1> USE DEF IInv
<1>1. ASSUME NEW c \in Configs, ApplyConfig(c) PROVE IInv'
  <2>0. c \in CoreConfig /\ c # None /\ c.core \in Cores
    BY DataAssumption, NoneAssumption, Zenon DEF CoreConfig
  <2>1. CASE ApplyInvalidConfig(c)
    BY <2>1, Zenon DEF ApplyInvalidConfig, TypeOK
  <2>2. CASE ApplyNoop(c)
    BY <2>2, Zenon DEF ApplyNoop, TypeOK
  <2>3. CASE ApplyUsers(c)
    <3>1. /\ ServiceOK(service')
          /\ Holds(service', c)
          /\ service'.config.core = service.config.core
      BY <2>0, <2>3, UpdateUsersOK, Zenon DEF ApplyUsers
    <3> QED BY <2>3, <3>1, ServiceOKIsService, Zenon DEF ApplyUsers, Applied, TypeOK
  <2>4. CASE ApplyRoutesAndUsers(c)
    <3>1. /\ ServiceOK(service')
          /\ Holds(service', c)
          /\ service'.config.core = service.config.core
      BY <2>0, <2>4, UpdateRoutesAndUsersOK, Zenon DEF ApplyRoutesAndUsers
    <3> QED BY <2>4, <3>1, ServiceOKIsService, Zenon DEF ApplyRoutesAndUsers, Applied, TypeOK
  <2>5. CASE ApplyConflictingBinds(c)
    BY <2>5, Zenon DEF ApplyConflictingBinds, TypeOK
  <2>6. CASE ApplyListeners(c)
    <3>1. /\ ServiceOK(service')
          /\ Holds(service', c)
          /\ service'.config.core = service.config.core
      BY <2>0, <2>6, SwappedServiceOK, Zenon DEF ApplyListeners, ChangesListeners
    <3>2. service # None
      BY <2>6, Zenon DEF ApplyListeners, ChangesListeners
    <3> QED BY <2>6, <3>1, <3>2, ServiceOKIsService, Zenon DEF ApplyListeners, Applied, TypeOK
  <2>7. CASE ApplyListenersFails(c)
    BY <2>7, Zenon DEF ApplyListenersFails, TypeOK
  <2>8. CASE ApplyReload(c)
    <3>1. ServiceOK(service') /\ Holds(service', c) /\ service'.config.core = c.core
      BY <2>0, <2>8, StartedServiceOK, WithoutUsers, Zenon DEF ApplyReload, StartedService
    <3> QED BY <2>0, <2>8, <3>1, ServiceOKIsService, Zenon DEF ApplyReload, Applied, TypeOK
  <2>9. CASE ApplyReloadFails(c)
    <3>1. orphans' \subseteq Ports
      <4>1. PICK started \in SUBSET Present(c) :
              orphans' = orphans \cup {c.inbounds[t].port : t \in started}
        BY <2>9, Zenon DEF ApplyReloadFails
      <4> QED BY <2>0, <4>1, StartedListener, Zenon DEF TypeOK, InboundConfig
    <3> QED BY <2>0, <2>9, <3>1, Zenon DEF ApplyReloadFails, TypeOK
  <2> QED
    BY <1>1, <2>1, <2>2, <2>3, <2>4, <2>5, <2>6, <2>7, <2>8, <2>9, Zenon DEF ApplyConfig
<1>2. ASSUME NEW c \in Configs, ApplyRoutes(c) PROVE IInv'
  <2>0. c \in CoreConfig
    BY DataAssumption, Zenon
  <2>1. ServiceOK(service') /\ service'.config.core = service.config.core
    BY <1>2, <2>0, UpdateRoutesOK DEF ApplyRoutes
  <2> QED BY <1>2, <2>1, ServiceOKIsService DEF ApplyRoutes, RuntimeUpdated, TypeOK
<1>3. ASSUME NEW t \in Tags, NEW d \in Deltas, ApplyUserDelta(t, d) PROVE IInv'
  <2>0. d \in CoreUserDelta
    BY DataAssumption, SMTT(30)
  <2>1. ServiceOK(service') /\ service'.config = service.config
    BY <1>3, <2>0, UserDeltaOK, ZenonT(30) DEF ApplyUserDelta
  <2> QED BY <1>3, <2>1, ServiceOKIsService DEF ApplyUserDelta, RuntimeUpdated, TypeOK
<1>4. CASE Stop
  BY <1>4, Zenon DEF Stop, TypeOK
<1>5. CASE UNCHANGED vars
  BY <1>5 DEF vars, TypeOK
<1> QED BY <1>1, <1>2, <1>3, <1>4, <1>5 DEF Next

LEMMA Invariance == Spec => []IInv
BY InitIInv, NextIInv, PTL DEF Spec

-----------------------------------------------------------------------------
\* The state of the control plane is well typed after any sequence of
\* commands: no hot update leaves a listener, a fingerprint or a revision of
\* the wrong kind behind.
THEOREM TypeCorrect == Spec => []TypeOK
BY Invariance, PTL DEF IInv

\* The accepting listeners are those of the running config, with its routes.
THEOREM ListenersFollowConfig == Spec => []ListenersMatchConfig
<1>1. IInv => ListenersMatchConfig
  BY Zenon DEF IInv, ServiceOK, ListenerMatches, ListenersMatchConfig
<1> QED BY <1>1, Invariance, PTL

\* While a service runs, the remembered fingerprint is the one of the config
\* it was last given, so "noop" is answered for that config only.
THEOREM FingerprintIsFaithful == Spec => []FingerprintNamesService
<1>1. IInv => FingerprintNamesService
  BY Zenon DEF IInv, Holds, FingerprintNamesService
<1> QED BY <1>1, Invariance, PTL

\* No accepted user is unknown to the fingerprints.
THEOREM AcceptedAreFingerprinted == Spec => []AcceptedUsersAreFingerprinted
<1>1. IInv => AcceptedUsersAreFingerprinted
  BY DEF IInv, ServiceOK, ListenerFingerprinted, AcceptedUsersAreFingerprinted
<1> QED BY <1>1, Invariance, PTL

\* After ApplyConfig no listener accepts a user the config dropped or changed.
THEOREM DroppedUsersAreGone == Spec => []NoStaleUser
<1>1. ASSUME IInv PROVE NoStaleUser
  <2> SUFFICES ASSUME service # None, active_fingerprint # None, NEW t \in Tags,
                      service.listeners[t] # None, NEW u \in Uuids,
                      service.listeners[t].users[u] # None
               PROVE  active_fingerprint.inbounds[t].users[u] = service.listeners[t].users[u]
    BY Zenon DEF NoStaleUser
  <2>1. active_fingerprint \in CoreConfig
    BY <1>1, DataAssumption, Zenon DEF IInv, TypeOK
  <2>2. ServiceOK(service) /\ Holds(service, active_fingerprint)
    BY <1>1, Zenon DEF IInv
  <2>3. service.config.inbounds[t] # None
    BY <2>2, Zenon DEF ServiceOK, ListenerMatches
  <2>4. t \in Present(active_fingerprint)
    BY <2>1, <2>2, <2>3, WithoutUsers DEF Holds, Present
  <2> QED BY <2>2, <2>4, Zenon DEF ServiceOK, ListenerFingerprinted, Holds
<1> QED BY <1>1, Invariance, PTL

\* The users the listeners accept are those the controller remembers.
THEOREM UsersStayCurrent == Spec => []UsersAreCurrent
BY AcceptedAreFingerprinted, DroppedUsersAreGone, PTL DEF UsersAreCurrent

-----------------------------------------------------------------------------
(* UserSync: the agreement between the panel's revisions and the users the *)
(* listeners accept.                                                       *)

\* The listener of t in service s has the exact fingerprint, and the table its
\* revision names in history h.
InStep(s, h, t) ==
  s.listeners[t] # None =>
    /\ s.user_fingerprints[t] = s.listeners[t].users
    /\ s.user_revisions[t] # None => s.listeners[t].users = h[t][s.user_revisions[t]]

\* The inductive invariant.
SyncIInv ==
  /\ SyncTypeOK
  /\ service # None => /\ ServiceOK(service)
                       /\ \A t \in Tags : InStep(service, history, t)

\* What an operation of the service leaves of the users of t: those of config
\* c, with their fingerprint and no revision, or all three as they were.
FreshOrKept(s, c, t) ==
  s.listeners[t] # None =>
    \/ /\ s.listeners[t].users = c.inbounds[t].users
       /\ s.user_fingerprints[t] = c.inbounds[t].users
       /\ s.user_revisions[t] = None
    \/ /\ service.listeners[t] # None
       /\ s.listeners[t].users = service.listeners[t].users
       /\ s.user_fingerprints[t] = service.user_fingerprints[t]
       /\ s.user_revisions[t] = service.user_revisions[t]

\* Fresh or kept, the listener is in step.
LEMMA FreshOrKeptInStep ==
  ASSUME NEW s, NEW c, NEW t \in Tags, FreshOrKept(s, c, t),
         service.listeners[t] # None => InStep(service, history, t)
  PROVE  InStep(s, history, t)
BY SMTT(30) DEF FreshOrKept, InStep

LEMMA StartedInStep ==
  ASSUME NEW c \in CoreConfig, NEW t \in Tags
  PROVE  InStep(StartedService(c), history, t)
BY DEF InStep, StartedService, start_listener_handle

LEMMA UpdateUsersFreshOrKept ==
  ASSUME NEW c \in CoreConfig, ServiceOK(service), NEW t \in Tags
  PROVE  FreshOrKept(update_users(c), c, t)
<1>1. SUFFICES ASSUME update_users(c).listeners[t] # None
               PROVE  FreshOrKept(update_users(c), c, t)
  BY DEF FreshOrKept
<1>2. service.listeners[t] # None
  BY <1>1, Zenon DEF update_users
<1>3. service.listeners[t] \in ListenerHandle
  BY <1>2, ListenerOf
<1>4. CASE t \in UsersChanged(c)
  <2>1. update_users(c).listeners[t] = [service.listeners[t] EXCEPT !.users = c.inbounds[t].users]
    BY <1>2, <1>4 DEF update_users
  <2>2. update_users(c).listeners[t].users = c.inbounds[t].users
    BY <1>3, <2>1 DEF ListenerHandle
  <2> QED BY <1>4, <2>2
          DEF FreshOrKept, update_users, UpdatedRevisions, UpdatedFingerprints
<1>5. CASE t \notin UsersChanged(c)
  BY <1>2, <1>5 DEF FreshOrKept, update_users, UpdatedRevisions, UpdatedFingerprints
<1> QED BY <1>4, <1>5, Zenon

\* The users of a kept listener.
LEMMA KeptUsers ==
  ASSUME NEW c \in CoreConfig, NEW t \in Tags, ServiceOK(service),
         service.listeners[t] # None
  PROVE  KeptListener(c, t).users = IF t \in UsersChanged(c) THEN c.inbounds[t].users
                                    ELSE service.listeners[t].users
<1>1. service.listeners[t] \in ListenerHandle
  BY ListenerOf
<1> QED BY <1>1, Zenon DEF KeptListener, ListenerHandle

LEMMA UpdateRoutesAndUsersFreshOrKept ==
  ASSUME NEW c \in CoreConfig, ServiceOK(service), NEW t \in Tags
  PROVE  FreshOrKept(update_routes_and_users(c), c, t)
<1> DEFINE s == update_routes_and_users(c)
<1>1. SUFFICES ASSUME s.listeners[t] # None
               PROVE  FreshOrKept(s, c, t)
  BY Zenon DEF FreshOrKept
<1>2. service.listeners[t] # None
  BY <1>1, SMTT(30) DEF update_routes_and_users
<1>3. CASE t \in UsersChanged(c)
  <2>1. s.listeners[t] = KeptListener(c, t)
    BY <1>2, <1>3, Zenon DEF update_routes_and_users, UsersChanged
  <2>2. s.listeners[t].users = c.inbounds[t].users
    BY <1>2, <1>3, <2>1, KeptUsers, SMTT(30)
  <2> QED BY <1>3, <2>2, ZenonT(30)
          DEF FreshOrKept, update_routes_and_users, UpdatedRevisions, UpdatedFingerprints
<1>4. CASE t \notin UsersChanged(c)
  <2>1. s.listeners[t].users = service.listeners[t].users
    BY <1>2, <1>4, KeptUsers DEF update_routes_and_users
  <2> QED BY <1>2, <1>4, <2>1, ZenonT(30)
          DEF FreshOrKept, update_routes_and_users, UpdatedRevisions, UpdatedFingerprints
<1> QED BY <1>3, <1>4, Zenon

LEMMA UpdateRoutesFreshOrKept ==
  ASSUME NEW c \in CoreConfig, ServiceOK(service), NEW t \in Tags
  PROVE  FreshOrKept(update_routes(c), c, t)
<1> DEFINE s == update_routes(c)
<1>1. SUFFICES ASSUME s.listeners[t] # None
               PROVE  FreshOrKept(s, c, t)
  BY DEF FreshOrKept
<1>2. service.listeners[t] # None
  BY <1>1 DEF update_routes
<1>3. service.listeners[t] \in ListenerHandle
  BY <1>2, ListenerOf
<1>4. s.listeners[t].users = service.listeners[t].users
  BY <1>3, Zenon DEF update_routes, ListenerHandle
<1> QED BY <1>2, <1>4, SMTT(30) DEF FreshOrKept, update_routes

LEMMA SwappedFreshOrKept ==
  ASSUME NEW c \in CoreConfig, ServiceOK(service), NEW t \in Tags
  PROVE  FreshOrKept(SwappedService(c), c, t)
<1> DEFINE s == SwappedService(c)
<1>1. SUFFICES ASSUME s.listeners[t] # None
               PROVE  FreshOrKept(s, c, t)
  BY DEF FreshOrKept
<1>2. t \in Present(c) /\ s.user_fingerprints[t] = c.inbounds[t].users
  BY <1>1, SMTT(30) DEF SwappedService
<1>3. CASE t \in NeedNewListener(c)
  BY <1>2, <1>3, ZenonT(30) DEF FreshOrKept, SwappedService, start_listener_handle
<1>4. CASE t \notin NeedNewListener(c)
  <2>1. service.listeners[t] # None /\ s.listeners[t] = KeptListener(c, t)
    BY <1>1, <1>2, <1>4, ZenonT(30) DEF SwappedService
  <2>2. CASE t \in UsersChanged(c)
    <3>1. s.listeners[t].users = c.inbounds[t].users
      BY <2>1, <2>2, KeptUsers, SMTT(30)
    <3> QED BY <1>2, <2>2, <3>1, ZenonT(30) DEF FreshOrKept, SwappedService
  <2>3. CASE t \notin UsersChanged(c)
    <3>1. s.listeners[t].users = service.listeners[t].users
      BY <2>1, <2>3, KeptUsers, Zenon
    <3>2. service.user_fingerprints[t] = c.inbounds[t].users
      BY <1>2, <2>3, Zenon DEF UsersChanged
    <3> QED BY <1>2, <1>4, <2>1, <2>3, <3>1, <3>2, ZenonT(30) DEF FreshOrKept, SwappedService
  <2> QED BY <2>2, <2>3
<1> QED BY <1>3, <1>4, SMTT(30)

-----------------------------------------------------------------------------
\* Applying the difference of two tables to the first gives the second, in the
\* listener's table as in the fingerprint.
LEMMA DiffApplies ==
  ASSUME NEW x \in UserTable, NEW y \in UserTable, NEW b \in Revisions, NEW r \in Revisions
  PROVE  /\ Diff(x, y, b, r) \in CoreUserDelta
         /\ apply_uuid_delta(x, Diff(x, y, b, r)) = y
         /\ fingerprint_apply_delta(x, Diff(x, y, b, r)) = y
<1> DEFINE d == Diff(x, y, b, r)
<1>1. /\ d.added \in UserTable
      /\ d.updated \in UserTable
      /\ d.full = None
      /\ d.deleted = {u \in Uuids : x[u] # None /\ y[u] = None}
      /\ d.added = [u \in Uuids |-> IF x[u] = None THEN y[u] ELSE None]
      /\ d.updated = [u \in Uuids |-> IF x[u] # None /\ x[u] # y[u] THEN y[u] ELSE None]
  BY SMTT(30) DEF Diff, UserTable
<1>2. d \in CoreUserDelta
  BY <1>1, ZenonT(30) DEF Diff, CoreUserDelta
<1>3. x # None
  BY NoneAssumption, Zenon
<1> HIDE DEF d
<1>4. apply_uuid_delta(x, d) \in UserTable /\ fingerprint_apply_delta(x, d) \in UserTable
  BY <1>2, DeltaKeepsFingerprinted, Zenon
<1>5. ASSUME NEW u \in Uuids
      PROVE  apply_uuid_delta(x, d)[u] = y[u] /\ fingerprint_apply_delta(x, d)[u] = y[u]
  BY <1>1, <1>3, Zenon DEF apply_uuid_delta, fingerprint_apply_delta
<1>6. apply_uuid_delta(x, d) = y /\ fingerprint_apply_delta(x, d) = y
  BY <1>4, <1>5, SMTT(30) DEF UserTable
<1> QED BY <1>2, <1>6, Zenon DEF d

LEMMA SnapshotApplies ==
  ASSUME NEW y \in UserTable, NEW r \in Revisions
  PROVE  /\ Snapshot(y, r) \in CoreUserDelta
         /\ \A x : /\ apply_uuid_delta(x, Snapshot(y, r)) = y
                   /\ fingerprint_apply_delta(x, Snapshot(y, r)) = y
<1>1. NoUsers \in UserTable
  BY ZenonT(30) DEF NoUsers, UserTable
<1> QED BY <1>1, NoneAssumption
        DEF Snapshot, CoreUserDelta, apply_uuid_delta, fingerprint_apply_delta

\* A delta that turns the listener's table into the one published as r leaves
\* every listener in step.
LEMMA DeltaInStep ==
  ASSUME SyncIInv, NEW t \in Tags, NEW d \in CoreUserDelta, ApplyUserDelta(t, d),
         UNCHANGED history,
         NEW r \in Revisions, history[t][r] # None, d.revision = r,
         apply_uuid_delta(service.listeners[t].users, d) = history[t][r],
         fingerprint_apply_delta(service.user_fingerprints[t], d) = history[t][r]
  PROVE  SyncIInv'
<1>0. service # None /\ service.listeners[t] # None /\ ServiceOK(service)
  BY SMTT(30) DEF SyncIInv, ApplyUserDelta
<1>1. ServiceOK(service') /\ service'.config = service.config
  BY <1>0, UserDeltaOK, ZenonT(30) DEF ApplyUserDelta
<1>2. SyncTypeOK'
  BY <1>1, ServiceOKIsService, Zenon DEF SyncIInv, SyncTypeOK, ApplyUserDelta, RuntimeUpdated
<1>3. service \in CoreService /\ service.listeners[t] \in ListenerHandle
  BY <1>0, ListenerOf, Zenon DEF ServiceOK
<1>4. r # None
  BY NoneAssumption, Zenon
<1>5. ASSUME NEW q \in Tags PROVE InStep(service', history', q)
  <2>0. InStep(service, history, q)
    BY <1>0, Zenon DEF SyncIInv
  <2>1. CASE q = t
    <3>1. /\ service'.listeners[t].users = history[t][r]
          /\ service'.user_fingerprints[t] = history[t][r]
          /\ service'.user_revisions[t] = r
      BY <1>3, <1>4, Zenon DEF ApplyUserDelta, CoreService, ListenerHandle
    <3> QED BY <2>1, <3>1 DEF InStep
  <2>2. CASE q # t
    <3>1. /\ service'.listeners[q] = service.listeners[q]
          /\ service'.user_fingerprints[q] = service.user_fingerprints[q]
          /\ service'.user_revisions[q] = service.user_revisions[q]
      BY <1>3, <2>2, Zenon DEF ApplyUserDelta, CoreService
    <3> QED BY <2>0, <3>1 DEF InStep
  <2> QED BY <2>1, <2>2, Zenon
<1> QED BY <1>1, <1>2, <1>5 DEF SyncIInv

-----------------------------------------------------------------------------
LEMMA SyncInitIInv == SyncInit => SyncIInv
BY Zenon DEF SyncInit, Init, SyncIInv, SyncTypeOK

LEMMA SyncNextIInv == SyncIInv /\ [SyncNext]_sync_vars => SyncIInv'
<1> SUFFICES ASSUME SyncIInv, [SyncNext]_sync_vars PROVE SyncIInv'
  OBVIOUS
<1>1. ASSUME NEW t \in Tags, NEW r \in Revisions, NEW users \in PanelTables,
             Publish(t, r, users)
      PROVE  SyncIInv'
  <2>1. SyncTypeOK'
    BY <1>1, Zenon DEF SyncIInv, SyncTypeOK, Publish, vars
  <2>2. ASSUME service # None, NEW q \in Tags PROVE InStep(service, history', q)
    <3>1. SUFFICES ASSUME service.listeners[q] # None, service.user_revisions[q] # None
                   PROVE  history'[q][service.user_revisions[q]]
                            = history[q][service.user_revisions[q]]
      BY <2>2, Zenon DEF SyncIInv, InStep
    <3>2. /\ service.user_revisions[q] \in Revisions
          /\ service.listeners[q].users \in UserTable
      BY <2>2, <3>1, ListenerOf, Zenon DEF SyncIInv, ServiceOK, CoreService, ListenerHandle
    <3>3. history[q][service.user_revisions[q]] # None
      BY <2>2, <3>1, <3>2, NoneAssumption, Zenon DEF SyncIInv, InStep
    <3>4. ~ (q = t /\ service.user_revisions[q] = r)
      BY <1>1, <3>3, Zenon DEF Publish
    <3> QED BY <1>1, <3>2, <3>4, Zenon DEF Publish, SyncIInv, SyncTypeOK
  <2> QED BY <1>1, <2>1, <2>2, ZenonT(30) DEF SyncIInv, Publish, vars
<1>2. ASSUME NEW t \in Tags, NEW b \in Revisions, NEW r \in Revisions, SendDelta(t, b, r)
      PROVE  SyncIInv'
  <2> DEFINE d == Diff(history[t][b], history[t][r], b, r)
  <2>1. /\ history[t][b] \in UserTable
        /\ history[t][r] \in UserTable
        /\ history[t][r] # None
    BY <1>2, PanelAssumption, Zenon DEF SendDelta, SyncIInv, SyncTypeOK
  <2>2. /\ service # None
        /\ service.listeners[t] # None
        /\ service.user_revisions[t] = b
        /\ b # None
    BY <1>2, NoneAssumption, Zenon DEF SendDelta, ApplyUserDelta, RevisionMatches, Diff
  <2>3. /\ service.listeners[t].users = history[t][b]
        /\ service.user_fingerprints[t] = history[t][b]
    BY <2>2, Zenon DEF SyncIInv, InStep
  <2>4. /\ d \in CoreUserDelta
        /\ apply_uuid_delta(history[t][b], d) = history[t][r]
        /\ fingerprint_apply_delta(history[t][b], d) = history[t][r]
    BY <2>1, DiffApplies, SMTT(30)
  <2>5. d.revision = r /\ ApplyUserDelta(t, d) /\ UNCHANGED history
    BY <1>2, ZenonT(30) DEF SendDelta, Diff
  <2> HIDE DEF d
  <2> QED BY <2>1, <2>3, <2>4, <2>5, DeltaInStep, Zenon
<1>3. ASSUME NEW t \in Tags, NEW r \in Revisions, SendSnapshot(t, r) PROVE SyncIInv'
  <2> DEFINE d == Snapshot(history[t][r], r)
  <2>1. history[t][r] \in UserTable /\ history[t][r] # None
    BY <1>3, PanelAssumption, Zenon DEF SendSnapshot, SyncIInv, SyncTypeOK
  <2>2. /\ d \in CoreUserDelta
        /\ apply_uuid_delta(service.listeners[t].users, d) = history[t][r]
        /\ fingerprint_apply_delta(service.user_fingerprints[t], d) = history[t][r]
    BY <2>1, SnapshotApplies, Zenon
  <2>3. d.revision = r /\ ApplyUserDelta(t, d) /\ UNCHANGED history
    BY <1>3, Zenon DEF SendSnapshot, Snapshot
  <2> HIDE DEF d
  <2> QED BY <2>1, <2>2, <2>3, DeltaInStep, Zenon
<1>4. ASSUME NEW c0 \in Configs, NEW rs \in [Tags -> Revisions], SendConfig(c0, rs)
      PROVE  SyncIInv'
  <2> DEFINE c == ConfigAt(c0, rs)
  <2>1. c \in CoreConfig /\ c # None /\ c.core \in Cores
    <3>1. c0 \in CoreConfig
      BY DataAssumption
    <3>2. \A t \in Tags : c0.inbounds[t] # None =>
            [c0.inbounds[t] EXCEPT !.users = history[t][rs[t]]] \in InboundConfig
      <4> SUFFICES ASSUME NEW t \in Tags, c0.inbounds[t] # None
                   PROVE  [c0.inbounds[t] EXCEPT !.users = history[t][rs[t]]] \in InboundConfig
        OBVIOUS
      <4>1. c0.inbounds[t] \in InboundConfig
        BY <3>1, ZenonT(30) DEF CoreConfig
      <4>2. history[t][rs[t]] \in UserTable
        BY <1>4, PanelAssumption DEF SendConfig, Present, SyncIInv, SyncTypeOK
      <4> QED BY <4>1, <4>2 DEF InboundConfig
    <3>3. c \in CoreConfig
      BY <3>1, <3>2, Zenon DEF ConfigAt, CoreConfig
    <3> QED BY <3>3, NoneAssumption DEF CoreConfig
  <2> HIDE DEF c
  <2>2. ASSUME service' # None => /\ ServiceOK(service')
                                  /\ \A t \in Tags : InStep(service', history, t),
               active_fingerprint' \in {active_fingerprint, c, None},
               status' \in {"Stopped", "Running", "Failed"},
               dns' \in {dns, c.core},
               orphans' \subseteq Ports
        PROVE  SyncIInv'
    <3>1. history' = history
      BY <1>4, Zenon DEF SendConfig
    <3>2. SyncTypeOK'
      BY <2>1, <2>2, <3>1, ServiceOKIsService, Zenon DEF SyncIInv, SyncTypeOK
    <3> QED BY <2>2, <3>1, <3>2, Zenon DEF SyncIInv
  <2>3. /\ SyncTypeOK
        /\ service # None => /\ ServiceOK(service)
                             /\ \A t \in Tags : InStep(service, history, t)
    BY Zenon DEF SyncIInv
  <2>4. CASE ApplyInvalidConfig(c)
    BY <2>2, <2>3, <2>4, Zenon DEF ApplyInvalidConfig, SyncTypeOK
  <2>5. CASE ApplyNoop(c)
    BY <2>2, <2>3, <2>5, Zenon DEF ApplyNoop, SyncTypeOK
  <2>6. CASE ApplyUsers(c)
    <3>1. service # None /\ can_update_users(c) /\ service' = update_users(c)
      BY <2>6, Zenon DEF ApplyUsers
    <3>2. ServiceOK(service') /\ \A t \in Tags : InStep(service', history, t)
      BY <2>1, <2>3, <3>1, UpdateUsersOK, UpdateUsersFreshOrKept, FreshOrKeptInStep, Zenon
    <3> QED BY <2>2, <2>3, <2>6, <3>2, Zenon DEF ApplyUsers, Applied, SyncTypeOK
  <2>7. CASE ApplyRoutesAndUsers(c)
    <3>1. service # None /\ can_update_routes(c) /\ service' = update_routes_and_users(c)
      BY <2>7, ZenonT(30) DEF ApplyRoutesAndUsers
    <3>2. ServiceOK(service') /\ \A t \in Tags : InStep(service', history, t)
      BY <2>1, <2>3, <3>1, UpdateRoutesAndUsersOK, UpdateRoutesAndUsersFreshOrKept,
         FreshOrKeptInStep
    <3> QED BY <2>2, <2>3, <2>7, <3>2, Zenon DEF ApplyRoutesAndUsers, Applied, SyncTypeOK
  <2>8. CASE ApplyConflictingBinds(c)
    BY <2>2, <2>3, <2>8, Zenon DEF ApplyConflictingBinds, SyncTypeOK
  <2>9. CASE ApplyListeners(c)
    <3>1. service # None /\ ListenerLevelUpdate(c) /\ service' = SwappedService(c)
      BY <2>9, Zenon DEF ApplyListeners, ChangesListeners
    <3>2. ServiceOK(service') /\ \A t \in Tags : InStep(service', history, t)
      BY <2>1, <2>3, <3>1, SwappedServiceOK, SwappedFreshOrKept, FreshOrKeptInStep
    <3> QED BY <2>2, <2>3, <2>9, <3>2, Zenon DEF ApplyListeners, Applied, SyncTypeOK
  <2>10. CASE ApplyListenersFails(c)
    BY <2>2, <2>3, <2>10, Zenon DEF ApplyListenersFails, SyncTypeOK
  <2>11. CASE ApplyReload(c)
    <3>1. ServiceOK(service') /\ \A t \in Tags : InStep(service', history, t)
      BY <2>1, <2>11, StartedServiceOK, StartedInStep, Zenon DEF ApplyReload
    <3> QED BY <2>2, <2>3, <2>11, <3>1, Zenon DEF ApplyReload, Applied, SyncTypeOK
  <2>12. CASE ApplyReloadFails(c)
    <3>1. PICK started \in SUBSET Present(c) :
            orphans' = orphans \cup {c.inbounds[t].port : t \in started}
      BY <2>12, Zenon DEF ApplyReloadFails
    <3>2. orphans' \subseteq Ports
      BY <2>1, <2>3, <3>1, StartedListener, Zenon DEF SyncTypeOK, InboundConfig
    <3> QED BY <2>2, <2>12, <3>2, Zenon DEF ApplyReloadFails
  <2>13. CASE ApplyRoutes(c)
    <3>1. service # None /\ can_update_routes(c) /\ service' = update_routes(c)
      BY <2>13, Zenon DEF ApplyRoutes
    <3>2. ServiceOK(service') /\ \A t \in Tags : InStep(service', history, t)
      BY <2>1, <2>3, <3>1, UpdateRoutesOK, UpdateRoutesFreshOrKept, FreshOrKeptInStep, Zenon
    <3> QED BY <2>2, <2>3, <2>13, <3>2, Zenon DEF ApplyRoutes, RuntimeUpdated, SyncTypeOK
  <2> QED
    BY <1>4, <2>4, <2>5, <2>6, <2>7, <2>8, <2>9, <2>10, <2>11, <2>12, <2>13, Zenon
    DEF SendConfig, ApplyConfig, c
<1>5. CASE Stop /\ UNCHANGED history
  BY <1>5, Zenon DEF Stop, SyncIInv, SyncTypeOK
<1>6. CASE UNCHANGED sync_vars
  BY <1>6 DEF sync_vars, vars, SyncIInv, SyncTypeOK
<1> QED BY <1>1, <1>2, <1>3, <1>4, <1>5, <1>6 DEF SyncNext

LEMMA SyncInvariance == SyncSpec => []SyncIInv
BY SyncInitIInv, SyncNextIInv, PTL DEF SyncSpec

-----------------------------------------------------------------------------
\* The state stays well typed, the panel's history included.
THEOREM SyncTypeCorrect == SyncSpec => []SyncTypeOK
BY SyncInvariance, PTL DEF SyncIInv

\* The revision an inbound carries names the table its listener accepts.
THEOREM RevisionsAreFaithful == SyncSpec => []RevisionNamesTable
<1>1. SyncIInv => RevisionNamesTable
  BY Zenon DEF SyncIInv, InStep, RevisionNamesTable
<1> QED BY <1>1, SyncInvariance, PTL

\* With deltas that name their base, fingerprints are exact.
THEOREM FingerprintsStayExact == SyncSpec => []FingerprintsAreExact
<1>1. SyncIInv => FingerprintsAreExact
  BY DEF SyncIInv, InStep, FingerprintsAreExact
<1> QED BY <1>1, SyncInvariance, PTL

-----------------------------------------------------------------------------
\* The start of an inbound, for every configuration and every machine.
\* Where option f of an accepted inbound may be set.
InPlace(i, f) ==
  \/ f = "cipher" /\ i.protocol = "shadowsocks"
  \/ f = "flow" /\ i.protocol = "vless" /\ i.network = "tcp" /\ i.tls # None
  \/ f \in {"path", "host"} /\ i.protocol \in Start!Streams /\ i.network \in {"ws", "httpupgrade"}
  \/ f = "service_name" /\ i.protocol \in Start!Streams /\ i.network = "grpc"
  \/ /\ f \in {"obfs", "obfs_password", "up_mbps", "down_mbps", "ignore_client_bandwidth"}
     /\ i.protocol = "hysteria2"
  \/ f = "congestion_control" /\ i.protocol \in {"tuic", "hysteria2"}
  \/ f = "padding_scheme" /\ i.protocol = "anytls"
  \/ f \in {"tls", "alpn", "reject_unknown_sni"} /\ i.tls # None
  \/ f = "reality" /\ i.tls # None /\ i.tls.reality # None

\* An option of an accepted inbound is set where InboundConfig::validate allows it.
LEMMA OptionsInPlace ==
  ASSUME NEW i, Start!validate(i), NEW f \in Start!SetOptions(i)
  PROVE  InPlace(i, f)
<1> USE DEF Start!validate, Start!validate_protocol_scoped_fields,
      Start!validate_protocol_transport_fields, InPlace
<1>1. i.zero_rtt_handshake => FALSE
  BY Zenon DEF Start!ProtocolFits, Start!validate_tuic_transport_options
<1>2. CASE f \in {"cipher", "flow", "path", "host", "service_name", "obfs", "congestion_control"}
  <2>1. ~Start!Blank(i[f])
    BY <1>2, Zenon DEF Start!SetOptions
  <2>2. CASE f = "cipher"
    BY <2>1, <2>2, Zenon
  <2>3. CASE f = "flow"
    BY <2>1, <2>3, Zenon DEF Start!validate_flow
  <2>4. CASE f = "path"
    BY <2>1, <2>4, Zenon
  <2>5. CASE f = "host"
    BY <2>1, <2>5, Zenon
  <2>6. CASE f = "service_name"
    BY <2>1, <2>6, Zenon
  <2>7. CASE f = "obfs"
    BY <2>1, <2>7, Zenon
  <2>8. CASE f = "congestion_control"
    BY <2>1, <2>8, ZenonT(30) DEF Start!Blank
  <2> QED BY <1>2, <2>2, <2>3, <2>4, <2>5, <2>6, <2>7, <2>8, Zenon
<1>3. CASE f \in {"up_mbps", "down_mbps", "obfs_password"}
  <2>1. i[f] > 0
    BY <1>3, Zenon DEF Start!SetOptions
  <2>2. i.protocol # "hysteria2" => i[f] = 0
    BY <1>3, Zenon
  <2>3. i.protocol = "hysteria2"
    <3>1. ~(0 > 0)
      BY ONLY TRUE
    <3> QED BY <2>1, <2>2, <3>1, Zenon
  <2> QED BY <1>3, <2>3
<1>4. CASE f \in {"proxy_protocol", "ignore_client_bandwidth", "zero_rtt_handshake"}
  <2>1. i[f]
    BY <1>4, Zenon DEF Start!SetOptions
  <2> QED BY <1>1, <1>4, <2>1, Zenon
<1>5. CASE f = "padding_scheme"
  BY <1>5, Zenon DEF Start!SetOptions
<1>6. CASE f \in {"tls", "alpn", "reject_unknown_sni", "reality"}
  BY <1>6, Zenon DEF Start!SetOptions
<1> QED BY <1>2, <1>3, <1>4, <1>5, <1>6, Zenon DEF Start!SetOptions

\* What the start function makes of an accepted inbound i.
Served(i, l) ==
  /\ l.fits
  /\ l.sockets \in {<<"tcp">>, <<"udp">>, <<"tcp", "udp">>}
  /\ l.reads \in {"", "start", "thread"}
  /\ l.reads # "" \/ i.protocol = "naive" => i.tls # None
  /\ l.security = Start!Asked(i)
  /\ \A f : InPlace(i, f) => f \in l.uses \cup Start!Idle(i)

\* A listener serves when each of its parts does.
LEMMA ServedBy ==
  ASSUME NEW i, NEW sockets \in {<<"tcp">>, <<"udp">>, <<"tcp", "udp">>}, NEW fits, fits,
         NEW reads \in {"", "start", "thread"}, NEW security, NEW stream, NEW uses,
         reads # "" \/ i.protocol = "naive" => i.tls # None,
         security = Start!Asked(i),
         \A f : InPlace(i, f) => f \in uses \cup Start!Idle(i)
  PROVE  Served(i, Start!Listener(sockets, fits, reads, security, stream, uses))
BY Zenon DEF Served, Start!Listener

\* Protocol by protocol: the start function of an accepted inbound finds what it
\* needs, and its listener has a use for every option in its place.
LEMMA AcceptedIsServed ==
  ASSUME NEW i, i.protocol \in Start!Protocols, Start!validate(i)
  PROVE  Served(i, Start!start_listener_handle(i))
<1>a. Start!ProtocolFits(i)
  BY Zenon DEF Start!validate
<1>1. CASE i.protocol \in {"socks", "http", "mieru", "shadowsocks"}
  <2>1. i.tls = None
    BY <1>1, <1>a, Zenon DEF Start!ProtocolFits
  <2>2. Start!Asked(i) = "plain"
    BY <1>1, <2>1 DEF Start!Asked, Start!naive_uses_quic
  <2>3. \A f : InPlace(i, f) => f = "cipher" /\ i.protocol = "shadowsocks"
    BY <1>1, <2>1 DEF InPlace, Start!Streams
  <2>4. CASE i.protocol # "shadowsocks"
    <3>1. Start!start_listener_handle(i) = Start!start_plain_listener(i)
      BY <1>1, <2>4 DEF Start!start_listener_handle
    <3>2. Served(i, Start!Listener(<<"tcp">>, TRUE, "", "plain", "tcp", {}))
      BY <1>1, <2>2, <2>3, <2>4, ServedBy, Zenon
    <3> QED BY <3>1, <3>2, Zenon DEF Start!start_plain_listener
  <2>5. CASE i.protocol = "shadowsocks"
    <3>1. Start!start_listener_handle(i) = Start!start_shadowsocks_listener(i)
      BY <2>5 DEF Start!start_listener_handle
    <3>2. ASSUME NEW sockets \in {<<"tcp">>, <<"udp">>, <<"tcp", "udp">>}
          PROVE  Served(i, Start!Listener(sockets, TRUE, "", "plain", "tcp", {"cipher"}))
      BY <2>2, <2>3, <2>5, ServedBy, Zenon
    <3> QED BY <3>1, <3>2, Zenon DEF Start!start_shadowsocks_listener
  <2> QED BY <2>4, <2>5
<1>2. CASE i.protocol \in Start!Streams \cup {"anytls"}
  <2>1. i.network \in Start!Networks /\ Start!validate_tls_config(i.protocol, i.network, i.tls)
    BY <1>2, <1>a, Zenon DEF Start!ProtocolFits, Start!Streams, Start!Networks
  <2>2. i.protocol = "anytls" => i.network = "tcp"
    BY <1>a DEF Start!ProtocolFits
  <2>3. CASE i.tls # None /\ i.tls.reality # None
    <3>1. Start!validate_reality_tls_config(i.protocol, i.network, i.tls)
      BY <2>1, <2>3, SMTT(30) DEF Start!validate_tls_config
    <3>2. i.protocol = "vless" /\ i.network = "tcp"
      BY <3>1 DEF Start!validate_reality_tls_config
    <3>3. Start!start_listener_handle(i) = Start!start_vless_reality_listener(i)
      BY <2>3, <3>2 DEF Start!start_listener_handle, Start!start_vless_listener
    <3>4. Start!reality_gateway_config(i)
      <4>1. CASE i.tls.reality.dest.port # None
        BY <3>1, <4>1 DEF Start!validate_reality_tls_config, Start!reality_gateway_config,
             Start!reality_dest, Start!dest_has_explicit_port
      <4>2. CASE i.tls.reality.dest.port = None
        BY <3>1, <4>2 DEF Start!validate_reality_tls_config, Start!reality_gateway_config,
             Start!reality_dest, Start!dest_has_explicit_port
      <4> QED BY <4>1, <4>2
    <3>5. Start!Asked(i) = "reality"
      BY <2>3, <3>2, SMTT(30) DEF Start!Asked, Start!naive_uses_quic
    <3>6. \A f : InPlace(i, f) => f \in {"tls", "reality", "flow"} \cup Start!Idle(i)
      BY <2>3, <3>2 DEF InPlace, Start!Idle
    <3>7. Served(i, Start!Listener(<<"tcp">>, Start!reality_gateway_config(i), "", "reality", "tcp",
                                   {"tls", "reality", "flow"}))
      BY <2>3, <3>4, <3>5, <3>6, ServedBy, Zenon
    <3> QED BY <3>3, <3>7, Zenon DEF Start!start_vless_reality_listener
  <2>4. CASE ~(i.tls # None /\ i.tls.reality # None)
    <3>1. Start!SniNamed(i)
      BY <2>1, <2>4 DEF Start!validate_tls_config, Start!SniNamed
    <3>2. Start!Asked(i) = Start!Security(i)
      BY <1>2, <2>4 DEF Start!Asked, Start!Security, Start!naive_uses_quic, Start!Streams
    <3>3. /\ Start!tls_acceptor_for(i) \in {"", "start"}
          /\ Start!tls_acceptor_for(i) # "" => i.tls # None
      BY DEF Start!tls_acceptor_for
    <3>4. CASE i.network = "grpc"
      <4>1. Start!start_listener_handle(i) = Start!start_grpc_transport_listener(i)
        BY <1>2, <2>2, <3>4, SMTT(30) DEF Start!start_listener_handle, Start!start_vless_listener,
             Start!start_vmess_listener, Start!start_trojan_listener, Start!Streams
      <4>2. \A f : InPlace(i, f) => f \in Start!TlsUses \cup {"service_name"} \cup Start!Idle(i)
        BY <1>2, <2>2, <2>4, <3>4 DEF InPlace, Start!TlsUses, Start!Streams
      <4> DEFINE reads == IF i.tls = None THEN "" ELSE "thread"
      <4>3. reads \in {"", "start", "thread"} /\ (reads # "" => i.tls # None)
        OBVIOUS
      <4>4. i.protocol # "naive"
        BY <1>2 DEF Start!Streams
      <4> HIDE DEF reads
      <4>5. Served(i, Start!Listener(<<"tcp">>, TRUE, reads, Start!Security(i), "grpc",
                                     Start!TlsUses \cup {"service_name"}))
        BY <3>2, <4>2, <4>3, <4>4, ServedBy, Zenon
      <4> QED BY <4>1, <4>5, Zenon DEF Start!start_grpc_transport_listener, reads
    <3>5. CASE i.network # "grpc"
      <4> DEFINE more == CASE i.protocol = "anytls" -> {"padding_scheme"}
                           [] i.protocol = "vless" /\ i.tls # None /\ i.network = "tcp" -> {"flow"}
                           [] OTHER -> {}
                 stream == IF i.network \in {"ws", "httpupgrade"} THEN i.network ELSE "tcp"
                 tls == IF i.tls = None THEN {} ELSE Start!TlsUses
                 paths == CASE i.network = "ws" -> {"path"}
                            [] i.network = "httpupgrade" -> {"path", "host"}
                            [] OTHER -> {}
      <4>1. Start!start_listener_handle(i) = Start!StreamListener(i, more)
        BY <1>2, <2>4, <3>5 DEF Start!start_listener_handle, Start!start_vless_listener,
             Start!start_vmess_listener, Start!start_trojan_listener, Start!start_anytls_listener,
             Start!Streams
      <4>2. \A f : InPlace(i, f) => f \in more \cup tls \cup paths \cup Start!Idle(i)
        <5> SUFFICES ASSUME NEW f, InPlace(i, f)
                     PROVE  f \in more \/ f \in tls \/ f \in paths \/ f \in Start!Idle(i)
          OBVIOUS
        <5> QED BY <1>2, <2>1, <2>4, <3>5 DEF InPlace, Start!TlsUses, Start!Streams, Start!Idle
      <4>3. i.protocol # "naive"
        BY <1>2 DEF Start!Streams
      <4> HIDE DEF more, stream, tls, paths
      <4>4. Served(i, Start!Listener(<<"tcp">>, Start!SniNamed(i), Start!tls_acceptor_for(i),
                                     Start!Security(i), stream, more \cup tls \cup paths))
        BY <3>1, <3>2, <3>3, <4>2, <4>3, ServedBy, Zenon
      <4> QED BY <4>1, <4>4, Zenon DEF Start!StreamListener, stream, tls, paths
    <3> QED BY <3>4, <3>5, SMTT(30)
  <2> QED BY <2>3, <2>4
<1>3. CASE i.protocol \in {"tuic", "hysteria2"}
  <2>1. /\ Start!validate_quic_tls_config(i.tls)
        /\ Start!is_supported_quic_congestion_control(i.congestion_control)
    BY <1>3, <1>a, Zenon DEF Start!ProtocolFits, Start!validate_tuic_transport_options,
         Start!validate_hysteria2_transport_options
  <2>2. i.tls # None /\ i.tls.reality = None /\ Start!SniNamed(i)
    BY <2>1 DEF Start!validate_quic_tls_config, Start!SniNamed
  <2>3. Start!apply_quic_congestion_control(i.congestion_control)
    BY <2>1, Zenon DEF Start!apply_quic_congestion_control, Start!is_supported_quic_congestion_control,
         Start!normalize_quic_congestion_control, Start!Or
  <2>4. Start!Asked(i) = "quic"
    BY <1>3, <2>2 DEF Start!Asked
  <2>5. CASE i.protocol = "tuic"
    <3>1. Start!start_listener_handle(i) = Start!start_tuic_listener(i)
      BY <2>5 DEF Start!start_listener_handle
    <3>2. \A f : InPlace(i, f) => f \in Start!TlsUses \cup {"congestion_control"} \cup Start!Idle(i)
      BY <2>2, <2>5 DEF InPlace, Start!TlsUses, Start!Streams
    <3>3. i.tls # None /\ Start!TuicBind(i)
      BY <2>2, <2>3 DEF Start!TuicBind
    <3>4. Served(i, Start!Listener(<<"udp">>, i.tls # None /\ Start!TuicBind(i), "start", "quic",
                                   "quic", Start!TlsUses \cup {"congestion_control"}))
      BY <2>4, <3>2, <3>3, ServedBy, Zenon
    <3> QED BY <3>1, <3>4, Zenon DEF Start!start_tuic_listener
  <2>6. CASE i.protocol = "hysteria2"
    <3> DEFINE uses == Start!TlsUses \cup {"up_mbps", "down_mbps", "ignore_client_bandwidth",
                                           "congestion_control", "obfs", "obfs_password"}
    <3>1. Start!start_listener_handle(i) = Start!start_hysteria2_listener(i)
      BY <2>6 DEF Start!start_listener_handle
    <3>2. Start!validate_hysteria2_transport_options(i)
      BY <2>6, <1>a, SMTT(30) DEF Start!ProtocolFits
    <3>3. i.tls # None /\ Start!Hysteria2Bind(i)
      BY <2>2, <2>3, <3>2, SMTT(30) DEF Start!Hysteria2Bind, Start!validate_hysteria2_transport_options,
           Start!hysteria2_obfs_config, Start!SalamanderUdpSocket
    <3>4. \A f : InPlace(i, f) => f \in uses \cup Start!Idle(i)
      BY <2>2, <2>6 DEF InPlace, Start!TlsUses, Start!Streams
    <3> HIDE DEF uses
    <3>5. Served(i, Start!Listener(<<"udp">>, i.tls # None /\ Start!Hysteria2Bind(i), "start",
                                   "quic", "quic", uses))
      BY <2>4, <3>3, <3>4, ServedBy, Zenon
    <3> QED BY <3>1, <3>5, Zenon DEF Start!start_hysteria2_listener, uses
  <2> QED BY <1>3, <2>5, <2>6
<1>4. CASE i.protocol = "naive"
  <2>1. i.tls # None /\ i.tls.reality = None /\ Start!SniNamed(i)
    BY <1>4, <1>a DEF Start!ProtocolFits, Start!validate_quic_tls_config, Start!SniNamed,
         Start!validate_tls_config, Start!validate_reality_tls_config
  <2>2. Start!start_listener_handle(i) = Start!start_naive_listener(i)
    BY <1>4 DEF Start!start_listener_handle
  <2>3. Start!Asked(i) = IF Start!naive_uses_quic(i) THEN "quic" ELSE "tls"
    BY <1>4, <2>1 DEF Start!Asked
  <2>4. \A f : InPlace(i, f) => f \in Start!TlsUses \cup Start!Idle(i)
    BY <1>4, <2>1 DEF InPlace, Start!TlsUses, Start!Streams
  <2>5. CASE Start!naive_uses_quic(i)
    <3>1. Served(i, Start!Listener(<<"udp">>, i.tls # None /\ Start!bind_quic(i), "start", "quic",
                                   "quic", Start!TlsUses))
      BY <2>1, <2>3, <2>4, <2>5, ServedBy, Zenon DEF Start!bind_quic
    <3> QED BY <2>2, <2>5, <3>1, Zenon DEF Start!start_naive_listener
  <2>6. CASE ~Start!naive_uses_quic(i)
    <3>1. Served(i, Start!Listener(<<"tcp">>, i.tls # None /\ Start!SniNamed(i), "start", "tls",
                                   "tcp", Start!TlsUses))
      BY <2>1, <2>3, <2>4, <2>6, ServedBy, Zenon
    <3> QED BY <2>2, <2>6, <3>1, Zenon DEF Start!start_naive_listener
  <2> QED BY <2>5, <2>6
<1> QED BY <1>1, <1>2, <1>3, <1>4 DEF Start!Protocols, Start!Streams

\* The inductive invariant of a start: past validation the inbound and its
\* policy are accepted, and past the start function the listener is what it
\* makes of the inbound, with sockets left to bind while it binds.
StartInv ==
  /\ inbound.protocol \in Start!Protocols
  /\ policy.connection_idle_secs \in Nat
  /\ Start!start_listener_handle(inbound) # None
  /\ stage \notin {"new", "refused"} =>
       Start!validate(inbound) /\ Start!validate_policy(policy)
  /\ listener \in {None, Start!start_listener_handle(inbound)}
  /\ stage \in {"new", "accepted", "refused"} => listener = None
  /\ stage \in {"binding", "bound", "deaf", "listening"} => listener # None
  /\ stage = "binding" => unbound \in {<<"tcp">>, <<"udp">>, <<"tcp", "udp">>}
  /\ tries \in 0..MaxTries
  /\ stage \in {"failed", "deaf"} => Start!HostFails
  /\ stage = "failed" /\ listener # None /\ host.files =>
       tries = MaxTries \/ Head(unbound) = "udp"

\* The invariant holds before validation.
LEMMA StartInvInit ==
  ASSUME Start!CasesAreTyped, Start!Init
  PROVE  StartInv
BY SMTT(30) DEF Start!CasesAreTyped, Start!Init, StartInv

\* Every step of a start keeps it.
LEMMA StartInvStep ==
  ASSUME Start!CasesAreTyped, StartInv, [Start!Next]_(Start!vars)
  PROVE  StartInv'
<1> USE DEF StartInv
<1> DEFINE l == Start!start_listener_handle(inbound)
<1>a. MaxTries \in Nat
  BY DEF Start!CasesAreTyped
<1>b. Start!validate(inbound) => Served(inbound, l)
  BY AcceptedIsServed
<1> HIDE DEF l
<1>1. CASE Start!Validate
  BY <1>1, SMTT(30) DEF Start!Validate, Start!Going
<1>2. CASE Start!Start
  <2>1. Served(inbound, l) /\ stage = "accepted" /\ UNCHANGED <<inbound, policy, host, busy, tries>>
    BY <1>2, <1>b DEF Start!Start, Start!Going
  <2>2. CASE host.resolves /\ l.fits /\ (inbound.protocol = "naive" => host.files)
    <3>1. stage' = "binding" /\ unbound' = l.sockets /\ listener' = l
      BY <1>2, <2>2, SMTT(30) DEF Start!Start, Start!Going, l
    <3> QED BY <2>1, <3>1, Zenon DEF Served, l
  <2>3. CASE ~(host.resolves /\ l.fits /\ (inbound.protocol = "naive" => host.files))
    <3>1. stage' = "failed" /\ UNCHANGED <<unbound, listener>>
      BY <1>2, <2>3 DEF Start!Start, Start!Going, l
    <3>2. ~host.resolves \/ (inbound.tls # None /\ ~host.files)
      BY <2>1, <2>3, Zenon DEF Served
    <3> QED BY <2>1, <3>1, <3>2, SMTT(30) DEF Start!HostFails
  <2> QED BY <2>2, <2>3, SMTT(30)
<1>3. CASE Start!should_fallback_to_ipv4
  BY <1>3, SMTT(30) DEF Start!should_fallback_to_ipv4, Start!Going
<1>4. CASE Start!Bound
  <2>1. /\ stage = "binding" /\ unbound' = Tail(unbound) /\ tries' = 0
        /\ stage' = IF Len(unbound) = 1 THEN "bound" ELSE "binding"
        /\ UNCHANGED <<inbound, policy, host, busy, listener>>
    BY <1>4 DEF Start!Bound, Start!Bindable, Start!Going
  <2>2. stage' = "binding" => unbound' = <<"udp">>
    <3>1. CASE unbound = <<"tcp", "udp">>
      BY <2>1, <3>1
    <3>2. CASE unbound \in {<<"tcp">>, <<"udp">>}
      <4>1. Len(unbound) = 1
        BY <3>2, SMTT(30)
      <4> QED BY <2>1, <4>1
    <3> QED BY <2>1, <3>1, <3>2
  <2> QED BY <1>a, <2>1, <2>2, SMTT(30)
<1>5. CASE Start!bind_tcp_socket_with_retry
  <2>1. /\ stage = "binding" /\ Head(unbound) \in busy
        /\ UNCHANGED <<inbound, policy, host, busy, unbound, listener>>
    BY <1>5, SMTT(30) DEF Start!bind_tcp_socket_with_retry, Start!Bindable, Start!Going
  <2>2. CASE Head(unbound) = "tcp" /\ tries < MaxTries
    <3>1. tries' = tries + 1 /\ stage' = "binding"
      BY <1>5, <2>2, SMTT(30) DEF Start!bind_tcp_socket_with_retry, Start!Going
    <3> QED BY <1>a, <2>1, <2>2, <3>1, SMTT(30)
  <2>3. CASE ~(Head(unbound) = "tcp" /\ tries < MaxTries)
    <3>1. tries' = tries /\ stage' = "failed"
      BY <1>5, <2>3, SMTT(30) DEF Start!bind_tcp_socket_with_retry, Start!Going
    <3>2. Head(unbound) \in {"tcp", "udp"}
      BY <2>1
    <3>3. tries = MaxTries \/ Head(unbound) = "udp"
      BY <1>a, <2>3, <3>2
    <3>4. 1 \in 1..Len(unbound) /\ unbound[1] \in busy
      BY <2>1, SMTT(30)
    <3>5. Start!HostFails'
      BY <2>1, <3>4 DEF Start!HostFails
    <3> QED BY <2>1, <3>1, <3>3, <3>5, SMTT(30)
  <2> QED BY <2>2, <2>3
<1>6. CASE Start!Load
  <2>1. /\ stage = "bound" /\ listener = l /\ Served(inbound, l)
        /\ UNCHANGED <<inbound, policy, host, busy, unbound, tries, listener>>
    BY <1>6, <1>b, Zenon DEF Start!Load, Start!Going, l
  <2>2. CASE l.reads = "" \/ host.files
    <3>1. stage' = "listening"
      BY <1>6, <2>1, <2>2, Zenon DEF Start!Load, Start!Going
    <3> QED BY <2>1, <3>1
  <2>3. CASE l.reads # "" /\ ~host.files
    <3>1. stage' \in {"failed", "deaf"}
      BY <1>6, <2>1, <2>3, Zenon DEF Start!Load, Start!Going, Served
    <3>2. inbound.tls # None
      BY <2>1, <2>3, Zenon DEF Served
    <3> QED BY <2>1, <2>3, <3>1, <3>2, Zenon DEF Start!HostFails
  <2> QED BY <2>2, <2>3, Zenon
<1>7. CASE Start!Release
  BY <1>7, SMTT(30) DEF Start!Release
<1>8. CASE UNCHANGED Start!vars
  BY <1>8 DEF Start!vars, Start!HostFails
<1> QED BY <1>1, <1>2, <1>3, <1>4, <1>5, <1>6, <1>7, <1>8, SMTT(30) DEF Start!Next, Start!Done

\* It says what is promised of the accepted inbounds.
LEMMA StartInvServes ==
  ASSUME StartInv
  PROVE  Start!AcceptedInboundsServe
<1> USE DEF StartInv
<1>1. CASE stage = "listening"
  <2>1. /\ Start!validate(inbound) /\ Start!validate_policy(policy)
        /\ listener = Start!start_listener_handle(inbound)
    BY <1>1, SMTT(30)
  <2>2. Served(inbound, listener)
    BY <2>1, AcceptedIsServed
  <2>3. Start!SetOptions(inbound) \subseteq listener.uses \cup Start!Idle(inbound)
    BY <2>1, <2>2, OptionsInPlace, Zenon DEF Served
  <2>4. /\ Start!outbound_connect_timeout(policy) = policy.connect_timeout_secs
        /\ Start!connection_idle_timeout(policy) = policy.connection_idle_secs
    BY <2>1, SMTT(30) DEF Start!validate_policy, Start!outbound_connect_timeout,
         Start!connection_idle_timeout
  <2> QED BY <1>1, <2>2, <2>3, <2>4, Zenon DEF Start!AcceptedInboundsServe, Served
<1>2. CASE stage # "listening"
  BY <1>2 DEF Start!AcceptedInboundsServe
<1> QED BY <1>1, <1>2

\* AcceptedInboundsServe (InboundConfig::validate against the start_*_listener
\* functions of service.rs) for every inbound, policy and machine: a start fails
\* only for the machine's sake, and what listens honours what was configured.
THEOREM InboundsServe == Start!Spec => []AcceptedInboundsServe
<1>1. Start!Init => StartInv
  BY StartInvInit, CasesAssumption
<1>2. StartInv /\ [Start!Next]_(Start!vars) => StartInv'
  BY StartInvStep, CasesAssumption
<1>3. StartInv => AcceptedInboundsServe
  BY StartInvServes DEF AcceptedInboundsServe
<1> QED BY <1>1, <1>2, <1>3, PTL DEF Start!Spec
=============================================================================
