--------------------------- MODULE UserRevocation ---------------------------
(***************************************************************************)
(* What a change of users does to the connections of a user: the user      *)
(* tables of the inbounds, and the bandwidth limiters and the registry of  *)
(* active connections, which the inbounds of a service share (limits.rs    *)
(* UserBandwidthLimiters, ActiveConnectionRegistry, sync_user_limit_delta).*)
(*                                                                         *)
(* One user is followed. Commands come one at a time, under the lock of    *)
(* the controller, but their steps interleave with those of the handlers.  *)
(***************************************************************************)
EXTENDS Sequences

CONSTANTS
  Inbounds,
  Quic,          \* those whose connections watch the limiter and are not
                 \* registered (hysteria2, tuic); the others as in socks5.rs
  Connections,
  Commands,      \* which of "delta", "full", "config" are used
  None

ASSUME NoneAssumption == None \notin Inbounds /\ None \notin {"limited", "unlimited", "open", "revoked", "shut"}

Entries == {"limited", "unlimited"}     \* of a user table: by speed_limit

VARIABLES
  users,         \* inbound -> the entry of the user, or None
  limiter,       \* of the user: None, or whether it is "revoked" or "open"
  pc, inbound,   \* of a handler
  user,          \* the entry it took from the table
  limited,       \* it holds the limiter
  socket,        \* its registration: None, or the socket "open" or "shut"
  todo, change,  \* the steps left of the command, and its effect
  doomed         \* connections that were registered when it began, if it
                 \* removes or updates the user

handler == <<pc, inbound, user, limited, socket>>
command == <<todo, change, doomed>>
vars == <<users, limiter, handler, command>>

Registered == {c \in Connections : socket[c] # None}

-----------------------------------------------------------------------------
Init ==
  /\ users \in [Inbounds -> Entries \union {None}]
  /\ limiter = None
  /\ pc = [c \in Connections |-> "idle"]
  /\ inbound = [c \in Connections |-> None]
  /\ user = [c \in Connections |-> None]
  /\ limited = [c \in Connections |-> FALSE]
  /\ socket = [c \in Connections |-> None]
  /\ todo = << >>
  /\ change = [inbound |-> None, entry |-> None]
  /\ doomed = {}

\* The user is in the table and its credential matches. A QUIC handler goes
\* on with that entry.
Authenticate(c, i) ==
  /\ pc[c] = "idle"
  /\ users[i] # None
  /\ pc' = [pc EXCEPT ![c] = IF i \in Quic THEN "limit" ELSE "request"]
  /\ inbound' = [inbound EXCEPT ![c] = i]
  /\ user' = [user EXCEPT ![c] = users[i]]
  /\ UNCHANGED <<users, limiter, limited, socket, command>>

\* The request is read and the user looked up again; it may be gone.
request_user(c) ==
  /\ pc[c] = "request"
  /\ pc' = [pc EXCEPT ![c] = "limit"]
  /\ user' = [user EXCEPT ![c] = users[inbound[c]]]
  /\ UNCHANGED <<users, limiter, inbound, limited, socket, command>>

\* limiter_for creates or re-opens the limiter whatever the speed limit.
limiter_for(c) ==
  /\ pc[c] = "limit"
  /\ inbound[c] \in Quic
  /\ limiter' = "open"
  /\ limited' = [limited EXCEPT ![c] = TRUE]
  /\ pc' = [pc EXCEPT ![c] = "relay"]
  /\ UNCHANGED <<users, inbound, user, socket, command>>

\* limiter_for_limited has none for a user without a speed limit.
limiter_for_limited(c) ==
  /\ pc[c] = "limit"
  /\ inbound[c] \notin Quic
  /\ limiter' = CASE user[c] = "limited" -> "open"
                  [] user[c] = "unlimited" /\ limiter # None -> "open"
                  [] OTHER -> limiter
  /\ limited' = [limited EXCEPT ![c] = user[c] = "limited"]
  /\ pc' = [pc EXCEPT ![c] = "connect"]
  /\ UNCHANGED <<users, inbound, user, socket, command>>

\* The target is connected and the relay begins.
register_tcp_connection(c) ==
  /\ pc[c] = "connect"
  /\ socket' = [socket EXCEPT ![c] = "open"]
  /\ pc' = [pc EXCEPT ![c] = "relay"]
  /\ UNCHANGED <<users, limiter, inbound, user, limited, command>>

\* A relay that is cut stops at its next read, wait or checkpoint.
Cut(c) == socket[c] = "shut" \/ (limited[c] /\ limiter = "revoked")

\* A handler ends: the client left, the connect failed or the relay was cut.
\* The guard of the registration is dropped.
End(c) ==
  /\ pc[c] # "idle"
  /\ pc' = [pc EXCEPT ![c] = "idle"]
  /\ inbound' = [inbound EXCEPT ![c] = None]
  /\ user' = [user EXCEPT ![c] = None]
  /\ limited' = [limited EXCEPT ![c] = FALSE]
  /\ socket' = [socket EXCEPT ![c] = None]
  /\ doomed' = doomed \ {c}
  /\ UNCHANGED <<users, limiter, todo, change>>

-----------------------------------------------------------------------------
Begin(i, entry, steps, removes) ==
  /\ todo = << >>
  /\ todo' = steps
  /\ change' = [inbound |-> i, entry |-> entry]
  /\ doomed' = IF removes THEN Registered ELSE {}
  /\ UNCHANGED <<users, limiter, handler>>

\* Mutant: the limiter of a user that is added is left as it was.
AddedAsItWas(i, entry) == Begin(i, entry, <<"store">>, FALSE)

\* ApplyUserDelta: sync_user_limit_delta, then the table of the inbound.
Added(i, entry) == Begin(i, entry, <<"sync", "store">>, FALSE)

\* Mutant: the connections of a user that is updated go on.
UpdatedKeeps(i, entry) == Begin(i, entry, <<"sync", "store">>, TRUE)

Updated(i, entry) == Begin(i, entry, <<"sync", "close", "store">>, TRUE)

Deleted(i) == Begin(i, None, <<"close", "revoke", "store">>, TRUE)

\* ApplyUserDelta with all users, by sync_full_users.
Full(i, entry) == Begin(i, entry, <<"sync", "store">>, FALSE)

FullWithout(i) == Begin(i, None, <<"revoke", "close", "store">>, TRUE)

\* ApplyConfig with a change of users only: replace_users.
Replaced(i, entry) == Begin(i, entry, <<"sync", "store">>, FALSE)

ReplacedWithout(i) == Begin(i, None, <<"store">>, FALSE)

Doing(step) ==
  /\ todo # << >>
  /\ Head(todo) = step
  /\ todo' = Tail(todo)
  /\ UNCHANGED <<change, doomed>>

\* A limiter the user already has is given the speed limit and re-opened.
sync_users ==
  /\ Doing("sync")
  /\ limiter' = IF limiter = None THEN None ELSE "open"
  /\ UNCHANGED <<users, handler>>

\* Whatever inbound they came in by.
close_users ==
  /\ Doing("close")
  /\ socket' = [c \in Connections |-> IF c \in Registered THEN "shut" ELSE None]
  /\ UNCHANGED <<users, limiter, pc, inbound, user, limited>>

revoke_users ==
  /\ Doing("revoke")
  /\ limiter' = IF limiter = None THEN None ELSE "revoked"
  /\ UNCHANGED <<users, handler>>

Store ==
  /\ Doing("store")
  /\ users' = [users EXCEPT ![change.inbound] = change.entry]
  /\ UNCHANGED <<limiter, handler>>

Handler ==
  \E c \in Connections :
    \/ \E i \in Inbounds : Authenticate(c, i)
    \/ request_user(c)
    \/ limiter_for(c)
    \/ limiter_for_limited(c)
    \/ register_tcp_connection(c)
    \/ End(c)

Issue ==
  \E i \in Inbounds :
    \/ /\ "delta" \in Commands
       /\ \E entry \in Entries : Added(i, entry) \/ Updated(i, entry)
    \/ /\ "delta" \in Commands
       /\ Deleted(i)
    \/ /\ "full" \in Commands
       /\ \E entry \in Entries : Full(i, entry)
    \/ /\ "full" \in Commands
       /\ FullWithout(i)
    \/ /\ "config" \in Commands
       /\ \E entry \in Entries : Replaced(i, entry)
    \/ /\ "config" \in Commands
       /\ ReplacedWithout(i)

Next ==
  \/ Handler
  \/ Issue
  \/ sync_users
  \/ close_users
  \/ revoke_users
  \/ Store

Spec == Init /\ [][Next]_vars

-----------------------------------------------------------------------------
\* What a command can have left to do.
Plans ==
  {<< >>, <<"store">>, <<"sync", "store">>, <<"close", "store">>, <<"revoke", "store">>,
   <<"sync", "close", "store">>, <<"close", "revoke", "store">>, <<"revoke", "close", "store">>}

\* An idle handler holds nothing, and a handler is registered only while it
\* relays.
TypeOK ==
  /\ users \in [Inbounds -> Entries \union {None}]
  /\ limiter \in {None, "open", "revoked"}
  /\ pc \in [Connections -> {"idle", "request", "limit", "connect", "relay"}]
  /\ inbound \in [Connections -> Inbounds \union {None}]
  /\ user \in [Connections -> Entries \union {None}]
  /\ limited \in [Connections -> BOOLEAN]
  /\ socket \in [Connections -> {None, "open", "shut"}]
  /\ todo \in Plans
  /\ change \in [inbound : Inbounds \union {None}, entry : Entries \union {None}]
  /\ doomed \subseteq Connections
  /\ todo # << >> => change.inbound \in Inbounds
  /\ \A c \in Connections :
       /\ pc[c] # "idle" => inbound[c] \in Inbounds
       /\ pc[c] = "idle" => ~ limited[c]
       /\ pc[c] # "relay" => socket[c] = None

Idle == todo = << >>

\* Deleting a user, leaving it out of a full snapshot and updating it shut
\* every connection of the user that was registered when the command began,
\* whatever the handlers do meanwhile (limits.rs:652-666, 668-678, 857-865;
\* docs/ARCHITECTURE.md:30 "registered by user and actively shut down on
\* delete/full-snapshot removal").
RegisteredAreShut == Idle => \A c \in doomed : socket[c] = "shut"

\* A user that is in every table is not left revoked: whoever puts it back
\* re-opens its limiter before the table admits it again, so no handler of
\* the user starts out cut (limits.rs:855-856, 665, 898-907).
EnabledIsOpen ==
  (Idle /\ \A i \in Inbounds : users[i] # None) => limiter # "revoked"
=============================================================================
