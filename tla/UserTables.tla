------------------------------ MODULE UserTables ------------------------------
(***************************************************************************)
(* The table of users of one server, in the shapes the protocols keep it   *)
(* in (user.rs): a map by uuid, a map by a key that is made of the         *)
(* credential or of the uuid, and a list. The agent replaces the table or  *)
(* sends deltas; clients authenticate meanwhile. An inbound of VMess keeps *)
(* a list of keys to try beside its table and writes the two in turn.      *)
(***************************************************************************)
EXTENDS Naturals, Sequences, SequencesExt, FiniteSets, TLC

CONSTANTS
  Accounts,    \* Accounts[key]: the users tried with the servers that have that key
  Spelling,    \* a uuid without its dashes, in lower case
  Malformed,   \* what is not the text of a uuid
  MaxOps,      \* additions, updates and deletions of one delta
  None

VARIABLES
  server,      \* the kind of server
  store,       \* its table: key -> user
  auth,        \* the keys it looks for first
  step,        \* "idle", or "listing" between the two writes of VMess
  known,       \* history: the users as the commands say, uuid -> user
  settled,     \* history: the users accepted before the command that goes on and after it
  clear,       \* history: no two users had one key since the last full table
  honest,      \* history: the last delta was said to have done what it did
  served,      \* history: nobody who stayed was refused
  client       \* a client whose key was found in the list, or None

vars == <<server, store, auth, step, known, settled, clear, honest, served, client>>

-----------------------------------------------------------------------------
is_empty(u) == u.uuid = ""

credential(u) == IF u.password = None THEN u.uuid ELSE u.password

\* The key under which a server keeps a user, None where the user has none.
Key(s, u) ==
  CASE s.key = "uuid" -> u.uuid
    [] s.key = "compact" -> Spelling[u.uuid]
    [] s.key = "parsed" -> IF u.uuid \in Malformed THEN None ELSE Spelling[u.uuid]
    [] s.key = "credential" -> credential(u)

Insert(users, k, u) == (k :> u) @@ users
Without(users, k) == [x \in DOMAIN users \ {k} |-> users[x]]
KeysOf(users, uuid) == {k \in DOMAIN users : users[k].uuid = uuid}

remove_arc_user_by_uuid(users, uuid) ==
  IF KeysOf(users, uuid) = {} THEN users ELSE Without(users, CHOOSE k \in KeysOf(users, uuid) : TRUE)

Counters == {"added", "updated", "deleted", "missing_updated", "missing_deleted"}

\* A table in the course of a delta: keys is the index from uuid to key which
\* one of the shapes makes of it.
Begun(users) ==
  [users |-> users, n |-> [c \in Counters |-> 0],
   keys |-> [uuid \in {users[k].uuid : k \in DOMAIN users} |-> CHOOSE k \in DOMAIN users : users[k].uuid = uuid]]

Did(r, users, counter) == [r EXCEPT !.users = users, !.n[counter] = @ + 1]

\* The three loops of a delta, in their order.
Fold(users, d, Add(_, _), Update(_, _), Delete(_, _)) ==
  FoldLeft(Delete, FoldLeft(Update, FoldLeft(Add, Begun(users), d.added), d.updated), d.deleted)

Unless(r, u, next) == IF is_empty(u) THEN r ELSE next

apply_uuid_delta(users, d) ==
  Fold(users, d,
    LAMBDA r, u : Unless(r, u,
      Did(r, Insert(r.users, u.uuid, u), IF u.uuid \in DOMAIN r.users THEN "updated" ELSE "added")),
    LAMBDA r, u : Unless(r, u,
      IF u.uuid \in DOMAIN r.users THEN Did(r, Insert(r.users, u.uuid, u), "updated")
      ELSE Did(r, r.users, "missing_updated")),
    LAMBDA r, uuid :
      Did(r, Without(r.users, uuid), IF uuid \in DOMAIN r.users THEN "deleted" ELSE "missing_deleted"))

apply_keyed_delta(s, users, d) ==
  LET Freed(r, uuid) == remove_arc_user_by_uuid(r.users, uuid)
  IN Fold(users, d,
       LAMBDA r, u : Unless(r, u,
         Did(r, Insert(Freed(r, u.uuid), Key(s, u), u),
             IF KeysOf(r.users, u.uuid) # {} THEN "updated" ELSE "added")),
       LAMBDA r, u : Unless(r, u,
         IF KeysOf(r.users, u.uuid) # {}
         THEN Did(r, Insert(Freed(r, u.uuid), Key(s, u), u), "updated")
         ELSE Did(r, r.users, "missing_updated")),
       LAMBDA r, uuid :
         Did(r, Freed(r, uuid), IF KeysOf(r.users, uuid) # {} THEN "deleted" ELSE "missing_deleted"))

apply_user_delta_to_vec(users, d) == apply_uuid_delta(users, d)

\* Mutant: an update takes its old key for a new one and leaves the old entry.
Moved(r, s, u) ==
  [r EXCEPT !.users = Insert(@, Key(s, u), u), !.keys = Insert(@, u.uuid, Key(s, u))]

\* The entry of a user moves to the key the user has now.
Rekeyed(r, s, u) ==
  [r EXCEPT !.users = Insert(IF u.uuid \in DOMAIN r.keys THEN Without(@, r.keys[u.uuid]) ELSE @, Key(s, u), u),
            !.keys = Insert(@, u.uuid, Key(s, u))]

Noted(r, counter) == Did(r, r.users, counter)

apply_user_delta_to_keyed_map(s, users, d) ==
  Fold(users, d,
    LAMBDA r, u : Unless(r, u,
      IF Key(s, u) = None THEN r
      ELSE Noted(Rekeyed(r, s, u), IF u.uuid \in DOMAIN r.keys THEN "updated" ELSE "added")),
    LAMBDA r, u : Unless(r, u,
      IF Key(s, u) # None /\ u.uuid \in DOMAIN r.keys THEN Noted(Rekeyed(r, s, u), "updated")
      ELSE Noted(r, "missing_updated")),
    LAMBDA r, uuid :
      IF uuid \in DOMAIN r.keys
      THEN Noted([r EXCEPT !.users = Without(@, r.keys[uuid]), !.keys = Without(@, uuid)],
                 IF r.keys[uuid] \in DOMAIN r.users THEN "deleted" ELSE "missing_deleted")
      ELSE Noted(r, "missing_deleted"))

\* The same over shared users.
apply_user_delta_to_keyed_arc_map(s, users, d) == apply_user_delta_to_keyed_map(s, users, d)

\* A table made of a list of users, the last of one key stays.
keyed_user_state(s, list) ==
  FoldLeft(LAMBDA users, u : IF is_empty(u) \/ Key(s, u) = None THEN users ELSE Insert(users, Key(s, u), u),
           <<>>, list)

-----------------------------------------------------------------------------
(* The servers: the shape and the key of their tables. Those whose requests *)
(* look for a matching key first list the keys.                             *)

Server(shape, key, lists) == [shape |-> shape, key |-> key, lists |-> lists]

Socks5 == Server("uuid", "uuid", FALSE)
HttpProxy == Server("uuid", "uuid", FALSE)
Naive == Server("uuid", "uuid", FALSE)
Vless == Server("keyed", "compact", FALSE)
Trojan == Server("keyed", "credential", FALSE)
Hysteria2 == Server("keyed", "credential", FALSE)
Vmess == Server("keyed", "parsed", TRUE)
AnyTls == Server("map", "credential", FALSE)
Tuic == Server("map", "parsed", FALSE)
Mieru == Server("list", "uuid", FALSE)
Shadowsocks == Server("list", "uuid", FALSE)

Servers == {Socks5, HttpProxy, Naive, Vless, Trojan, Hysteria2, Vmess, AnyTls, Tuic, Mieru, Shadowsocks}

valid_vmess_users(list) == SelectSeq(list, LAMBDA u : ~is_empty(u) /\ Key(Vmess, u) # None)

\* What a server makes of a delta before it looks at its table.
Screened(s, d) ==
  IF s # Vmess THEN d
  ELSE [d EXCEPT !.added = valid_vmess_users(@), !.updated = valid_vmess_users(@)]

apply_user_delta(s, users, d) ==
  CASE s.shape = "uuid" -> apply_uuid_delta(users, d)
    [] s.shape = "keyed" -> apply_keyed_delta(s, users, d)
    [] s.shape = "map" -> apply_user_delta_to_keyed_arc_map(s, users, d)
    [] s.shape = "list" -> apply_user_delta_to_vec(users, d)

-----------------------------------------------------------------------------
(* What the commands say, user by user.                                    *)

Listed(s) == {u.uuid : u \in {a \in Accounts[s.key] : ~is_empty(a) /\ Key(s, a) # None}}

Named(list, uuid) ==
  LET at == {i \in DOMAIN list : list[i].uuid = uuid}
  IN IF at = {} THEN None ELSE list[CHOOSE i \in at : \A j \in at : j <= i]

After(k, d) ==
  [uuid \in DOMAIN k |->
     IF uuid \in Range(d.deleted) THEN None
     ELSE IF Named(d.updated, uuid) # None /\ (k[uuid] # None \/ Named(d.added, uuid) # None)
          THEN Named(d.updated, uuid)
     ELSE IF Named(d.added, uuid) # None THEN Named(d.added, uuid)
     ELSE k[uuid]]

People(k) == {k[uuid] : uuid \in DOMAIN k} \ {None}

Distinct(s, k) == \A u, v \in People(k) : Key(s, u) = Key(s, v) => u = v

\* The first n operations of a delta.
Cut(d, n) ==
  LET Take(list, m) == SubSeq(list, 1, IF m < Len(list) THEN m ELSE Len(list))
      Rest(m, list) == IF m > Len(list) THEN m - Len(list) ELSE 0
  IN [added |-> Take(d.added, n), updated |-> Take(d.updated, Rest(n, d.added)),
      deleted |-> Take(d.deleted, Rest(n, d.added \o d.updated))]

DistinctThroughout(s, k, d) ==
  \A n \in 0 .. Len(d.added) + Len(d.updated) + Len(d.deleted) : Distinct(s, After(k, Cut(d, n)))

\* How often each thing happens to somebody: the malformed are missing.
Tally(s, k, d) ==
  LET Of(list) == {i \in DOMAIN list : ~is_empty(list[i])}
      added == {uuid \in DOMAIN k : k[uuid] = None /\ Named(d.added, uuid) # None}
      met == {uuid \in DOMAIN k : k[uuid] # None} \cup added
      lacking == {i \in Of(d.updated) : d.updated[i].uuid \notin met}
      skipped == {i \in Of(d.added) : d.added[i].uuid \notin DOMAIN k}
      deleted == Range(d.deleted) \cap met
  IN [added |-> Cardinality(added),
      updated |-> Cardinality(Of(d.added)) + Cardinality(Of(d.updated)) - Cardinality(added)
                    - Cardinality(lacking) - Cardinality(skipped),
      missing_updated |-> Cardinality(lacking),
      deleted |-> Cardinality(deleted), missing_deleted |-> Len(d.deleted) - Cardinality(deleted)]

-----------------------------------------------------------------------------
\* A full list names nobody twice.
Lists(s) == {list \in BoundedSeq(Accounts[s.key], 2) : \A i, j \in DOMAIN list : list[i].uuid = list[j].uuid => i = j}

KnownFrom(s, list) == [uuid \in Listed(s) |-> Named(list, uuid)]

Promised == IF clear THEN People(known) ELSE {}

Init ==
  /\ server \in Servers
  /\ \E list \in Lists(server) :
       /\ store = keyed_user_state(server, list)
       /\ known = KnownFrom(server, list)
  /\ auth = DOMAIN store /\ step = "idle"
  /\ clear = Distinct(server, known)
  /\ settled = Promised
  /\ honest = TRUE /\ served = TRUE /\ client = None

\* The table is stored, and where there is a list of keys it follows.
Stored(table) ==
  /\ step = "idle"
  /\ store' = table
  /\ IF server.lists
     THEN step' = "listing" /\ settled' = settled \cap Promised' /\ UNCHANGED auth
     ELSE auth' = DOMAIN table /\ settled' = Promised' /\ UNCHANGED step
  /\ client' = IF client = None THEN None
               ELSE [client EXCEPT !.steady = @ /\ client.user \in settled']
  /\ UNCHANGED <<server, served>>

\* A full list, by replace_users or in a delta.
replace_users(list) ==
  /\ known' = KnownFrom(server, list)
  /\ clear' = Distinct(server, known')
  /\ honest' = TRUE
  /\ Stored(keyed_user_state(server, list))

ApplyDelta(d) ==
  \E r \in {apply_user_delta(server, store, Screened(server, d))} :
    /\ known' = After(known, d)
    /\ clear' = (clear /\ DistinctThroughout(server, known, d))
    /\ honest' = (r.n = Tally(server, known, Screened(server, d)))
    /\ Stored(r.users)

\* The second write of VMess, made of what the table holds by now.
vmess_auth_users ==
  /\ step = "listing"
  /\ step' = "idle" /\ auth' = DOMAIN store /\ settled' = Promised
  /\ UNCHANGED <<server, store, known, clear, honest, served, client>>

\* A client shows the key of a user. Where a list of keys is tried first its
\* request looks the user up later.
Authenticate(u) ==
  /\ client = None
  /\ ~is_empty(u) /\ Key(server, u) # None
  /\ IF server.lists /\ Key(server, u) \in auth
     THEN client' = [user |-> u, steady |-> u \in settled] /\ UNCHANGED served
     ELSE served' = (served /\ (u \in settled => Key(server, u) \in auth)) /\ UNCHANGED client
  /\ UNCHANGED <<server, store, auth, step, known, settled, clear, honest>>

LookUp ==
  /\ client # None
  /\ served' = (served /\ (client.steady => Key(server, client.user) \in DOMAIN store))
  /\ client' = None
  /\ UNCHANGED <<server, store, auth, step, known, settled, clear, honest>>

Next ==
  \/ \E list \in Lists(server) : replace_users(list)
  \/ \E added \in BoundedSeq(Accounts[server.key], MaxOps) :
     \E updated \in BoundedSeq(Accounts[server.key], MaxOps - Len(added)) :
     \E deleted \in BoundedSeq(DOMAIN Spelling, MaxOps - Len(added) - Len(updated)) :
       ApplyDelta([added |-> added, updated |-> updated, deleted |-> deleted])
  \/ vmess_auth_users
  \/ \E u \in Accounts[server.key] : Authenticate(u)
  \/ LookUp

Spec == Init /\ [][Next]_vars

-----------------------------------------------------------------------------
\* Whatever its shape, a table accepts nobody but the users of the commands, as
\* they are now and under the key they have now; it accepts them all, and says
\* what a delta did, unless two users had one key at a time; and a user who
\* stays is not refused while the table is replaced.
TablesAreFaithful ==
  /\ \A k \in DOMAIN store : Key(server, store[k]) = k /\ known[store[k].uuid] = store[k]
  /\ clear => Range(store) = People(known) /\ honest
  /\ served
=============================================================================
