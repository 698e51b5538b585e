-------------------------- MODULE TrafficAccounting --------------------------
(***************************************************************************)
(* Traffic accounting (traffic.rs and its use in control.rs, service.rs    *)
(* and runtime.rs).  Relays add bytes to the registry of their service     *)
(* while the agent drains it shard by shard, and either reports the batch  *)
(* or puts it back record by record.  A service owns its registry: stop    *)
(* and reload drop it, and what is put back while there is no service goes *)
(* to the registry of the runtime.  The controller lock is held for a      *)
(* whole command; relays only take the lock of one shard.                  *)
(***************************************************************************)
EXTENDS Naturals

CONSTANTS
  Keys,         \* pairs of a node and a user
  Shards,       \* the number of shards, TRAFFIC_REGISTRY_SHARDS
  ShardOf,      \* shard_for: the shard of each key
  MaxBytes,     \* u64::MAX
  Amounts,      \* the uploads and downloads a relay adds in one call
  Minimums,     \* the thresholds the agent drains with
  MaxCounted,   \* bound: a key that counted this much is not used any more
  MaxRepeats,   \* bound: the requeue commands the agent sends again
  None

ASSUME KeysAssumption == Shards \in Nat /\ ShardOf \in [Keys -> 1..Shards]
ASSUME BytesAssumption == /\ MaxBytes \in Nat /\ Amounts \subseteq 0..MaxBytes
                          /\ Minimums \subseteq Nat
ASSUME NoneAssumption == None \notin [upload : 0..MaxBytes, download : 0..MaxBytes]
ASSUME BoundAssumption == MaxCounted \in Nat /\ MaxRepeats \in Nat

VARIABLES
  service,      \* whether the controller has a service
  orphans,      \* whether connections of a dropped service may still run
  svc, rt,      \* the registries of the service and of the runtime
  agent,        \* what the agent is doing
  shard,        \* the next shard of a drain
  minimum,      \* its threshold
  batch,        \* the records drained and not yet settled
  todo,         \* the keys of the batch still to be put back
  repeats,      \* requeue commands sent again
  counted, doubled, reported, written_off   \* what became of the bytes

vars == <<service, orphans, svc, rt, agent, shard, minimum, batch, todo, repeats,
          counted, doubled, reported, written_off>>
registries == <<service, orphans, svc, rt>>
exchange == <<agent, shard, minimum, batch, todo, repeats>>
books == <<counted, doubled, reported, written_off>>

-----------------------------------------------------------------------------
TrafficDelta == [upload : 0..MaxBytes, download : 0..MaxBytes]

Zero == [upload |-> 0, download |-> 0]

Empty == [k \in Keys |-> None]

saturating_add(a, b) == IF a + b <= MaxBytes THEN a + b ELSE MaxBytes

Upload(r) == IF r = None THEN 0 ELSE r.upload

Download(r) == IF r = None THEN 0 ELSE r.download

\* The amounts of a, or of each key of a table, with those of a record added
\* without a bound: the books never saturate.
Plus(a, r) == [upload |-> a.upload + Upload(r), download |-> a.download + Download(r)]

PlusAll(book, records) == [k \in Keys |-> Plus(book[k], records[k])]

\* The entry after r was added to it, be it vacant or occupied.
add_delta(entry, r) == [upload |-> saturating_add(Upload(entry), r.upload),
                        download |-> saturating_add(Download(entry), r.download)]

\* drain_minimum takes an entry with at least the threshold.
Drainable(entry) ==
  entry # None /\ saturating_add(entry.upload, entry.download) >= minimum

\* The controller lock is free.
Unlocked == agent \notin {"draining", "requeueing"}

-----------------------------------------------------------------------------
Init ==
  /\ service = FALSE /\ orphans = FALSE
  /\ svc = Empty /\ rt = Empty
  /\ agent = "idle"
  /\ shard = 1
  /\ minimum = 0
  /\ batch = Empty
  /\ todo = {}
  /\ repeats = 0
  /\ counted = [k \in Keys |-> Zero] /\ doubled = [k \in Keys |-> Zero]
  /\ reported = [k \in Keys |-> Zero] /\ written_off = [k \in Keys |-> Zero]

\* A relay of the running service counts bytes.
add_with_user_id(k, r) ==
  /\ service
  /\ counted[k].upload + counted[k].download < MaxCounted
  /\ svc' = [svc EXCEPT ![k] = add_delta(svc[k], r)]
  /\ counted' = [counted EXCEPT ![k] = Plus(@, r)]
  /\ UNCHANGED <<service, orphans, rt, exchange, doubled, reported, written_off>>

\* A connection that outlives its service counts into a registry that nobody
\* drains any more.
add_orphaned(k, r) ==
  /\ orphans
  /\ counted[k].upload + counted[k].download < MaxCounted
  /\ counted' = [counted EXCEPT ![k] = Plus(@, r)]
  /\ written_off' = [written_off EXCEPT ![k] = Plus(@, r)]
  /\ UNCHANGED <<registries, exchange, doubled, reported>>

\* The agent sends drain_traffic.
DrainTraffic(m) ==
  /\ agent = "idle"
  /\ agent' = "draining"
  /\ shard' = 1
  /\ minimum' = m
  /\ UNCHANGED <<registries, batch, todo, repeats, books>>

\* Mutant: the records of a shard replace those of the shards before it.
drain_replaces ==
  LET registry == IF service THEN svc ELSE rt
      taken    == {k \in Keys : ShardOf[k] = shard /\ Drainable(registry[k])}
      rest     == [k \in Keys |-> IF k \in taken THEN None ELSE registry[k]]
  IN  /\ agent = "draining"
      /\ shard <= Shards
      /\ batch' = [k \in Keys |-> IF k \in taken THEN registry[k] ELSE None]
      /\ svc' = IF service THEN rest ELSE svc
      /\ rt' = IF service THEN rt ELSE rest
      /\ shard' = shard + 1
      /\ agent' = IF shard = Shards THEN "answered" ELSE agent
      /\ UNCHANGED <<service, orphans, minimum, todo, repeats, books>>

\* One turn of the loop of drain_minimum, under the lock of the shard.  After
\* the last shard the response is sent.
drain_minimum ==
  LET registry == IF service THEN svc ELSE rt
      taken    == {k \in Keys : ShardOf[k] = shard /\ Drainable(registry[k])}
      rest     == [k \in Keys |-> IF k \in taken THEN None ELSE registry[k]]
  IN  /\ agent = "draining"
      /\ shard <= Shards
      /\ batch' = [k \in Keys |-> IF k \in taken THEN registry[k] ELSE batch[k]]
      /\ svc' = IF service THEN rest ELSE svc
      /\ rt' = IF service THEN rt ELSE rest
      /\ shard' = shard + 1
      /\ agent' = IF shard = Shards THEN "answered" ELSE agent
      /\ UNCHANGED <<service, orphans, minimum, todo, repeats, books>>

-----------------------------------------------------------------------------
(* The agent and the connection to it (external).                          *)

ReceiveTraffic ==
  /\ agent = "answered"
  /\ agent' = "holding"
  /\ UNCHANGED <<registries, shard, minimum, batch, todo, repeats, books>>

\* The response cannot be written, or the agent dies with its batch.
LoseTraffic ==
  /\ agent \in {"answered", "holding"}
  /\ agent' = "idle"
  /\ batch' = Empty
  /\ written_off' = PlusAll(written_off, batch)
  /\ UNCHANGED <<registries, shard, minimum, todo, repeats, counted, doubled, reported>>

ReportTraffic ==
  /\ agent = "holding"
  /\ agent' = "idle"
  /\ batch' = Empty
  /\ reported' = PlusAll(reported, batch)
  /\ UNCHANGED <<registries, shard, minimum, todo, repeats, counted, doubled, written_off>>

\* The report failed: requeue_traffic.
RequeueTraffic ==
  /\ agent = "holding"
  /\ agent' = "requeueing"
  /\ todo' = {k \in Keys : batch[k] # None}
  /\ UNCHANGED <<registries, shard, minimum, batch, repeats, books>>

\* The agent learns that its batch is back, ...
RequeueAnswered ==
  /\ agent = "requeued"
  /\ agent' = "idle"
  /\ batch' = Empty
  /\ UNCHANGED <<registries, shard, minimum, todo, repeats, books>>

\* ... or does not and still holds the batch.
RequeueUnanswered ==
  /\ agent = "requeued"
  /\ repeats < MaxRepeats
  /\ repeats' = repeats + 1
  /\ agent' = "holding"
  /\ doubled' = PlusAll(doubled, batch)
  /\ UNCHANGED <<registries, shard, minimum, batch, todo, counted, reported, written_off>>

-----------------------------------------------------------------------------
\* Mutant: a returned record replaces the entry.
requeue_overwrites(k) ==
  /\ agent = "requeueing"
  /\ k \in todo
  /\ svc' = IF service THEN [svc EXCEPT ![k] = batch[k]] ELSE svc
  /\ rt' = IF service THEN rt ELSE [rt EXCEPT ![k] = batch[k]]
  /\ todo' = todo \ {k}
  /\ UNCHANGED <<service, orphans, agent, shard, minimum, batch, repeats, books>>

\* One turn of the loop of add_deltas, under the lock of the shard of k.
add_deltas(k) ==
  /\ agent = "requeueing"
  /\ k \in todo
  /\ svc' = IF service THEN [svc EXCEPT ![k] = add_delta(svc[k], batch[k])] ELSE svc
  /\ rt' = IF service THEN rt ELSE [rt EXCEPT ![k] = add_delta(rt[k], batch[k])]
  /\ todo' = todo \ {k}
  /\ UNCHANGED <<service, orphans, agent, shard, minimum, batch, repeats, books>>

TrafficRequeued ==
  /\ agent = "requeueing"
  /\ todo = {}
  /\ agent' = "requeued"
  /\ UNCHANGED <<registries, shard, minimum, batch, todo, repeats, books>>

\* CoreService::start creates a registry; a reload has dropped the old one.
start ==
  /\ Unlocked
  /\ service' = TRUE
  /\ orphans' = (orphans \/ service)
  /\ svc' = Empty
  /\ written_off' = PlusAll(written_off, svc)
  /\ UNCHANGED <<rt, exchange, counted, doubled, reported>>

\* stop, or a start that fails half-way, with or without an old service.
stop ==
  /\ Unlocked
  /\ service' = FALSE
  /\ orphans' = TRUE
  /\ svc' = Empty
  /\ written_off' = PlusAll(written_off, svc)
  /\ UNCHANGED <<rt, exchange, counted, doubled, reported>>

Next ==
  \/ \E k \in Keys, up \in Amounts, down \in Amounts :
       LET r == [upload |-> up, download |-> down]
       IN  add_with_user_id(k, r) \/ add_orphaned(k, r)
  \/ \E m \in Minimums : DrainTraffic(m)
  \/ drain_minimum
  \/ ReceiveTraffic
  \/ LoseTraffic
  \/ ReportTraffic
  \/ RequeueTraffic
  \/ \E k \in Keys : add_deltas(k)
  \/ TrafficRequeued
  \/ RequeueAnswered
  \/ RequeueUnanswered
  \/ start
  \/ stop

Spec == Init /\ [][Next]_vars

-----------------------------------------------------------------------------
(* Properties.                                                             *)

\* The variables hold values of their types (traffic.rs 10-34).
TypeOK ==
  /\ service \in BOOLEAN /\ orphans \in BOOLEAN
  /\ svc \in [Keys -> TrafficDelta \cup {None}]
  /\ rt \in [Keys -> TrafficDelta \cup {None}]
  /\ agent \in {"idle", "draining", "answered", "holding", "requeueing", "requeued"}
  /\ shard \in 1..Shards + 1
  /\ minimum \in Nat
  /\ batch \in [Keys -> TrafficDelta \cup {None}]
  /\ todo \subseteq Keys
  /\ repeats \in Nat
  /\ {counted, doubled, reported, written_off}
       \subseteq [Keys -> [upload : Nat, download : Nat]]

\* The part of the batch that is neither reported nor back in a registry.
Unsettled(k) ==
  IF agent = "requeued" \/ (agent = "requeueing" /\ k \notin todo) THEN None ELSE batch[k]

\* What the core and the agent still owe the panel.
owed == [k \in Keys |-> Plus(Plus(Plus(Zero, svc[k]), rt[k]), Unsettled(k))]

\* No byte is lost or invented: however relays, shard-wise drains, record-wise
\* requeues, lost answers, repeated commands, reloads and stops interleave,
\* what is owed, reported and written off adds up to what relays counted and
\* the agent returned twice, as long as that fits a counter (traffic.rs
\* 72-204, control.rs 327-339).
Conserved ==
  \A k \in Keys :
    /\ counted[k].upload + doubled[k].upload <= MaxBytes =>
         owed[k].upload + reported[k].upload + written_off[k].upload
           = counted[k].upload + doubled[k].upload
    /\ counted[k].download + doubled[k].download <= MaxBytes =>
         owed[k].download + reported[k].download + written_off[k].download
           = counted[k].download + doubled[k].download

\* A counter that overflows loses bytes and never invents any: nobody is ever
\* charged more than was counted or returned twice (traffic.rs 107-108).
NeverOvercharged ==
  \A k \in Keys :
    /\ reported[k].upload <= counted[k].upload + doubled[k].upload
    /\ reported[k].download <= counted[k].download + doubled[k].download

\* The books balance: no byte is lost or invented, and nobody is overcharged.
BooksBalance == Conserved /\ NeverOvercharged

\* What the ledger calls owed is spread over the registries and the agent's batch.
Ledger == INSTANCE TrafficLedger WITH
  counted <- counted, doubled <- doubled, owed <- owed, reported <- reported, written_off <- written_off

\* The sharded registries and the exchange with the agent implement the
\* traffic ledger (traffic.rs 36-204, control.rs 327-339).
LedgerSpec == Ledger!Spec

=============================================================================
