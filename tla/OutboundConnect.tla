--------------------------- MODULE OutboundConnect ---------------------------
(***************************************************************************)
(* Connecting to a target (dns.rs): the backoff of a target that keeps     *)
(* failing, the resolver with its caches, the limit on connects in flight, *)
(* the race of the addresses, and a reload that configures the resolver    *)
(* while all this goes on.                                                 *)
(*                                                                         *)
(* One target, a host name, is followed.  Every map has its own lock, so   *)
(* each look at one is a step.  Other targets appear as entries they evict.*)
(* Times are what is left until an expiry, or what has passed since, in    *)
(* some unit.  The failure map drops expired entries when it is full; the  *)
(* next use of such an entry would reset it, so that is left out.          *)
(***************************************************************************)
EXTENDS Naturals, FiniteSets

CONSTANTS
  Connects,          \* calls of connect_tcp or connect_tcp_tokio
  Answers,           \* sets of addresses the name servers answer with
  Private,           \* the private addresses
  Reloads,           \* whether the configs of reloads block private addresses
  Limit,             \* TCP_CONNECT_INFLIGHT_PER_TARGET_LIMIT
  MaxRace,           \* TCP_RACE_MAX_CONCURRENT
  Threshold,         \* TCP_CONNECT_FAILURE_THRESHOLD
  Window,            \* TCP_CONNECT_FAILURE_WINDOW
  Block,             \* TCP_CONNECT_FAILURE_BLOCK_DURATION
  PositiveTtl, NegativeTtl, FallbackTtl,
  None

ASSUME ConnectsAssumption == IsFiniteSet(Connects)
ASSUME LimitAssumption ==
  /\ Limit \in Nat \ {0} /\ MaxRace \in Nat \ {0} /\ Threshold \in Nat \ {0}
  /\ Window \in Nat /\ Block \in Nat
  /\ PositiveTtl \in Nat /\ NegativeTtl \in Nat /\ FallbackTtl \in Nat
ASSUME AnswersAssumption == {} \notin Answers /\ Reloads \subseteq BOOLEAN
ASSUME NoneAssumption ==
  None \notin Nat /\ None \notin [failures : Nat, age : Nat, blocked : Nat \cup {None}]

Addrs == UNION Answers

VARIABLES
  googlevideo,       \* whether the target is one of is_googlevideo_host
  blocking,          \* the config: private addresses of the target are blocked
  configuring,       \* what configure does next
  positive,          \* the target's entry in the positive cache
  negative,          \* the time left of its entry in the negative cache
  fallback,          \* the addresses kept for googlevideo hosts
  entry,             \* the target's TcpConnectFailureEntry
  inflight,          \* the target's count of connects in flight
  pc,                \* of a connect
  strict,            \* the config it has read
  addrs,             \* the addresses it found and has not tried
  active,            \* the attempts of its race that are not over
  bad                \* failures since the last success or reload, to Threshold

caches == <<positive, negative, fallback>>
connect == <<strict, addrs, active>>
config == <<googlevideo, blocking, configuring>>
vars == <<config, caches, entry, inflight, pc, connect, bad>>

Cached(a, ttl) == [addrs |-> a, left |-> ttl]

\* No entry, or one that is over: a look-up does not tell them apart.
Nothing == Cached({}, 0)

Blocked == entry # None /\ entry.blocked # None /\ entry.blocked > 0

-----------------------------------------------------------------------------
Init ==
  /\ googlevideo \in BOOLEAN
  /\ blocking = FALSE
  /\ configuring = "no"
  /\ positive = Nothing /\ negative = 0 /\ fallback = Nothing
  /\ entry = None
  /\ inflight = 0
  /\ pc = [c \in Connects |-> "idle"]
  /\ strict = [c \in Connects |-> FALSE]
  /\ addrs = [c \in Connects |-> {}]
  /\ active = [c \in Connects |-> {}]
  /\ bad = 0

Goto(c, label) == pc' = [pc EXCEPT ![c] = label]

\* A connect goes on without what it knew; at "idle" its call has returned.
Forget(c, label) ==
  /\ Goto(c, label)
  /\ strict' = [strict EXCEPT ![c] = FALSE]
  /\ addrs' = [addrs EXCEPT ![c] = {}]
  /\ active' = [active EXCEPT ![c] = {}]

-----------------------------------------------------------------------------
(* The backoff.                                                            *)

Fresh == [failures |-> 0, age |-> 0, blocked |-> None]

\* The entry with one more failure: outside the window it starts anew.
Failed(e) ==
  LET f == IF e = None \/ e.age > Window THEN Fresh ELSE e
  IN  [failures |-> f.failures + 1, age |-> f.age,
       blocked |-> IF f.failures + 1 >= Threshold THEN Block ELSE f.blocked]

\* A connect that finds the target blocked fails at once; one that finds the
\* block over forgets the failures.
tcp_connect_backoff_error(c) ==
  /\ pc[c] = "idle"
  /\ ~ Blocked
  /\ entry' = IF entry # None /\ entry.blocked # None THEN Fresh ELSE entry
  /\ Goto(c, "positive")
  /\ UNCHANGED <<config, caches, inflight, connect, bad>>

\* Mutant: a success leaves the failures before it.
record_tcp_connect_success_keeps(c) ==
  /\ pc[c] = "connected"
  /\ bad' = 0
  /\ Goto(c, "release")
  /\ UNCHANGED <<config, caches, entry, inflight, connect>>

record_tcp_connect_success(c) ==
  /\ pc[c] = "connected"
  /\ entry' = None
  /\ bad' = 0
  /\ Goto(c, "release")
  /\ UNCHANGED <<config, caches, inflight, connect>>

record_tcp_connect_failure(c) ==
  /\ pc[c] = "failed"
  /\ entry' = Failed(entry)
  /\ bad' = IF bad < Threshold THEN bad + 1 ELSE bad
  /\ Goto(c, "release")
  /\ UNCHANGED <<config, caches, inflight, connect>>

\* is_transient_tcp_connect_error: the failure does not count.
TransientFailure(c) ==
  /\ pc[c] = "failed"
  /\ Goto(c, "release")
  /\ UNCHANGED <<config, caches, entry, inflight, connect, bad>>

-----------------------------------------------------------------------------
(* resolve_socket_addrs.                                                   *)

Found(c, a, label) ==
  /\ addrs' = [addrs EXCEPT ![c] = a]
  /\ strict' = [strict EXCEPT ![c] = FALSE]
  /\ Goto(c, label)
  /\ UNCHANGED active

cached_positive_addrs(c) ==
  /\ pc[c] = "positive"
  /\ \/ positive.left > 0 /\ Found(c, positive.addrs, "guard")
     \/ positive.left = 0 /\ Goto(c, "negative") /\ UNCHANGED connect
  /\ UNCHANGED <<config, caches, entry, inflight, bad>>

cached_negative_error(c) ==
  /\ pc[c] = "negative"
  /\ \/ negative > 0 /\ Forget(c, "idle")
     \/ negative = 0 /\ Goto(c, "config") /\ UNCHANGED connect
  /\ UNCHANGED <<config, caches, entry, inflight, bad>>

current_config(c) ==
  /\ pc[c] = "config"
  /\ strict' = [strict EXCEPT ![c] = blocking]
  /\ Goto(c, "query")
  /\ UNCHANGED <<config, caches, entry, inflight, addrs, active, bad>>

filter_private_addrs(c, a) == IF strict[c] THEN a \ Private ELSE a

\* The name servers answer; an answer of private addresses only is refused.
Answered(c, a) ==
  /\ pc[c] = "query"
  /\ IF filter_private_addrs(c, a) = {}
     THEN Forget(c, "idle")
     ELSE Found(c, filter_private_addrs(c, a), "found")
  /\ UNCHANGED <<config, caches, entry, inflight, bad>>

Unanswered(c) ==
  /\ pc[c] = "query"
  /\ Forget(c, "unfound")
  /\ UNCHANGED <<config, caches, entry, inflight, bad>>

remove_negative_cache_entry(c) ==
  /\ pc[c] \in {"found", "unfound"}
  /\ negative' = 0
  /\ Goto(c, IF pc[c] = "found" THEN "record" ELSE "remove")
  /\ UNCHANGED <<config, positive, fallback, entry, inflight, connect, bad>>

\* Mutant: what fell back is kept as if it were an answer.
record_positive_cache_keeps(c) ==
  /\ pc[c] \in {"record", "record_fallback"}
  /\ positive' = Cached(addrs[c], PositiveTtl)
  /\ Goto(c, IF googlevideo THEN "keep" ELSE "guard")
  /\ UNCHANGED <<config, negative, fallback, entry, inflight, connect, bad>>

record_positive_cache(c) ==
  /\ pc[c] \in {"record", "record_fallback"}
  /\ positive' = Cached(addrs[c], PositiveTtl)
  /\ Goto(c, IF pc[c] = "record" /\ googlevideo THEN "keep" ELSE "guard")
  /\ UNCHANGED <<config, negative, fallback, entry, inflight, connect, bad>>

record_googlevideo_fallback(c) ==
  /\ pc[c] = "keep"
  /\ fallback' = Cached(addrs[c], FallbackTtl)
  /\ Goto(c, "guard")
  /\ UNCHANGED <<config, positive, negative, entry, inflight, connect, bad>>

remove_positive_cache_entry(c) ==
  /\ pc[c] = "remove"
  /\ positive' = Nothing
  /\ Goto(c, IF googlevideo THEN "fall_back" ELSE "deny")
  /\ UNCHANGED <<config, negative, fallback, entry, inflight, connect, bad>>

googlevideo_fallback_addrs(c) ==
  /\ pc[c] = "fall_back"
  /\ \/ fallback.left > 0 /\ Found(c, fallback.addrs, "record_fallback")
     \/ fallback.left = 0 /\ Forget(c, "idle")
  /\ UNCHANGED <<config, caches, entry, inflight, bad>>

record_negative_cache(c) ==
  /\ pc[c] = "deny"
  /\ negative' = NegativeTtl
  /\ Forget(c, "idle")
  /\ UNCHANGED <<config, positive, fallback, entry, inflight, bad>>

-----------------------------------------------------------------------------
(* The guard and the race of the addresses.                                *)

\* What spawn_tcp_race_attempts may start of the addresses u beside
\* the attempts a: it stops at MaxRace or when none is left.
Started(u, a) ==
  {s \in SUBSET u : /\ Cardinality(a \cup s) <= MaxRace
                    /\ s = u \/ Cardinality(a \cup s) = MaxRace}

tcp_connect_inflight_guard(c) ==
  /\ pc[c] = "guard"
  /\ \/ /\ inflight >= Limit
        /\ Forget(c, "idle")
        /\ UNCHANGED inflight
     \/ /\ inflight < Limit
        /\ inflight' = inflight + 1
        /\ \E s \in Started(addrs[c], {}) :
             /\ addrs' = [addrs EXCEPT ![c] = @ \ s]
             /\ active' = [active EXCEPT ![c] = s]
        /\ Goto(c, "race")
        /\ UNCHANGED strict
  /\ UNCHANGED <<config, caches, entry, bad>>

AttemptSucceeds(c, a) ==
  /\ pc[c] = "race"
  /\ a \in active[c]
  /\ Forget(c, "connected")
  /\ UNCHANGED <<config, caches, entry, inflight, bad>>

\* Mutant: no attempt takes the place of one that failed.
AttemptFailsAlone(c, a) ==
  /\ pc[c] = "race"
  /\ a \in active[c]
  /\ active' = [active EXCEPT ![c] = @ \ {a}]
  /\ Goto(c, IF active'[c] = {} /\ addrs[c] = {} THEN "failed" ELSE "race")
  /\ UNCHANGED <<config, caches, entry, inflight, strict, addrs, bad>>

AttemptFails(c, a) ==
  /\ pc[c] = "race"
  /\ a \in active[c]
  /\ \E s \in Started(addrs[c], active[c] \ {a}) :
       /\ addrs' = [addrs EXCEPT ![c] = @ \ s]
       /\ active' = [active EXCEPT ![c] = (@ \ {a}) \cup s]
       /\ Goto(c, IF active'[c] = {} /\ addrs'[c] = {} THEN "failed" ELSE "race")
  /\ UNCHANGED <<config, caches, entry, inflight, strict, bad>>

\* The deadline of the race passes before an attempt is over.
Deadline(c) ==
  /\ pc[c] = "race"
  /\ Forget(c, "failed")
  /\ UNCHANGED <<config, caches, entry, inflight, bad>>

\* Mutant: an aborted task takes its guard with it.
AbortKeepsGuard(c) ==
  /\ pc[c] \in {"guard", "race"}
  /\ Forget(c, "idle")
  /\ UNCHANGED <<config, caches, entry, inflight, bad>>

\* The task that connects is aborted: its guard is dropped.
Abort(c) ==
  /\ pc[c] \in {"guard", "race"}
  /\ Forget(c, IF pc[c] = "race" THEN "release" ELSE "idle")
  /\ UNCHANGED <<config, caches, entry, inflight, bad>>

\* Dropping the guard.
release(c) ==
  /\ pc[c] = "release"
  /\ inflight' = IF inflight > 0 THEN inflight - 1 ELSE 0
  /\ Forget(c, "idle")
  /\ UNCHANGED <<config, caches, entry, bad>>

-----------------------------------------------------------------------------
(* configure, on a reload.                                                 *)

Configure(b) ==
  /\ configuring = "no"
  /\ blocking' = b
  /\ configuring' = "positive"
  /\ UNCHANGED <<googlevideo, caches, entry, inflight, pc, connect, bad>>

clear_positive_cache ==
  /\ configuring = "positive"
  /\ positive' = Nothing
  /\ configuring' = "negative"
  /\ UNCHANGED <<googlevideo, blocking, negative, fallback, entry, inflight, pc, connect, bad>>

clear_negative_cache ==
  /\ configuring = "negative"
  /\ negative' = 0
  /\ configuring' = "fallback"
  /\ UNCHANGED <<googlevideo, blocking, positive, fallback, entry, inflight, pc, connect, bad>>

clear_googlevideo_fallback_cache ==
  /\ configuring = "fallback"
  /\ fallback' = Nothing
  /\ configuring' = "backoff"
  /\ UNCHANGED <<googlevideo, blocking, positive, negative, entry, inflight, pc, connect, bad>>

clear_tcp_connect_failure_backoff ==
  /\ configuring = "backoff"
  /\ entry' = None
  /\ bad' = 0
  /\ configuring' = "no"
  /\ UNCHANGED <<googlevideo, blocking, caches, inflight, pc, connect>>

\* Another target needs the place in a full cache.
Evict ==
  /\ \/ positive.left > 0 /\ positive' = Nothing /\ UNCHANGED negative
     \/ negative > 0 /\ negative' = 0 /\ UNCHANGED positive
  /\ UNCHANGED <<config, fallback, entry, inflight, pc, connect, bad>>

Less(n) == IF n > 0 THEN n - 1 ELSE 0

Older(c) == IF c.left > 1 THEN Cached(c.addrs, c.left - 1) ELSE Nothing

Tick ==
  /\ positive' = Older(positive)
  /\ negative' = Less(negative)
  /\ fallback' = Older(fallback)
  /\ entry' = IF entry = None THEN None
              ELSE [failures |-> entry.failures,
                    age |-> IF entry.age > Window THEN entry.age ELSE entry.age + 1,
                    blocked |-> IF entry.blocked = None THEN None ELSE Less(entry.blocked)]
  /\ UNCHANGED <<config, inflight, pc, connect, bad>>

-----------------------------------------------------------------------------
Resolve(c) ==
  \/ cached_positive_addrs(c)
  \/ cached_negative_error(c)
  \/ current_config(c)
  \/ \E a \in Answers : Answered(c, a)
  \/ Unanswered(c)
  \/ remove_negative_cache_entry(c)
  \/ record_positive_cache(c)
  \/ record_googlevideo_fallback(c)
  \/ remove_positive_cache_entry(c)
  \/ googlevideo_fallback_addrs(c)
  \/ record_negative_cache(c)

Race(c) ==
  \/ tcp_connect_inflight_guard(c)
  \/ \E a \in Addrs : AttemptSucceeds(c, a) \/ AttemptFails(c, a)
  \/ record_tcp_connect_success(c)
  \/ record_tcp_connect_failure(c)
  \/ TransientFailure(c)
  \/ release(c)

Configuring ==
  \/ clear_positive_cache
  \/ clear_negative_cache
  \/ clear_googlevideo_fallback_cache
  \/ clear_tcp_connect_failure_backoff

Next ==
  \/ \E c \in Connects : \/ tcp_connect_backoff_error(c)
                         \/ Resolve(c)
                         \/ Race(c)
                         \/ Deadline(c)
                         \/ Abort(c)
  \/ \E b \in Reloads : Configure(b)
  \/ Configuring
  \/ Evict
  \/ Tick

Spec == Init /\ [][Next]_vars

\* Time goes on, threads and tasks run, queries and attempts end by their own
\* timeouts.  Nobody has to connect, and no deadline or abort has to come.
FairSpec ==
  /\ Spec
  /\ WF_vars(Tick)
  /\ WF_vars(Configuring)
  /\ \A c \in Connects : WF_vars(Resolve(c) \/ Race(c))

-----------------------------------------------------------------------------
CacheEntry == [addrs : SUBSET Addrs, left : Nat]

Labels ==
  {"idle", "positive", "negative", "config", "query", "found", "unfound", "record", "keep",
   "remove", "fall_back", "record_fallback", "deny", "guard", "race", "connected", "failed",
   "release"}

\* The variables hold values of their types; in particular the count of the
\* connects in flight never passes its limit (dns.rs 66-98, 596-613).
TypeOK ==
  /\ googlevideo \in BOOLEAN
  /\ blocking \in BOOLEAN
  /\ configuring \in {"no", "positive", "negative", "fallback", "backoff"}
  /\ positive \in CacheEntry
  /\ negative \in Nat
  /\ fallback \in CacheEntry
  /\ entry \in [failures : Nat, age : Nat, blocked : Nat \cup {None}] \cup {None}
  /\ inflight \in 0..Limit
  /\ pc \in [Connects -> Labels]
  /\ strict \in [Connects -> BOOLEAN]
  /\ addrs \in [Connects -> SUBSET Addrs]
  /\ active \in [Connects -> SUBSET Addrs]
  /\ bad \in 0..Threshold

Holding == {c \in Connects : pc[c] \in {"race", "connected", "failed", "release"}}

\* The count is that of the connects which hold a guard, whether they end by
\* success, failure, deadline or abort: no slot of the target leaks (dns.rs
\* 596-613, 736-749).
InflightIsExact == inflight = Cardinality(Holding)

\* A target is blocked only after Threshold failures without a success or a
\* reload between them, however late the results of connects come in (dns.rs
\* 615-681).
BlockIsEarned == Blocked => bad = Threshold

\* A race that goes on has an attempt to wait for, so it ends without its
\* deadline: the place of a failed attempt goes to the next address, and
\* addresses wait only while all places are taken (dns.rs 237-344).
RaceIsRunning ==
  \A c \in Connects : pc[c] = "race" =>
    /\ active[c] # {}
    /\ Cardinality(active[c]) <= MaxRace
    /\ addrs[c] # {} => Cardinality(active[c]) = MaxRace

\* Once private addresses are blocked for good, no connect has one any more:
\* a resolution that overlapped the reload may put an old answer back into
\* the caches, but neither using a cached answer nor falling back to one
\* makes the cache it came from keep it longer (dns.rs 100-107, 491-579).
StaleAnswersDie ==
  <>[]blocking => <>[](\A c \in Connects : (addrs[c] \cup active[c]) \cap Private = {})
=============================================================================
