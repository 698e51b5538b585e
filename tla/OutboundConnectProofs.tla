------------------------ MODULE OutboundConnectProofs ------------------------
(***************************************************************************)
(* The count of connects in flight is exact, a block is earned and a race  *)
(* is running, for any number of connects, any limits and any durations.   *)
(* That a block is earned rests on the failures of the entry being counted *)
(* in the history, also while the target is not blocked; that a race is    *)
(* running rests on no cache and no resolution giving an empty answer.     *)
(***************************************************************************)
EXTENDS OutboundConnect, FiniteSetTheorems, TLAPS

ConnectsOK ==
  /\ pc \in [Connects -> Labels]
  /\ strict \in [Connects -> BOOLEAN]
  /\ addrs \in [Connects -> SUBSET Addrs]
  /\ active \in [Connects -> SUBSET Addrs]

ConfigOK ==
  /\ googlevideo \in BOOLEAN
  /\ blocking \in BOOLEAN
  /\ configuring \in {"no", "positive", "negative", "fallback", "backoff"}

CachesOK ==
  /\ positive \in CacheEntry
  /\ negative \in Nat
  /\ fallback \in CacheEntry

Entries == [failures : Nat, age : Nat, blocked : Nat \cup {None}]

BackoffOK == entry \in Entries \cup {None} /\ bad \in 0..Threshold

\* The failures of the entry all happened since the last success or reload.
Earned ==
  entry # None =>
    /\ entry.failures <= bad \/ bad = Threshold
    /\ entry.blocked # None => bad = Threshold

IInv ==
  /\ ConnectsOK /\ ConfigOK /\ CachesOK /\ BackoffOK
  /\ inflight \in 0..Limit
  /\ InflightIsExact
  /\ Earned

LEMMA Typed == IInv => TypeOK
BY DEF IInv, ConnectsOK, ConfigOK, CachesOK, BackoffOK, Entries, TypeOK

LEMMA EarnedBlock == IInv => BlockIsEarned
BY DEF IInv, Earned, BlockIsEarned, Blocked

LEMMA HoldingFinite == IsFiniteSet(Holding) /\ Cardinality(Holding) \in Nat
<1>1. Holding \subseteq Connects
  BY DEF Holding
<1>2. IsFiniteSet(Holding)
  BY <1>1, FS_Subset, ConnectsAssumption
<1> QED
  BY <1>2, FS_CardinalityType

LEMMA NothingTyped == Nothing \in CacheEntry
BY DEF Nothing, Cached, CacheEntry

LEMMA InitIInv == Init => IInv
<1> SUFFICES ASSUME Init PROVE IInv
  OBVIOUS
<1>1. ConnectsOK /\ ConfigOK
  BY ZenonT(30) DEF Init, ConnectsOK, ConfigOK, Labels
<1>2. CachesOK
  BY NothingTyped DEF Init, CachesOK
<1>3. BackoffOK /\ Earned
  BY LimitAssumption DEF Init, BackoffOK, Earned
<1>4. inflight \in 0..Limit
  BY LimitAssumption DEF Init
<1>5. Holding = {}
  BY DEF Init, Holding
<1>6. InflightIsExact
  BY <1>5, FS_EmptySet DEF Init, InflightIsExact
<1> QED
  BY <1>1, <1>2, <1>3, <1>4, <1>6 DEF IInv

\* A step that takes and drops no guard and leaves the backoff alone.
LEMMA QuietStep ==
  ASSUME IInv, ConnectsOK', ConfigOK', CachesOK', UNCHANGED <<entry, bad, inflight>>,
         Holding' = Holding
  PROVE  IInv'
BY DEF IInv, BackoffOK, InflightIsExact, Earned

\* A connect moves between places where it holds a guard or between such
\* where it holds none.
Keeps(c, label) ==
  (label \in {"race", "connected", "failed", "release"})
    <=> (pc[c] \in {"race", "connected", "failed", "release"})

LEMMA MoveKeeps ==
  ASSUME IInv, NEW c \in Connects, NEW label \in Labels, Keeps(c, label), Goto(c, label)
  PROVE  Holding' = Holding
<1>1. pc' = [pc EXCEPT ![c] = label] /\ pc \in [Connects -> Labels]
  BY DEF Goto, IInv, ConnectsOK
<1>2. \A d \in Connects : pc'[d] = IF d = c THEN label ELSE pc[d]
  BY <1>1
<1> QED
  BY <1>2 DEF Holding, Keeps

LEMMA ForgetTyped ==
  ASSUME ConnectsOK, NEW c \in Connects, NEW label \in Labels, Forget(c, label)
  PROVE  ConnectsOK'
BY DEF ConnectsOK, Forget, Goto

LEMMA FoundTyped ==
  ASSUME ConnectsOK, NEW c \in Connects, NEW label \in Labels, NEW a \in SUBSET Addrs,
         Found(c, a, label)
  PROVE  ConnectsOK'
BY DEF ConnectsOK, Found, Goto

LEMMA GotoTyped ==
  ASSUME ConnectsOK, NEW c \in Connects, NEW label \in Labels, Goto(c, label), UNCHANGED connect
  PROVE  ConnectsOK'
BY DEF ConnectsOK, Goto, connect

\* The three ways of a step of the resolver or the race.
LEMMA ForgetStep ==
  ASSUME IInv, NEW c \in Connects, NEW label \in Labels, Keeps(c, label), Forget(c, label),
         UNCHANGED <<config, entry, bad, inflight>>, CachesOK'
  PROVE  IInv'
<1>1. ConnectsOK'
  BY ForgetTyped DEF IInv
<1>2. Holding' = Holding
  BY MoveKeeps DEF Forget
<1>3. ConfigOK'
  BY DEF IInv, ConfigOK, config
<1> QED
  BY <1>1, <1>2, <1>3, QuietStep

LEMMA FoundStep ==
  ASSUME IInv, NEW c \in Connects, NEW label \in Labels, NEW a \in SUBSET Addrs,
         Keeps(c, label), Found(c, a, label),
         UNCHANGED <<config, entry, bad, inflight>>, CachesOK'
  PROVE  IInv'
<1>1. ConnectsOK'
  BY FoundTyped DEF IInv
<1>2. Holding' = Holding
  BY MoveKeeps DEF Found
<1>3. ConfigOK'
  BY DEF IInv, ConfigOK, config
<1> QED
  BY <1>1, <1>2, <1>3, QuietStep

LEMMA GotoStep ==
  ASSUME IInv, NEW c \in Connects, NEW label \in Labels, Keeps(c, label), Goto(c, label),
         UNCHANGED <<config, entry, bad, inflight, connect>>, CachesOK'
  PROVE  IInv'
<1>1. ConnectsOK'
  BY GotoTyped DEF IInv
<1>2. Holding' = Holding
  BY MoveKeeps
<1>3. ConfigOK'
  BY DEF IInv, ConfigOK, config
<1> QED
  BY <1>1, <1>2, <1>3, QuietStep

LEMMA AnswersAreAddrs == \A a \in Answers : a \in SUBSET Addrs
BY DEF Addrs

LEMMA CachedTyped ==
  ASSUME NEW a \in SUBSET Addrs, NEW n \in Nat
  PROVE  Cached(a, n) \in CacheEntry
BY DEF Cached, CacheEntry

LEMMA ResolveStep ==
  ASSUME IInv, NEW c \in Connects, Resolve(c)
  PROVE  IInv'
<1> USE DEF Labels, Keeps
<1>0. UNCHANGED caches => CachesOK'
  BY DEF IInv, CachesOK, caches
<1>t. positive.addrs \in SUBSET Addrs /\ fallback.addrs \in SUBSET Addrs
      /\ addrs[c] \in SUBSET Addrs
  BY DEF IInv, CachesOK, CacheEntry, ConnectsOK
<1>1. CASE cached_positive_addrs(c)
  <2>1. CASE positive.left > 0 /\ Found(c, positive.addrs, "guard")
    BY <1>0, <1>1, <1>t, <2>1, FoundStep DEF cached_positive_addrs
  <2>2. CASE Goto(c, "negative") /\ UNCHANGED connect
    BY <1>0, <1>1, <2>2, GotoStep DEF cached_positive_addrs
  <2> QED
    BY <1>1, <2>1, <2>2 DEF cached_positive_addrs
<1>2. CASE cached_negative_error(c)
  <2>1. CASE Forget(c, "idle")
    BY <1>0, <1>2, <2>1, ForgetStep DEF cached_negative_error
  <2>2. CASE Goto(c, "config") /\ UNCHANGED connect
    BY <1>0, <1>2, <2>2, GotoStep DEF cached_negative_error
  <2> QED
    BY <1>2, <2>1, <2>2 DEF cached_negative_error
<1>3. CASE current_config(c)
  <2>1. ConnectsOK'
    BY <1>3 DEF current_config, Goto, IInv, ConnectsOK, ConfigOK
  <2>2. Holding' = Holding
    BY <1>3, MoveKeeps DEF current_config
  <2>3. ConfigOK'
    BY <1>3 DEF current_config, IInv, ConfigOK, config
  <2> QED
    BY <1>0, <1>3, <2>1, <2>2, <2>3, QuietStep DEF current_config
<1>4. ASSUME NEW a \in Answers, Answered(c, a) PROVE IInv'
  <2> DEFINE left == filter_private_addrs(c, a)
  <2>1. left \in SUBSET Addrs
    BY AnswersAreAddrs DEF filter_private_addrs
  <2>2. CASE left = {}
    BY <1>0, <1>4, <2>2, ForgetStep DEF Answered
  <2>3. CASE left # {}
    BY <1>0, <1>4, <2>1, <2>3, FoundStep DEF Answered
  <2> QED
    BY <2>2, <2>3
<1>5. CASE Unanswered(c)
  BY <1>0, <1>5, ForgetStep DEF Unanswered
<1>6. CASE remove_negative_cache_entry(c)
  <2>1. CachesOK'
    BY <1>6 DEF remove_negative_cache_entry, IInv, CachesOK
  <2>2. CASE pc[c] = "found"
    BY <1>6, <2>1, <2>2, GotoStep DEF remove_negative_cache_entry
  <2>3. CASE pc[c] = "unfound"
    BY <1>6, <2>1, <2>3, GotoStep DEF remove_negative_cache_entry
  <2> QED
    BY <1>6, <2>2, <2>3 DEF remove_negative_cache_entry
<1>7. CASE record_positive_cache(c)
  <2>1. CachesOK'
    BY <1>7, <1>t, CachedTyped, LimitAssumption DEF record_positive_cache, IInv, CachesOK
  <2>2. CASE pc[c] = "record" /\ googlevideo
    BY <1>7, <2>1, <2>2, GotoStep DEF record_positive_cache
  <2>3. CASE ~ (pc[c] = "record" /\ googlevideo)
    BY <1>7, <2>1, <2>3, GotoStep DEF record_positive_cache
  <2> QED
    BY <2>2, <2>3
<1>8. CASE record_googlevideo_fallback(c)
  <2>1. CachesOK'
    BY <1>8, <1>t, CachedTyped, LimitAssumption DEF record_googlevideo_fallback, IInv, CachesOK
  <2> QED
    BY <1>8, <2>1, GotoStep DEF record_googlevideo_fallback
<1>9. CASE remove_positive_cache_entry(c)
  <2>1. CachesOK'
    BY <1>9, NothingTyped DEF remove_positive_cache_entry, IInv, CachesOK
  <2>2. CASE googlevideo
    BY <1>9, <2>1, <2>2, GotoStep DEF remove_positive_cache_entry
  <2>3. CASE ~ googlevideo
    BY <1>9, <2>1, <2>3, GotoStep DEF remove_positive_cache_entry
  <2> QED
    BY <2>2, <2>3
<1>10. CASE googlevideo_fallback_addrs(c)
  <2>1. CASE Found(c, fallback.addrs, "record_fallback")
    BY <1>0, <1>10, <1>t, <2>1, FoundStep DEF googlevideo_fallback_addrs
  <2>2. CASE Forget(c, "idle")
    BY <1>0, <1>10, <2>2, ForgetStep DEF googlevideo_fallback_addrs
  <2> QED
    BY <1>10, <2>1, <2>2, ZenonT(30) DEF googlevideo_fallback_addrs
<1>11. CASE record_negative_cache(c)
  <2>1. CachesOK'
    BY <1>11, LimitAssumption DEF record_negative_cache, IInv, CachesOK
  <2> QED
    BY <1>11, <2>1, ForgetStep DEF record_negative_cache
<1> QED
  BY <1>1, <1>2, <1>3, <1>4, <1>5, <1>6, <1>7, <1>8, <1>9, <1>10, <1>11 DEF Resolve

\* A step on the failures of the target that takes and drops no guard.
LEMMA BackoffStep ==
  ASSUME IInv, NEW c \in Connects, NEW label \in Labels, Keeps(c, label), Goto(c, label),
         UNCHANGED <<config, caches, inflight, connect>>, BackoffOK', Earned'
  PROVE  IInv'
<1>1. ConnectsOK'
  BY GotoTyped DEF IInv
<1>2. Holding' = Holding
  BY MoveKeeps
<1>3. ConfigOK' /\ CachesOK'
  BY DEF IInv, ConfigOK, CachesOK, config, caches
<1> QED
  BY <1>1, <1>2, <1>3 DEF IInv, InflightIsExact

LEMMA FreshTyped == Fresh \in Entries /\ Fresh.failures = 0 /\ Fresh.blocked = None
BY DEF Fresh, Entries

\* Reaching the threshold takes Threshold failures in the history too.
LEMMA FailureEarned ==
  ASSUME BackoffOK, Earned, entry' = Failed(entry),
         bad' = IF bad < Threshold THEN bad + 1 ELSE bad
  PROVE  BackoffOK' /\ Earned'
<1> DEFINE f == IF entry = None \/ entry.age > Window THEN Fresh ELSE entry
           n == f.failures + 1
<1>1. f \in Entries
  BY FreshTyped DEF BackoffOK
<1>2. f.failures <= bad \/ bad = Threshold
  BY FreshTyped, LimitAssumption DEF BackoffOK, Earned
<1>3. f.blocked # None => bad = Threshold
  BY FreshTyped DEF Earned
<1>4. entry' = [failures |-> n, age |-> f.age,
                blocked |-> IF n >= Threshold THEN Block ELSE f.blocked]
  BY DEF Failed
<1>5. f.failures \in Nat /\ f.age \in Nat /\ f.blocked \in Nat \cup {None}
  BY <1>1 DEF Entries
<1>6. n \in Nat
  BY <1>5
<1>7. bad' \in 0..Threshold
  BY LimitAssumption DEF BackoffOK
<1>8. n <= bad' \/ bad' = Threshold
  BY <1>2, <1>5, LimitAssumption DEF BackoffOK
<1>9. n >= Threshold => bad' = Threshold
  BY <1>2, <1>5, LimitAssumption DEF BackoffOK
<1>10. f.blocked # None => bad' = Threshold
  BY <1>3, LimitAssumption DEF BackoffOK
<1> HIDE DEF f, n
<1>11. entry' \in Entries
  BY <1>4, <1>5, <1>6, LimitAssumption DEF Entries
<1>12. entry'.failures = n /\ entry'.blocked = IF n >= Threshold THEN Block ELSE f.blocked
  BY <1>4
<1>13. BackoffOK'
  BY <1>7, <1>11 DEF BackoffOK
<1> QED
  BY <1>8, <1>9, <1>10, <1>12, <1>13 DEF Earned

LEMMA AdmitStep ==
  ASSUME IInv, NEW c \in Connects, pc[c] = "guard", inflight < Limit,
         inflight' = inflight + 1, NEW s \in Started(addrs[c], {}),
         addrs' = [addrs EXCEPT ![c] = @ \ s], active' = [active EXCEPT ![c] = s],
         Goto(c, "race"), UNCHANGED <<strict, config, caches, entry, bad>>
  PROVE  IInv'
<1>1. ConnectsOK'
  BY DEF IInv, ConnectsOK, Goto, Labels, Started
<1>2. ConfigOK' /\ CachesOK' /\ BackoffOK' /\ Earned'
  BY DEF IInv, ConfigOK, CachesOK, BackoffOK, Earned, config, caches
<1>3. inflight' \in 0..Limit
  BY LimitAssumption DEF IInv
<1>4. Holding' = Holding \cup {c} /\ c \notin Holding
  BY DEF IInv, ConnectsOK, Goto, Holding
<1>5. Cardinality(Holding') = Cardinality(Holding) + 1
  BY <1>4, HoldingFinite, FS_AddElement, ZenonT(30)
<1>6. InflightIsExact'
  BY <1>5 DEF IInv, InflightIsExact
<1> QED
  BY <1>1, <1>2, <1>3, <1>6 DEF IInv

LEMMA ReleaseStep ==
  ASSUME IInv, NEW c \in Connects, release(c)
  PROVE  IInv'
<1>1. ConnectsOK'
  BY ForgetTyped DEF release, IInv, Labels
<1>2. ConfigOK' /\ CachesOK' /\ BackoffOK' /\ Earned'
  BY DEF release, IInv, ConfigOK, CachesOK, BackoffOK, Earned, config, caches
<1>3. inflight' \in 0..Limit
  BY LimitAssumption DEF release, IInv
<1>4. Holding' = Holding \ {c} /\ c \in Holding
  BY DEF release, Forget, IInv, ConnectsOK, Goto, Holding
<1>5. Cardinality(Holding') = Cardinality(Holding) - 1
  BY <1>4, HoldingFinite, FS_RemoveElement
<1>6. Cardinality(Holding) > 0
  BY <1>4, HoldingFinite, FS_EmptySet
<1>7. InflightIsExact'
  BY <1>5, <1>6, HoldingFinite DEF release, IInv, InflightIsExact
<1> QED
  BY <1>1, <1>2, <1>3, <1>7 DEF IInv

LEMMA AttemptFailsStep ==
  ASSUME IInv, NEW c \in Connects, NEW a \in Addrs, AttemptFails(c, a)
  PROVE  IInv'
<1>1. PICK s \in Started(addrs[c], active[c] \ {a}) :
        /\ addrs' = [addrs EXCEPT ![c] = @ \ s]
        /\ active' = [active EXCEPT ![c] = (@ \ {a}) \cup s]
        /\ Goto(c, IF active'[c] = {} /\ addrs'[c] = {} THEN "failed" ELSE "race")
  BY ZenonT(30) DEF AttemptFails
<1> DEFINE label == IF active'[c] = {} /\ addrs'[c] = {} THEN "failed" ELSE "race"
<1>2. label \in Labels /\ label \in {"race", "failed"}
  BY DEF Labels
<1>3. Goto(c, label)
  BY <1>1
<1> HIDE DEF label
<1>4. ConnectsOK'
  BY <1>1, <1>2, <1>3 DEF AttemptFails, IInv, ConnectsOK, Goto, Started
<1>5. Keeps(c, label)
  BY <1>2, ZenonT(30) DEF Keeps, AttemptFails
<1>6. Holding' = Holding
  BY <1>2, <1>3, <1>5, MoveKeeps
<1>7. ConfigOK' /\ CachesOK'
  BY DEF AttemptFails, IInv, ConfigOK, CachesOK, config, caches
<1> QED
  BY <1>4, <1>6, <1>7, QuietStep, ZenonT(30) DEF AttemptFails

LEMMA RaceStep ==
  ASSUME IInv, NEW c \in Connects, Race(c)
  PROVE  IInv'
<1> USE DEF Labels, Keeps
<1>0. UNCHANGED caches => CachesOK'
  BY DEF IInv, CachesOK, caches
<1>1. CASE tcp_connect_inflight_guard(c)
  <2>1. CASE inflight >= Limit /\ Forget(c, "idle") /\ UNCHANGED inflight
    BY <1>0, <1>1, <2>1, ForgetStep, ZenonT(30) DEF tcp_connect_inflight_guard
  <2>2. CASE ~ (inflight >= Limit /\ Forget(c, "idle") /\ UNCHANGED inflight)
    <3>1. PICK s \in Started(addrs[c], {}) :
            /\ addrs' = [addrs EXCEPT ![c] = @ \ s]
            /\ active' = [active EXCEPT ![c] = s]
      BY <1>1, <2>2, ZenonT(30) DEF tcp_connect_inflight_guard
    <3> QED
      BY <1>1, <2>2, <3>1, AdmitStep, ZenonT(30) DEF tcp_connect_inflight_guard
  <2> QED
    BY <2>1, <2>2, ZenonT(30)
<1>2. ASSUME NEW a \in Addrs, AttemptSucceeds(c, a) PROVE IInv'
  BY <1>0, <1>2, ForgetStep, ZenonT(30) DEF AttemptSucceeds
<1>3. ASSUME NEW a \in Addrs, AttemptFails(c, a) PROVE IInv'
  BY <1>3, AttemptFailsStep
<1>4. CASE record_tcp_connect_success(c)
  <2>1. BackoffOK' /\ Earned'
    BY <1>4, LimitAssumption DEF record_tcp_connect_success, BackoffOK, Earned
  <2> QED
    BY <1>4, <2>1, BackoffStep DEF record_tcp_connect_success
<1>5. CASE record_tcp_connect_failure(c)
  <2>1. BackoffOK' /\ Earned'
    BY <1>5, FailureEarned DEF record_tcp_connect_failure, IInv
  <2> QED
    BY <1>5, <2>1, BackoffStep DEF record_tcp_connect_failure
<1>6. CASE TransientFailure(c)
  BY <1>0, <1>6, GotoStep DEF TransientFailure
<1>7. CASE release(c)
  BY <1>7, ReleaseStep
<1> QED
  BY <1>1, <1>2, <1>3, <1>4, <1>5, <1>6, <1>7 DEF Race

LEMMA ForgetfulStep ==
  ASSUME IInv, NEW c \in Connects, tcp_connect_backoff_error(c)
  PROVE  IInv'
<1>1. BackoffOK' /\ Earned'
  BY FreshTyped, LimitAssumption DEF tcp_connect_backoff_error, IInv, BackoffOK, Earned
<1> QED
  BY <1>1, BackoffStep DEF tcp_connect_backoff_error, Labels, Keeps

LEMMA AbortStep ==
  ASSUME IInv, NEW c \in Connects, Abort(c)
  PROVE  IInv'
<1>0. CachesOK'
  BY DEF Abort, IInv, CachesOK, caches
<1>1. CASE pc[c] = "race"
  BY <1>0, <1>1, ForgetStep DEF Abort, Labels, Keeps
<1>2. CASE pc[c] = "guard"
  BY <1>0, <1>2, ForgetStep DEF Abort, Labels, Keeps
<1> QED
  BY <1>1, <1>2 DEF Abort

\* A step that no connect takes.
LEMMA OutsideStep ==
  ASSUME IInv, UNCHANGED <<pc, connect, inflight>>, ConfigOK', CachesOK', BackoffOK', Earned'
  PROVE  IInv'
BY ZenonT(30) DEF IInv, connect, ConnectsOK, InflightIsExact, Holding

LEMMA ConfigureStep ==
  ASSUME IInv, (\E b \in Reloads : Configure(b)) \/ Configuring \/ Evict
  PROVE  IInv'
<1> USE DEF IInv, ConfigOK, CachesOK, BackoffOK, Earned
<1>1. ASSUME NEW b \in Reloads, Configure(b) PROVE IInv'
  BY <1>1, OutsideStep, AnswersAssumption, ZenonT(30) DEF Configure, caches
<1>2. CASE clear_positive_cache
  BY <1>2, OutsideStep, NothingTyped, ZenonT(30) DEF clear_positive_cache
<1>3. CASE clear_negative_cache
  BY <1>3, OutsideStep, ZenonT(30) DEF clear_negative_cache
<1>4. CASE clear_googlevideo_fallback_cache
  BY <1>4, OutsideStep, NothingTyped, ZenonT(30) DEF clear_googlevideo_fallback_cache
<1>5. CASE clear_tcp_connect_failure_backoff
  BY <1>5, OutsideStep, LimitAssumption DEF clear_tcp_connect_failure_backoff, caches
<1>6. CASE Evict
  BY <1>6, OutsideStep, NothingTyped DEF Evict, config
<1> QED
  BY <1>1, <1>2, <1>3, <1>4, <1>5, <1>6, ZenonT(30) DEF Configuring

LEMMA OlderTyped ==
  ASSUME NEW e \in CacheEntry
  PROVE  Older(e) \in CacheEntry
BY NothingTyped DEF Older, Cached, CacheEntry

LEMMA TickStep ==
  ASSUME IInv, Tick
  PROVE  IInv'
<1>1. ConfigOK'
  BY DEF Tick, IInv, ConfigOK, config
<1>2. CachesOK'
  BY OlderTyped DEF Tick, IInv, CachesOK, Less
<1>3. CASE entry = None
  <2>1. BackoffOK' /\ Earned'
    BY <1>3 DEF Tick, IInv, BackoffOK, Earned
  <2> QED
    BY <1>1, <1>2, <2>1, OutsideStep DEF Tick
<1>4. CASE entry # None
  <2>1. entry \in Entries /\ bad \in 0..Threshold
    BY <1>4 DEF IInv, BackoffOK
  <2>2. entry.failures \in Nat /\ entry.age \in Nat /\ entry.blocked \in Nat \cup {None}
    BY <2>1 DEF Entries
  <2> DEFINE age == IF entry.age > Window THEN entry.age ELSE entry.age + 1
             blocked == IF entry.blocked = None THEN None ELSE Less(entry.blocked)
  <2>3. age \in Nat /\ blocked \in Nat \cup {None}
    BY <2>2, LimitAssumption DEF Less
  <2>4. blocked # None => entry.blocked # None
    OBVIOUS
  <2>5. entry' = [failures |-> entry.failures, age |-> age, blocked |-> blocked]
    BY <1>4 DEF Tick
  <2> HIDE DEF age, blocked
  <2>6. entry' \in Entries /\ entry'.failures = entry.failures /\ entry'.blocked = blocked
    BY <2>2, <2>3, <2>5, ZenonT(30) DEF Entries
  <2>7. BackoffOK'
    BY <2>1, <2>6, ZenonT(30) DEF Tick, BackoffOK
  <2>8. Earned'
    BY <1>4, <2>4, <2>6 DEF Tick, IInv, Earned
  <2> QED
    BY <1>1, <1>2, <2>7, <2>8, OutsideStep DEF Tick
<1> QED
  BY <1>3, <1>4

LEMMA NextIInv == IInv /\ [Next]_vars => IInv'
<1> SUFFICES ASSUME IInv, [Next]_vars PROVE IInv'
  OBVIOUS
<1>1. ASSUME NEW c \in Connects, Deadline(c) PROVE IInv'
  <2>1. CachesOK'
    BY <1>1 DEF Deadline, IInv, CachesOK, caches
  <2> QED
    BY <1>1, <2>1, ForgetStep DEF Deadline, Labels, Keeps
<1>2. CASE UNCHANGED vars
  <2>1. ConfigOK' /\ CachesOK' /\ BackoffOK' /\ Earned'
    BY <1>2 DEF vars, config, caches, IInv, ConfigOK, CachesOK, BackoffOK, Earned
  <2> QED
    BY <1>2, <2>1, OutsideStep DEF vars
<1> QED
  BY <1>1, <1>2, ForgetfulStep, ResolveStep, RaceStep, AbortStep, ConfigureStep, TickStep, ZenonT(30) DEF Next

\* What the theorems below follow from, of every reachable state.
THEOREM Inductive == Spec => []IInv
BY InitIInv, NextIInv, PTL DEF Spec

\* The variables keep their types: the connects in flight never pass the limit.
THEOREM TypeCorrect == Spec => []TypeOK
BY Inductive, Typed, PTL

\* The count of the connects in flight is that of the guards that are held.
THEOREM InflightExact == Spec => []InflightIsExact
<1>1. IInv => InflightIsExact
  BY ZenonT(30) DEF IInv
<1> QED
  BY <1>1, Inductive, PTL

\* A target is blocked only after Threshold failures in a row.
THEOREM BlockEarned == Spec => []BlockIsEarned
BY Inductive, EarnedBlock, PTL

-----------------------------------------------------------------------------
(* The race.                                                               *)

\* Where a connect has addresses that it has not tried yet.
Resolved == {"found", "record", "record_fallback", "keep", "guard"}

\* A connect that resolved the name has an address, one that races an attempt.
Supplied(c) ==
  /\ pc[c] \in Resolved => addrs[c] # {}
  /\ pc[c] = "race" =>
       /\ active[c] # {}
       /\ Cardinality(active[c]) <= MaxRace
       /\ addrs[c] # {} => Cardinality(active[c]) = MaxRace

\* An entry of a cache that still counts has an address.
CachesServe ==
  /\ positive.left > 0 => positive.addrs # {}
  /\ fallback.left > 0 => fallback.addrs # {}

RaceInv == CachesServe /\ \A c \in Connects : Supplied(c)

\* One connect takes the step.
Alone(c) ==
  \A d \in Connects \ {c} : pc'[d] = pc[d] /\ addrs'[d] = addrs[d] /\ active'[d] = active[d]

LEMMA AloneStep ==
  ASSUME RaceInv, NEW c \in Connects, Alone(c), Supplied(c)', CachesServe'
  PROVE  RaceInv'
BY DEF RaceInv, Alone, Supplied

LEMMA InitRace == Init => RaceInv
BY DEF Init, RaceInv, CachesServe, Supplied, Resolved, Nothing, Cached

LEMMA NothingServes == Nothing.left = 0
BY DEF Nothing, Cached

\* The connect goes on, and what it has does not change.
LEMMA GotoSupplied ==
  ASSUME IInv, RaceInv, NEW c \in Connects, NEW label \in Labels, Goto(c, label),
         UNCHANGED connect, CachesServe', label # "race",
         label \in Resolved => pc[c] \in Resolved
  PROVE  RaceInv'
<1>1. pc'[c] = label /\ addrs' = addrs /\ active' = active
  BY DEF Goto, connect, IInv, ConnectsOK
<1>2. Alone(c)
  BY <1>1, ZenonT(30) DEF Goto, Alone, IInv, ConnectsOK
<1>3. Supplied(c)'
  BY <1>1 DEF RaceInv, Supplied
<1> QED
  BY <1>2, <1>3, AloneStep

LEMMA ForgetSupplied ==
  ASSUME IInv, RaceInv, NEW c \in Connects, NEW label \in Labels, Forget(c, label),
         CachesServe', label # "race", label \notin Resolved
  PROVE  RaceInv'
<1>1. pc'[c] = label
  BY DEF Forget, Goto, IInv, ConnectsOK
<1>2. Alone(c)
  BY DEF Forget, Goto, Alone, IInv, ConnectsOK
<1>3. Supplied(c)'
  BY <1>1 DEF Supplied
<1> QED
  BY <1>2, <1>3, AloneStep

LEMMA FoundSupplied ==
  ASSUME IInv, RaceInv, NEW c \in Connects, NEW label \in Labels, NEW a, Found(c, a, label),
         CachesServe', label # "race", a # {}
  PROVE  RaceInv'
<1>1. pc'[c] = label /\ addrs'[c] = a
  BY DEF Found, Goto, IInv, ConnectsOK
<1>2. Alone(c)
  BY DEF Found, Goto, Alone, IInv, ConnectsOK
<1>3. Supplied(c)'
  BY <1>1 DEF Supplied
<1> QED
  BY <1>2, <1>3, AloneStep

LEMMA ResolveSupplied ==
  ASSUME IInv, RaceInv, NEW c \in Connects, Resolve(c)
  PROVE  RaceInv'
<1> USE DEF Labels, Resolved
<1>0. UNCHANGED caches => CachesServe'
  BY DEF RaceInv, CachesServe, caches
<1>t. positive.left \in Nat /\ fallback.left \in Nat
  BY ZenonT(30) DEF IInv, CachesOK, CacheEntry
<1>a. pc[c] \in Resolved => addrs[c] # {}
  BY DEF RaceInv, Supplied
<1>1. CASE cached_positive_addrs(c)
  <2>1. CASE positive.left > 0 /\ Found(c, positive.addrs, "guard")
    BY <1>0, <1>1, <2>1, FoundSupplied DEF cached_positive_addrs, RaceInv, CachesServe
  <2>2. CASE Goto(c, "negative") /\ UNCHANGED connect
    BY <1>0, <1>1, <2>2, GotoSupplied DEF cached_positive_addrs
  <2> QED
    BY <1>1, <2>1, <2>2, ZenonT(30) DEF cached_positive_addrs
<1>2. CASE cached_negative_error(c)
  <2>1. CASE Forget(c, "idle")
    BY <1>0, <1>2, <2>1, ForgetSupplied DEF cached_negative_error
  <2>2. CASE Goto(c, "config") /\ UNCHANGED connect
    BY <1>0, <1>2, <2>2, GotoSupplied DEF cached_negative_error
  <2> QED
    BY <1>2, <2>1, <2>2 DEF cached_negative_error
<1>3. CASE current_config(c)
  <2>1. Alone(c) /\ pc'[c] = "query"
    BY <1>3 DEF current_config, Goto, Alone, IInv, ConnectsOK
  <2>2. Supplied(c)'
    BY <2>1 DEF Supplied
  <2> QED
    BY <1>0, <1>3, <2>1, <2>2, AloneStep, ZenonT(30) DEF current_config
<1>4. ASSUME NEW a \in Answers, Answered(c, a) PROVE RaceInv'
  <2>1. CASE filter_private_addrs(c, a) = {}
    BY <1>0, <1>4, <2>1, ForgetSupplied, ZenonT(30) DEF Answered
  <2>2. CASE filter_private_addrs(c, a) # {}
    BY <1>0, <1>4, <2>2, FoundSupplied DEF Answered
  <2> QED
    BY <2>1, <2>2
<1>5. CASE Unanswered(c)
  BY <1>0, <1>5, ForgetSupplied DEF Unanswered
<1>6. CASE remove_negative_cache_entry(c)
  <2>1. CachesServe'
    BY <1>6 DEF remove_negative_cache_entry, RaceInv, CachesServe
  <2>2. CASE pc[c] = "found"
    BY <1>6, <2>1, <2>2, GotoSupplied DEF remove_negative_cache_entry
  <2>3. CASE pc[c] = "unfound"
    BY <1>6, <2>1, <2>3, GotoSupplied DEF remove_negative_cache_entry
  <2> QED
    BY <1>6, <2>2, <2>3, ZenonT(30) DEF remove_negative_cache_entry
<1>7. CASE record_positive_cache(c)
  <2>1. CachesServe'
    BY <1>7, <1>a, ZenonT(30) DEF record_positive_cache, RaceInv, CachesServe, Cached
  <2>2. CASE pc[c] = "record" /\ googlevideo
    BY <1>7, <2>1, <2>2, GotoSupplied, ZenonT(30) DEF record_positive_cache
  <2>3. CASE ~ (pc[c] = "record" /\ googlevideo)
    BY <1>7, <2>1, <2>3, GotoSupplied, ZenonT(30) DEF record_positive_cache
  <2> QED
    BY <2>2, <2>3, ZenonT(30)
<1>8. CASE record_googlevideo_fallback(c)
  <2>1. CachesServe'
    BY <1>8, <1>a DEF record_googlevideo_fallback, RaceInv, CachesServe, Cached
  <2> QED
    BY <1>8, <2>1, GotoSupplied, ZenonT(30) DEF record_googlevideo_fallback
<1>9. CASE remove_positive_cache_entry(c)
  <2>1. CachesServe'
    BY <1>9, NothingServes DEF remove_positive_cache_entry, RaceInv, CachesServe
  <2>2. CASE googlevideo
    BY <1>9, <2>1, <2>2, GotoSupplied, ZenonT(30) DEF remove_positive_cache_entry
  <2>3. CASE ~ googlevideo
    BY <1>9, <2>1, <2>3, GotoSupplied, ZenonT(30) DEF remove_positive_cache_entry
  <2> QED
    BY <2>2, <2>3
<1>10. CASE googlevideo_fallback_addrs(c)
  <2>1. CASE fallback.left > 0 /\ Found(c, fallback.addrs, "record_fallback")
    BY <1>0, <1>10, <2>1, FoundSupplied, ZenonT(30) DEF googlevideo_fallback_addrs, RaceInv, CachesServe
  <2>2. CASE Forget(c, "idle")
    BY <1>0, <1>10, <2>2, ForgetSupplied, ZenonT(30) DEF googlevideo_fallback_addrs
  <2> QED
    BY <1>10, <2>1, <2>2, ZenonT(30) DEF googlevideo_fallback_addrs
<1>11. CASE record_negative_cache(c)
  <2>1. CachesServe'
    BY <1>11 DEF record_negative_cache, RaceInv, CachesServe
  <2> QED
    BY <1>11, <2>1, ForgetSupplied, ZenonT(30) DEF record_negative_cache
<1> QED
  BY <1>1, <1>2, <1>3, <1>4, <1>5, <1>6, <1>7, <1>8, <1>9, <1>10, <1>11, ZenonT(30) DEF Resolve

\* What spawn_tcp_race_attempts leaves: the attempts are the old ones and the
\* new ones, within the limit, and addresses wait only behind a full race.
LEMMA StartedFills ==
  ASSUME NEW u, NEW a, NEW s \in Started(u, a)
  PROVE  /\ s \subseteq u
         /\ Cardinality(a \cup s) <= MaxRace
         /\ u \ s # {} => Cardinality(a \cup s) = MaxRace
         /\ u # {} => a \cup s # {}
<1>1. s \subseteq u /\ Cardinality(a \cup s) <= MaxRace /\ (s = u \/ Cardinality(a \cup s) = MaxRace)
  BY DEF Started
<1>2. Cardinality(a \cup s) = MaxRace => a \cup s # {}
  BY FS_EmptySet, LimitAssumption
<1> QED
  BY <1>1, <1>2

LEMMA AttemptFailsSupplied ==
  ASSUME IInv, RaceInv, NEW c \in Connects, NEW a \in Addrs, AttemptFails(c, a)
  PROVE  RaceInv'
<1>1. PICK s \in Started(addrs[c], active[c] \ {a}) :
        /\ addrs' = [addrs EXCEPT ![c] = @ \ s]
        /\ active' = [active EXCEPT ![c] = (@ \ {a}) \cup s]
        /\ Goto(c, IF active'[c] = {} /\ addrs'[c] = {} THEN "failed" ELSE "race")
  BY ZenonT(30) DEF AttemptFails
<1>2. addrs'[c] = addrs[c] \ s /\ active'[c] = (active[c] \ {a}) \cup s
  BY <1>1 DEF IInv, ConnectsOK
<1>3. pc'[c] = IF active'[c] = {} /\ addrs'[c] = {} THEN "failed" ELSE "race"
  BY <1>1, ZenonT(30) DEF Goto, IInv, ConnectsOK
<1>4. Alone(c)
  BY <1>1, ZenonT(30) DEF Goto, Alone, IInv, ConnectsOK
<1>5. Cardinality(active'[c]) <= MaxRace /\ (addrs'[c] # {} => Cardinality(active'[c]) = MaxRace)
  BY <1>2, StartedFills
<1>6. addrs'[c] # {} => active'[c] # {}
  BY <1>5, FS_EmptySet, LimitAssumption, ZenonT(30)
<1>7. Supplied(c)'
  BY <1>3, <1>5, <1>6, ZenonT(30) DEF Supplied, Resolved
<1>8. CachesServe'
  BY DEF AttemptFails, caches, RaceInv, CachesServe
<1> QED
  BY <1>4, <1>7, <1>8, AloneStep, ZenonT(30)

LEMMA RaceSupplied ==
  ASSUME IInv, RaceInv, NEW c \in Connects, Race(c)
  PROVE  RaceInv'
<1> USE DEF Labels, Resolved
<1>0. UNCHANGED caches => CachesServe'
  BY DEF RaceInv, CachesServe, caches
<1>1. CASE tcp_connect_inflight_guard(c)
  <2>1. CASE inflight >= Limit /\ Forget(c, "idle") /\ UNCHANGED inflight
    BY <1>0, <1>1, <2>1, ForgetSupplied, ZenonT(30) DEF tcp_connect_inflight_guard
  <2>2. CASE ~ (inflight >= Limit /\ Forget(c, "idle") /\ UNCHANGED inflight)
    <3>1. PICK s \in Started(addrs[c], {}) :
            /\ addrs' = [addrs EXCEPT ![c] = @ \ s]
            /\ active' = [active EXCEPT ![c] = s]
      BY <1>1, <2>2, ZenonT(30) DEF tcp_connect_inflight_guard
    <3>2. Alone(c) /\ pc'[c] = "race" /\ addrs'[c] = addrs[c] \ s /\ active'[c] = s
      BY <1>1, <2>2, <3>1, ZenonT(30) DEF tcp_connect_inflight_guard, Goto, Alone, IInv, ConnectsOK
    <3>3. addrs[c] # {}
      BY <1>1 DEF tcp_connect_inflight_guard, RaceInv, Supplied
    <3>4. {} \cup s = s
      BY ZenonT(30)
    <3>5. s # {} /\ Cardinality(s) <= MaxRace /\ (addrs[c] \ s # {} => Cardinality(s) = MaxRace)
      BY <3>3, <3>4, StartedFills
    <3>6. Supplied(c)'
      BY <3>2, <3>5, ZenonT(30) DEF Supplied
    <3> QED
      BY <1>0, <1>1, <3>2, <3>6, AloneStep, ZenonT(30) DEF tcp_connect_inflight_guard
  <2> QED
    BY <2>1, <2>2
<1>2. ASSUME NEW a \in Addrs, AttemptSucceeds(c, a) PROVE RaceInv'
  BY <1>0, <1>2, ForgetSupplied DEF AttemptSucceeds
<1>3. ASSUME NEW a \in Addrs, AttemptFails(c, a) PROVE RaceInv'
  BY <1>3, AttemptFailsSupplied
<1>4. CASE record_tcp_connect_success(c)
  BY <1>0, <1>4, GotoSupplied DEF record_tcp_connect_success
<1>5. CASE record_tcp_connect_failure(c)
  BY <1>0, <1>5, GotoSupplied DEF record_tcp_connect_failure
<1>6. CASE TransientFailure(c)
  BY <1>0, <1>6, GotoSupplied DEF TransientFailure
<1>7. CASE release(c)
  BY <1>0, <1>7, ForgetSupplied, ZenonT(30) DEF release
<1> QED
  BY <1>1, <1>2, <1>3, <1>4, <1>5, <1>6, <1>7 DEF Race

\* A step that no connect takes.
LEMMA OutsideSupplied ==
  ASSUME RaceInv, UNCHANGED <<pc, connect>>, CachesServe'
  PROVE  RaceInv'
BY ZenonT(30) DEF RaceInv, Supplied, connect

LEMMA ConfigureSupplied ==
  ASSUME RaceInv, (\E b \in Reloads : Configure(b)) \/ Configuring \/ Evict
  PROVE  RaceInv'
<1> USE NothingServes DEF RaceInv, CachesServe
<1>1. ASSUME NEW b \in Reloads, Configure(b) PROVE RaceInv'
  BY <1>1, OutsideSupplied, ZenonT(30) DEF Configure, caches
<1>2. CASE clear_positive_cache
  BY <1>2, OutsideSupplied DEF clear_positive_cache
<1>3. CASE clear_negative_cache
  BY <1>3, OutsideSupplied, ZenonT(30) DEF clear_negative_cache
<1>4. CASE clear_googlevideo_fallback_cache
  BY <1>4, OutsideSupplied DEF clear_googlevideo_fallback_cache
<1>5. CASE clear_tcp_connect_failure_backoff
  BY <1>5, OutsideSupplied, ZenonT(30) DEF clear_tcp_connect_failure_backoff, caches
<1>6. CASE Evict
  BY <1>6, OutsideSupplied DEF Evict
<1> QED
  BY <1>1, <1>2, <1>3, <1>4, <1>5, <1>6, ZenonT(30) DEF Configuring

LEMMA OlderServes ==
  ASSUME NEW e \in CacheEntry, e.left > 0 => e.addrs # {}
  PROVE  Older(e).left > 0 => Older(e).addrs # {}
BY NothingServes DEF Older, Cached, CacheEntry

LEMMA NextRace == IInv /\ RaceInv /\ [Next]_vars => RaceInv'
<1> SUFFICES ASSUME IInv, RaceInv, [Next]_vars PROVE RaceInv'
  OBVIOUS
<1>0. UNCHANGED caches => CachesServe'
  BY ZenonT(30) DEF RaceInv, CachesServe, caches
<1>1. ASSUME NEW c \in Connects, tcp_connect_backoff_error(c) PROVE RaceInv'
  BY <1>0, <1>1, GotoSupplied DEF tcp_connect_backoff_error, Labels, Resolved
<1>2. ASSUME NEW c \in Connects, Deadline(c) PROVE RaceInv'
  BY <1>0, <1>2, ForgetSupplied DEF Deadline, Labels, Resolved
<1>3. ASSUME NEW c \in Connects, Abort(c) PROVE RaceInv'
  BY <1>0, <1>3, ForgetSupplied DEF Abort, Labels, Resolved
<1>4. CASE Tick
  <2>1. positive \in CacheEntry /\ fallback \in CacheEntry
    BY DEF IInv, CachesOK
  <2>2. CachesServe'
    BY <1>4, <2>1, OlderServes DEF Tick, RaceInv, CachesServe
  <2> QED
    BY <1>4, <2>2, OutsideSupplied DEF Tick
<1>5. CASE UNCHANGED vars
  BY <1>0, <1>5, OutsideSupplied DEF vars
<1> QED
  BY <1>1, <1>2, <1>3, <1>4, <1>5, ResolveSupplied, RaceSupplied, ConfigureSupplied, ZenonT(30) DEF Next

\* A race that goes on has an attempt to wait for, never more than MaxRace, and
\* addresses wait only while all places are taken: the refill after a failed
\* attempt leaves no race stuck, whatever is answered, cached or evicted.
THEOREM RaceRuns == Spec => []RaceIsRunning
<1>1. Spec => []RaceInv
  BY InitRace, NextRace, Inductive, PTL DEF Spec
<1>2. RaceInv => RaceIsRunning
  BY DEF RaceInv, Supplied, RaceIsRunning
<1> QED
  BY <1>1, <1>2, PTL

=============================================================================
