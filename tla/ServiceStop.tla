----------------------------- MODULE ServiceStop -----------------------------
(***************************************************************************)
(* The listeners of a service: their accept loops, the workers of the      *)
(* connections, counted per listener by a ConnectionWorkerGroup, and the   *)
(* stop of the whole service or of one listener (service.rs).              *)
(***************************************************************************)
EXTENDS Naturals, FiniteSets

CONSTANTS
  N,            \* listeners
  Blocking,     \* those whose connections have a thread each
  Streams,      \* the connections clients make
  Absent

Listeners == 1..N

ASSUME ListenersAssumption ==
  /\ N \in Nat
  /\ Blocking \subseteq Listeners
  /\ IsFiniteSet(Streams)
  /\ Absent \notin Streams

VARIABLES
  stop,         \* the flag a listener's accept loop polls
  accept,       \* the accept loop: "poll", "accepted", "spawn", "ended"
  accepted,     \* the connection it holds
  listener,     \* of a connection that was accepted
  worker,       \* of a connection: "none", "handshake", "relay", "release"
  registration, \* of its socket: Absent, "open" or "shut"
  active,       \* the count of a worker group
  phase, at,    \* the thread that stops: what it does, and to which listener
  removed,      \* listeners that left the service before its stop
  idle          \* listeners whose workers were seen idle by a stop

stop_vars == <<stop, accept, accepted, listener, worker, registration, active, phase, at, removed, idle>>

stopper == <<phase, at, removed, idle>>
loops == <<accept, accepted>>
workers == <<listener, worker, registration, active>>

-----------------------------------------------------------------------------
\* The service has started; stop is called on it once.
StopInit ==
  /\ stop = [l \in Listeners |-> FALSE]
  /\ accept = [l \in Listeners |-> "poll"]
  /\ accepted = [l \in Listeners |-> Absent]
  /\ listener = [c \in Streams |-> 0]
  /\ worker = [c \in Streams |-> "none"]
  /\ registration = [c \in Streams |-> Absent]
  /\ active = [l \in Listeners |-> 0]
  /\ phase = "serving"
  /\ at = 0
  /\ removed = {}
  /\ idle = {}

Loop(l, label) == accept' = [accept EXCEPT ![l] = label]

\* accept() within the 100 ms: a client, or the connection stop makes to
\* wake the loop.
Accept(l, c) ==
  /\ accept[l] = "poll"
  /\ listener[c] = 0
  /\ Loop(l, "accepted")
  /\ accepted' = [accepted EXCEPT ![l] = c]
  /\ listener' = [listener EXCEPT ![c] = l]
  /\ UNCHANGED <<stop, worker, registration, active, stopper>>

\* The flag is looked at again; a connection that came too late is dropped.
Recheck(l) ==
  /\ accept[l] = "accepted"
  /\ Loop(l, IF stop[l] THEN "ended" ELSE "spawn")
  /\ accepted' = IF stop[l] THEN [accepted EXCEPT ![l] = Absent] ELSE accepted
  /\ UNCHANGED <<stop, workers, stopper>>

acquire(l) == active' = [active EXCEPT ![l] = @ + 1]
group_release(l) == active' = [active EXCEPT ![l] = IF @ > 0 THEN @ - 1 ELSE 0]

\* The worker is counted before its thread or task exists.
spawn(l) ==
  /\ accept[l] = "spawn"
  /\ acquire(l)
  /\ worker' = [worker EXCEPT ![accepted[l]] = "handshake"]
  /\ accepted' = [accepted EXCEPT ![l] = Absent]
  /\ Loop(l, "poll")
  /\ UNCHANGED <<stop, listener, registration, stopper>>

\* Mutant: the count is kept when the thread could not be made.
spawn_fails_counted(l) ==
  /\ accept[l] = "spawn"
  /\ l \in Blocking
  /\ acquire(l)
  /\ accepted' = [accepted EXCEPT ![l] = Absent]
  /\ Loop(l, "poll")
  /\ UNCHANGED <<stop, listener, worker, registration, stopper>>

\* There is no thread for it: the count is given back and the connection
\* dropped.
spawn_fails(l) ==
  /\ accept[l] = "spawn"
  /\ l \in Blocking
  /\ accepted' = [accepted EXCEPT ![l] = Absent]
  /\ Loop(l, "poll")
  /\ UNCHANGED <<stop, workers, stopper>>

\* The loop ends: it sees the flag, or accept() fails.
LoopEnds(l) ==
  /\ accept[l] = "poll"
  /\ stop[l]
  /\ Loop(l, "ended")
  /\ UNCHANGED <<stop, accepted, workers, stopper>>

AcceptFails(l) ==
  /\ accept[l] = "poll"
  /\ Loop(l, "ended")
  /\ UNCHANGED <<stop, accepted, workers, stopper>>

-----------------------------------------------------------------------------
Work(c, label) == worker' = [worker EXCEPT ![c] = label]

\* The request is read, the target connected, the connection registered.
Register(c) ==
  /\ worker[c] = "handshake"
  /\ Work(c, "relay")
  /\ registration' = [registration EXCEPT ![c] = "open"]
  /\ UNCHANGED <<stop, loops, listener, active, stopper>>

\* The handler returns, fails or panics.
WorkEnds(c) ==
  /\ worker[c] \in {"handshake", "relay"}
  /\ Work(c, "release")
  /\ registration' = [registration EXCEPT ![c] = Absent]
  /\ UNCHANGED <<stop, loops, listener, active, stopper>>

Release(c) ==
  /\ worker[c] = "release"
  /\ Work(c, "none")
  /\ group_release(listener[c])
  /\ UNCHANGED <<stop, loops, listener, registration, stopper>>

-----------------------------------------------------------------------------
At(label, l) == phase' = label /\ at' = l

\* CoreService::stop.
stop_service ==
  /\ phase = "serving"
  /\ At("flag", 1)
  /\ UNCHANGED <<stop, loops, workers, removed, idle>>

Flag ==
  /\ phase = "flag"
  /\ at \in Listeners \ removed
  /\ stop' = [stop EXCEPT ![at] = TRUE]
  /\ At("flag", at + 1)
  /\ UNCHANGED <<loops, workers, removed, idle>>

\* Mutant: the accept loops are not waited for.
close_all_joined ==
  /\ phase = "flag"
  /\ at = N + 1
  /\ registration' = [c \in Streams |-> IF registration[c] = Absent THEN Absent ELSE "shut"]
  /\ At("wait", 1)
  /\ UNCHANGED <<stop, loops, listener, worker, active, removed, idle>>

close_all_connections ==
  /\ phase = "flag"
  /\ at = N + 1
  /\ registration' = [c \in Streams |-> IF registration[c] = Absent THEN Absent ELSE "shut"]
  /\ At("join", 1)
  /\ UNCHANGED <<stop, loops, listener, worker, active, removed, idle>>

\* The loops over the listeners of the service.
Skip ==
  /\ phase \in {"flag", "join"}
  /\ at \in removed
  /\ At(phase, at + 1)
  /\ UNCHANGED <<stop, loops, workers, removed, idle>>

\* A listener leaves the service: the same without the close, and the
\* service goes on with the others.
stop_listener_handle(l) ==
  /\ phase = "serving"
  /\ l \notin removed
  /\ removed' = removed \union {l}
  /\ stop' = [stop EXCEPT ![l] = TRUE]
  /\ At("join_one", l)
  /\ UNCHANGED <<loops, workers, idle>>

\* The thread of the accept loop is joined.
Join ==
  /\ \/ phase = "join" /\ at \in Listeners \ removed
     \/ phase = "join_one"
  /\ accept[at] = "ended"
  /\ At(IF phase = "join" THEN "wait" ELSE "wait_one", at)
  /\ UNCHANGED <<stop, loops, workers, removed, idle>>

Waited == IF phase = "wait" THEN At("join", at + 1) ELSE At("serving", 0)

\* join_timeout: all workers have ended, ...
SeenIdle ==
  /\ phase \in {"wait", "wait_one"}
  /\ active[at] = 0
  /\ idle' = idle \union {at}
  /\ Waited
  /\ UNCHANGED <<stop, loops, workers, removed>>

\* Mutant: without the timeout.
never_times_out ==
  /\ phase \in {"wait", "wait_one"}
  /\ active[at] > 0
  /\ UNCHANGED stop_vars

\* ... or three seconds have passed, and a warning is logged.
TimedOut ==
  /\ phase \in {"wait", "wait_one"}
  /\ active[at] > 0
  /\ Waited
  /\ UNCHANGED <<stop, loops, workers, removed, idle>>

Stopped ==
  /\ phase = "join"
  /\ at = N + 1
  /\ At("stopped", 0)
  /\ UNCHANGED <<stop, loops, workers, removed, idle>>

AcceptLoop(l) ==
  \/ \E c \in Streams : Accept(l, c)
  \/ Recheck(l)
  \/ spawn(l)
  \/ spawn_fails(l)
  \/ LoopEnds(l)

Stopper ==
  \/ Skip
  \/ Flag
  \/ close_all_connections
  \/ Join
  \/ SeenIdle
  \/ TimedOut
  \/ Stopped

StopNext ==
  \/ \E l \in Listeners : AcceptLoop(l) \/ AcceptFails(l) \/ stop_listener_handle(l)
  \/ \E c \in Streams : Register(c) \/ WorkEnds(c) \/ Release(c)
  \/ stop_service
  \/ Stopper

StopSpec == StopInit /\ [][StopNext]_stop_vars

\* Threads run. A loop polls its flag every 100 ms, and join_timeout ends.
\* Nothing is assumed of the handlers: a relay may go on for ever.
StopFairSpec ==
  /\ StopSpec
  /\ \A l \in Listeners : WF_stop_vars(AcceptLoop(l))
  /\ WF_stop_vars(Stopper)

-----------------------------------------------------------------------------
\* The variables hold values of their types: no worker count is negative, and a
\* loop holds a connection exactly while it hands it over (service.rs 2954-3073).
StopTypeOK ==
  /\ stop \in [Listeners -> BOOLEAN]
  /\ accept \in [Listeners -> {"poll", "accepted", "spawn", "ended"}]
  /\ accepted \in [Listeners -> Streams \union {Absent}]
  /\ listener \in [Streams -> 0..N]
  /\ worker \in [Streams -> {"none", "handshake", "relay", "release"}]
  /\ registration \in [Streams -> {Absent, "open", "shut"}]
  /\ active \in [Listeners -> Nat]
  /\ phase \in {"serving", "flag", "join", "wait", "join_one", "wait_one", "stopped"}
  /\ at \in 0..N + 1
  /\ removed \subseteq Listeners
  /\ idle \subseteq Listeners
  /\ \A l \in Listeners : accept[l] \in {"accepted", "spawn"} <=> accepted[l] # Absent

\* The connections whose workers a group has counted.
Busy(l) == {c \in Streams : listener[c] = l /\ worker[c] # "none"}

\* The count of a group is the number of its workers, whichever of them
\* fail to start, panic or end, so that a wait ends neither early nor never
\* (service.rs:2954-2997, 3043-3073).
CountsItsWorkers == \A l \in Listeners : active[l] = Cardinality(Busy(l))

\* A listener whose workers were seen idle by a stop has none ever after:
\* its accept loop was joined before the wait began, so nothing spawns
\* behind it (service.rs:565-571, 723-729).
IdleForGood == \A l \in idle : Busy(l) = {} /\ accept[l] = "ended"

\* A stop returns although relays may go on for ever (service.rs:554-583,
\* 3084-3103).
StopReturns == phase # "serving" ~> phase \in {"serving", "stopped"}
=============================================================================
