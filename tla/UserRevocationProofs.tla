------------------------ MODULE UserRevocationProofs ------------------------
(***************************************************************************)
(* First the stop of the service, for any number of listeners and          *)
(* connections. Then what a change of users does to connections, for any   *)
(* number of inbounds and connections. Both invariants hold between        *)
(* commands; to be inductive they must say what holds while one runs: a    *)
(* command that dooms connections has the close before it, or done it; a   *)
(* command that puts the user into a table has re-opened the limiter       *)
(* before its last step; a command that revokes takes the user out of a    *)
(* table in its last step. Then the speed limit of the limiters that a     *)
(* command re-opens; and at the end the device limit of a user, for any    *)
(* number of handlers, addresses and nodes, any limit and any number of    *)
(* revocations.                                                            *)
(***************************************************************************)
EXTENDS UserRevocation, BandwidthLimiter, ServiceStop, DeviceLimits, FiniteSetTheorems, TLAPS

-----------------------------------------------------------------------------
(* The listeners of the service and their stop: the worker groups count    *)
(* their workers and a listener that was seen idle stays idle, for any     *)
(* number of listeners and connections. The invariants need what the       *)
(* threads hold between their steps: the connection in the hands of an     *)
(* accept loop has no worker yet, and the thread that stops waits for      *)
(* workers only where it has joined the accept loop.                       *)

\* A connection in the hands of an accept loop is the loop's and uncounted,
\* and every worker is some listener's.
Handed ==
  /\ \A l \in Listeners : accepted[l] # Absent =>
       listener[accepted[l]] = l /\ worker[accepted[l]] = "none"
  /\ \A c \in Streams : worker[c] # "none" => listener[c] \in Listeners

\* The thread that stops is past the join of the listener it waits for.
Joined ==
  /\ phase \in {"join_one", "wait", "wait_one"} => at \in Listeners
  /\ phase \in {"wait", "wait_one"} => accept[at] = "ended"

StopInv == StopTypeOK /\ Handed /\ Joined /\ CountsItsWorkers /\ IdleForGood

LEMMA BusyFinite ==
  ASSUME NEW l
  PROVE  IsFiniteSet(Busy(l)) /\ Cardinality(Busy(l)) \in Nat
<1>1. Busy(l) \subseteq Streams
  BY DEF Busy
<1>2. IsFiniteSet(Busy(l))
  BY <1>1, FS_Subset, ListenersAssumption
<1> QED
  BY <1>2, FS_CardinalityType

LEMMA InitStopInv == StopInit => StopInv
<1> SUFFICES ASSUME StopInit PROVE StopInv
  OBVIOUS
<1>1. StopTypeOK
  BY ListenersAssumption DEF StopInit, StopTypeOK, Listeners
<1>2. Handed /\ Joined /\ IdleForGood
  BY DEF StopInit, Handed, Joined, IdleForGood
<1>3. ASSUME NEW l \in Listeners PROVE active[l] = Cardinality(Busy(l))
  <2>1. Busy(l) = {}
    BY DEF Busy, StopInit
  <2>2. active[l] = 0
    BY DEF StopInit
  <2> QED BY <2>1, <2>2, FS_EmptySet
<1> QED
  BY <1>1, <1>2, <1>3 DEF StopInv, CountsItsWorkers

\* A step that starts and ends no worker, and leaves accept loops ended.
LEMMA NoWorkerStep ==
  ASSUME StopInv, StopTypeOK', Handed', Joined', UNCHANGED <<active, idle>>,
         \A l \in Listeners : Busy(l)' = Busy(l),
         \A l \in Listeners : accept[l] = "ended" => accept'[l] = "ended"
  PROVE  StopInv'
<1>1. CountsItsWorkers'
  BY DEF StopInv, CountsItsWorkers
<1>2. idle \subseteq Listeners
  BY DEF StopInv, StopTypeOK
<1>3. IdleForGood'
  BY <1>2 DEF StopInv, IdleForGood
<1> QED
  BY <1>1, <1>3 DEF StopInv

LEMMA AcceptStep ==
  ASSUME StopInv, NEW l \in Listeners, NEW c \in Streams, Accept(l, c)
  PROVE  StopInv'
<1> USE DEF StopInv
<1>0. c # Absent /\ 0 \notin Listeners
  BY ListenersAssumption DEF Listeners
<1>1. worker[c] = "none"
  BY <1>0 DEF Accept, Handed, StopTypeOK
<1>2. StopTypeOK'
  BY <1>0 DEF Accept, StopTypeOK, stopper, Loop, Listeners
<1>3. \A m \in Listeners : accepted[m] # c
  BY <1>0 DEF Accept, Handed
<1>4. Handed'
  BY <1>0, <1>1, <1>3 DEF Accept, Handed, StopTypeOK
<1>5. \A m \in Listeners : accept[m] = "ended" => accept'[m] = "ended"
  BY DEF Accept, Loop, StopTypeOK
<1>6. Joined'
  BY <1>5 DEF Accept, Joined, stopper
<1>7. ASSUME NEW m \in Listeners PROVE Busy(m)' = Busy(m)
  BY <1>1 DEF Accept, Busy, StopTypeOK
<1>8. UNCHANGED <<active, idle>>
  BY DEF Accept, stopper
<1> QED
  BY <1>2, <1>4, <1>5, <1>6, <1>7, <1>8, NoWorkerStep

LEMMA RecheckStep ==
  ASSUME StopInv, NEW l \in Listeners, Recheck(l)
  PROVE  StopInv'
<1> USE DEF StopInv
<1>1. StopTypeOK'
  BY ListenersAssumption DEF Recheck, StopTypeOK, workers, stopper, Loop
<1>2. Handed'
  BY DEF Recheck, Handed, workers, StopTypeOK
<1>3. \A m \in Listeners : accept[m] = "ended" => accept'[m] = "ended"
  BY Zenon DEF Recheck, Loop, StopTypeOK
<1>4. Joined'
  BY <1>3 DEF Recheck, Joined, stopper
<1>5. ASSUME NEW m \in Listeners PROVE Busy(m)' = Busy(m)
  BY DEF Recheck, Busy, workers
<1>6. UNCHANGED <<active, idle>>
  BY DEF Recheck, workers, stopper
<1> QED
  BY <1>1, <1>2, <1>3, <1>4, <1>5, <1>6, NoWorkerStep, Zenon

LEMMA SpawnStep ==
  ASSUME StopInv, NEW l \in Listeners, spawn(l)
  PROVE  StopInv'
<1> USE DEF StopInv
<1>1. PICK c \in Streams : c = accepted[l]
  BY DEF spawn, StopTypeOK
<1>2. listener[c] = l /\ worker[c] = "none" /\ c # Absent
  BY <1>1, ListenersAssumption DEF Handed
<1>3. StopTypeOK'
  BY <1>1 DEF spawn, StopTypeOK, acquire, stopper, Loop
<1>4. Handed'
  BY <1>1, <1>2 DEF spawn, Handed, StopTypeOK
<1>5. \A m \in Listeners : accept[m] = "ended" => accept'[m] = "ended"
  BY SMTT(30) DEF spawn, Loop, StopTypeOK
<1>6. Joined'
  BY <1>5 DEF spawn, Joined, stopper
<1>7. ASSUME NEW m \in Listeners PROVE active'[m] = Cardinality(Busy(m)')
  <2>1. CASE m = l
    <3>1. Busy(l)' = Busy(l) \union {c} /\ c \notin Busy(l)
      BY <1>1, <1>2 DEF spawn, Busy, StopTypeOK
    <3>2. Cardinality(Busy(l)') = Cardinality(Busy(l)) + 1
      BY <3>1, BusyFinite, FS_AddElement, ZenonT(30)
    <3>3. active'[l] = active[l] + 1
      BY DEF spawn, acquire, StopTypeOK
    <3> QED BY <2>1, <3>2, <3>3, Zenon DEF CountsItsWorkers
  <2>2. CASE m # l
    <3>1. Busy(m)' = Busy(m)
      BY <1>1, <1>2, <2>2, Zenon DEF spawn, Busy, StopTypeOK
    <3>2. active'[m] = active[m]
      BY <2>2 DEF spawn, acquire, StopTypeOK
    <3> QED BY <3>1, <3>2, Zenon DEF CountsItsWorkers
  <2> QED BY <2>1, <2>2
<1>8. IdleForGood'
  <2>1. l \notin idle /\ idle' = idle /\ idle \subseteq Listeners
    BY DEF spawn, IdleForGood, stopper, StopTypeOK
  <2>2. ASSUME NEW m \in idle PROVE Busy(m)' = {} /\ accept'[m] = "ended"
    <3>1. m \in Listeners /\ m # l /\ Busy(m) = {} /\ accept[m] = "ended"
      BY <2>1, Zenon DEF IdleForGood
    <3>2. Busy(m)' = Busy(m)
      BY <1>1, <1>2, <3>1, Zenon DEF spawn, Busy, StopTypeOK
    <3> QED BY <1>5, <3>1, <3>2
  <2> QED BY <2>1, <2>2 DEF IdleForGood
<1> QED
  BY <1>3, <1>4, <1>6, <1>7, <1>8, Zenon DEF CountsItsWorkers

\* The loop gives up the connection it holds, or ends while it polls.
LEMMA LoopStep ==
  ASSUME StopInv, NEW l \in Listeners, spawn_fails(l) \/ LoopEnds(l) \/ AcceptFails(l)
  PROVE  StopInv'
<1> USE DEF StopInv, spawn_fails, LoopEnds, AcceptFails, workers, stopper
<1>1. StopTypeOK'
  BY DEF StopTypeOK, Loop
<1>2. Handed'
  BY DEF Handed, StopTypeOK
<1>3. \A m \in Listeners : accept[m] = "ended" => accept'[m] = "ended"
  BY SMTT(30) DEF Loop, StopTypeOK
<1>4. Joined'
  BY <1>3, ZenonT(30) DEF Joined
<1>5. ASSUME NEW m \in Listeners PROVE Busy(m)' = Busy(m)
  BY DEF Busy
<1>6. UNCHANGED <<active, idle>>
  BY SMTT(30)
<1> HIDE DEF StopInv, spawn_fails, LoopEnds, AcceptFails, workers, stopper
<1> QED
  BY <1>1, <1>2, <1>3, <1>4, <1>5, <1>6, NoWorkerStep, ZenonT(30)

\* A worker goes on from one stage to another.
LEMMA WorkerStep ==
  ASSUME StopInv, NEW c \in Streams, Register(c) \/ WorkEnds(c)
  PROVE  StopInv'
<1> USE DEF StopInv, Register, WorkEnds, loops, stopper, Work
<1>1. StopTypeOK'
  BY DEF StopTypeOK
<1>2. worker[c] # "none" /\ worker'[c] # "none"
  BY Zenon DEF StopTypeOK
<1>3. Handed'
  BY <1>2 DEF Handed, StopTypeOK
<1>4. \A m \in Listeners : accept[m] = "ended" => accept'[m] = "ended"
  OBVIOUS
<1>5. Joined'
  BY DEF Joined
<1>6. ASSUME NEW m \in Listeners PROVE Busy(m)' = Busy(m)
  BY <1>2 DEF Busy, StopTypeOK
<1>7. UNCHANGED <<active, idle>>
  BY Zenon
<1> HIDE DEF StopInv, Register, WorkEnds, loops, stopper, Work
<1> QED
  BY <1>1, <1>3, <1>4, <1>5, <1>6, <1>7, NoWorkerStep, Zenon

LEMMA ReleaseStep ==
  ASSUME StopInv, NEW c \in Streams, Release(c)
  PROVE  StopInv'
<1> USE DEF StopInv
<1>1. PICK l \in Listeners : l = listener[c]
  BY Zenon DEF Release, Handed
<1>2. StopTypeOK'
  BY <1>1 DEF Release, StopTypeOK, group_release, Work, loops, stopper
<1>3. Handed'
  BY SMTT(30) DEF Release, Handed, Work, loops, StopTypeOK
<1>4. Joined'
  BY DEF Release, Joined, loops, stopper
<1>5. c \in Busy(l) /\ Busy(l)' = Busy(l) \ {c}
  BY <1>1 DEF Release, Work, Busy, StopTypeOK
<1>6. \A m \in Listeners \ {l} : Busy(m)' = Busy(m)
  BY <1>1 DEF Release, Work, Busy, StopTypeOK
<1>7. ASSUME NEW m \in Listeners PROVE active'[m] = Cardinality(Busy(m)')
  <2>1. CASE m = l
    <3>1. Cardinality(Busy(l)') = Cardinality(Busy(l)) - 1
      BY <1>5, BusyFinite, FS_RemoveElement, ZenonT(30)
    <3>2. Cardinality(Busy(l)) # 0
      BY <1>5, BusyFinite, FS_EmptySet
    <3>3. active'[l] = active[l] - 1
      BY <1>1, <3>2, BusyFinite DEF Release, group_release, StopTypeOK, CountsItsWorkers
    <3> QED BY <2>1, <3>1, <3>3 DEF CountsItsWorkers
  <2>2. CASE m # l
    BY <1>1, <1>6, <2>2, ZenonT(30) DEF Release, group_release, StopTypeOK, CountsItsWorkers
  <2> QED BY <2>1, <2>2
<1>8. IdleForGood'
  BY <1>5, <1>6 DEF Release, IdleForGood, loops, stopper, StopTypeOK
<1> QED
  BY <1>2, <1>3, <1>4, <1>7, <1>8, Zenon DEF CountsItsWorkers

\* A step of the thread that stops, short of seeing a listener idle.
LEMMA PositionStep ==
  ASSUME StopInv,
         \/ stop_service \/ Flag \/ close_all_connections \/ Skip \/ Join \/ TimedOut \/ Stopped
         \/ \E l \in Listeners : stop_listener_handle(l)
  PROVE  at' \in 0..N + 1
<1>1. N \in Nat /\ at \in 0..N + 1 /\ removed \subseteq 1..N
  BY ListenersAssumption DEF StopInv, StopTypeOK, Listeners
<1>2. CASE stop_service \/ close_all_connections
  <2>1. at' = 1
    BY <1>2 DEF stop_service, close_all_connections, At
  <2> QED BY ONLY <1>1, <2>1
<1>3. CASE Join \/ Stopped
  <2>1. at' = at \/ at' = 0
    BY <1>3 DEF Join, Stopped, At
  <2> QED BY ONLY <1>1, <2>1
<1>4. CASE Flag
  <2>1. at \in 1..N /\ at' = at + 1
    BY <1>4 DEF Flag, At, Listeners
  <2> QED BY ONLY <1>1, <2>1
<1>5. CASE Skip
  <2>1. at \in removed /\ at' = at + 1
    BY <1>5 DEF Skip, At
  <2> QED BY ONLY <1>1, <2>1
<1>6. CASE TimedOut
  <2>1. phase \in {"wait", "wait_one"} /\ (at' = at + 1 \/ at' = 0)
    BY <1>6 DEF TimedOut, Waited, At
  <2>2. at \in Listeners
    BY <2>1 DEF StopInv, Joined
  <2>3. at \in 1..N
    BY ONLY <2>2 DEF Listeners
  <2> QED BY ONLY <1>1, <2>1, <2>3
<1>7. CASE \E l \in Listeners : stop_listener_handle(l)
  <2>1. at' \in Listeners
    BY <1>7 DEF stop_listener_handle, At
  <2>2. at' \in 1..N
    BY ONLY <2>1, Zenon DEF Listeners
  <2> QED BY ONLY <1>1, <2>2
<1> QED
  BY <1>2, <1>3, <1>4, <1>5, <1>6, <1>7, ZenonT(30)

LEMMA StopperStep ==
  ASSUME StopInv,
         \/ stop_service \/ Flag \/ close_all_connections \/ Skip \/ Join \/ TimedOut \/ Stopped
         \/ \E l \in Listeners : stop_listener_handle(l)
  PROVE  StopInv'
<1> USE DEF StopInv, At, Waited, loops, workers
<1>1. StopTypeOK'
  <2> USE DEF stop_service, Flag, close_all_connections, Skip, Join, TimedOut, Stopped,
     stop_listener_handle
  <2>1. /\ stop' \in [Listeners -> BOOLEAN]
        /\ removed' \subseteq Listeners
    BY ZenonT(30) DEF StopTypeOK
  <2>2. registration' \in [Streams -> {Absent, "open", "shut"}]
    BY SMTT(30) DEF StopTypeOK
  <2>3. phase' \in {"serving", "flag", "join", "wait", "join_one", "wait_one", "stopped"}
    BY Zenon DEF StopTypeOK
  <2>4. at' \in 0..N + 1
    BY PositionStep, Zenon
  <2>5. UNCHANGED <<accept, accepted, listener, worker, active, idle>>
    BY Zenon
  <2> QED
    BY <2>1, <2>2, <2>3, <2>4, <2>5, Zenon DEF StopTypeOK
<1>2. Handed'
  BY Zenon DEF Handed, stop_service, Flag, close_all_connections, Skip, Join, TimedOut, Stopped,
     stop_listener_handle
<1>3. Joined'
  BY Zenon DEF Joined, StopTypeOK, stop_service, Flag, close_all_connections, Skip, Join, TimedOut,
     Stopped, stop_listener_handle
<1>4. UNCHANGED <<accept, listener, worker, active, idle>>
  BY DEF stop_service, Flag, close_all_connections, Skip, Join, TimedOut, Stopped, stop_listener_handle
<1>5. ASSUME NEW m \in Listeners PROVE Busy(m)' = Busy(m)
  BY <1>4 DEF Busy
<1>6. UNCHANGED <<active, idle>> /\ \A m \in Listeners : accept[m] = "ended" => accept'[m] = "ended"
  BY <1>4
<1> HIDE DEF StopInv, At, Waited, loops, workers
<1> QED
  BY <1>1, <1>2, <1>3, <1>5, <1>6, NoWorkerStep, Zenon

LEMMA SeenIdleStep ==
  ASSUME StopInv, SeenIdle
  PROVE  StopInv'
<1> USE DEF StopInv
<1>1. at \in Listeners /\ accept[at] = "ended"
  BY DEF SeenIdle, Joined
<1>2. UNCHANGED <<stop, loops, workers, removed>> /\ idle' = idle \union {at}
  BY Zenon DEF SeenIdle
<1>3. StopTypeOK'
  BY <1>1, <1>2, ListenersAssumption, SMTT(30) DEF SeenIdle, Waited, At, StopTypeOK, loops, workers, Listeners
<1>4. Handed' /\ Joined'
  BY <1>2, Zenon DEF SeenIdle, Waited, At, Handed, Joined, loops, workers
<1>5. \A m : Busy(m)' = Busy(m)
  BY <1>2, Zenon DEF Busy, workers
<1>6. CountsItsWorkers'
  BY <1>2, <1>5, Zenon DEF CountsItsWorkers, workers
<1>7. Busy(at) = {}
  <2>1. Cardinality(Busy(at)) = 0
    BY <1>1, Zenon DEF SeenIdle, CountsItsWorkers
  <2> QED BY <2>1, BusyFinite, FS_EmptySet, Zenon
<1>8. IdleForGood'
  BY <1>1, <1>2, <1>5, <1>7, Zenon DEF IdleForGood, loops
<1> QED
  BY <1>3, <1>4, <1>6, <1>8, Zenon

LEMMA StutterStep ==
  ASSUME StopInv, UNCHANGED stop_vars
  PROVE  StopInv'
<1>1. /\ UNCHANGED <<stop, accept, accepted, listener, worker, registration>>
      /\ UNCHANGED <<active, phase, at, removed, idle>>
  BY Zenon DEF stop_vars
<1>2. StopTypeOK'
  BY <1>1, Zenon DEF StopInv, StopTypeOK
<1>3. Handed' /\ Joined'
  BY <1>1, Zenon DEF StopInv, Handed, Joined
<1>4. \A l \in Listeners : Busy(l)' = Busy(l)
  BY <1>1, Zenon DEF Busy
<1>5. UNCHANGED <<active, idle>> /\ \A l \in Listeners : accept[l] = "ended" => accept'[l] = "ended"
  BY <1>1
<1> QED
  BY <1>2, <1>3, <1>4, <1>5, NoWorkerStep, Zenon

LEMMA NextStopInv == StopInv /\ [StopNext]_stop_vars => StopInv'
<1> SUFFICES ASSUME StopInv, [StopNext]_stop_vars PROVE StopInv'
  OBVIOUS
<1>1. ASSUME NEW l \in Listeners, AcceptLoop(l) \/ AcceptFails(l) PROVE StopInv'
  BY <1>1, AcceptStep, RecheckStep, SpawnStep, LoopStep, Zenon DEF AcceptLoop
<1>2. ASSUME NEW l \in Listeners, stop_listener_handle(l) PROVE StopInv'
  BY <1>2, StopperStep, Zenon
<1>3. ASSUME NEW c \in Streams, Register(c) \/ WorkEnds(c) \/ Release(c) PROVE StopInv'
  BY <1>3, WorkerStep, ReleaseStep
<1>4. CASE stop_service \/ Stopper
  BY <1>4, StopperStep, SeenIdleStep DEF Stopper
<1>5. CASE UNCHANGED stop_vars
  BY <1>5, StutterStep
<1> QED
  BY <1>1, <1>2, <1>3, <1>4, <1>5, Zenon DEF StopNext

LEMMA StopInductive == StopSpec => []StopInv
  BY InitStopInv, NextStopInv, PTL DEF StopSpec

\* The state is well typed; an accept loop holds a connection exactly while
\* it has one to spawn (spawn_tcp_accept_loop).
THEOREM StopTypeCorrect == StopSpec => []StopTypeOK
<1>1. StopInv => StopTypeOK
  BY DEF StopInv
<1> QED
  BY <1>1, StopInductive, PTL

\* A worker group counts exactly its workers, for any number of them
\* (ConnectionWorkerGroup::spawn, spawn_async).
THEOREM ExactCounts == StopSpec => []CountsItsWorkers
<1>1. StopInv => CountsItsWorkers
  BY DEF StopInv
<1> QED
  BY <1>1, StopInductive, PTL

\* A listener that a stop has seen idle has no worker and accepts nothing,
\* ever after (CoreService::stop, stop_listener_handle).
THEOREM StaysIdle == StopSpec => []IdleForGood
<1>1. StopInv => IdleForGood
  BY DEF StopInv
<1> QED
  BY <1>1, StopInductive, PTL

-----------------------------------------------------------------------------
ToClose ==
  {<<"close", "store">>, <<"sync", "close", "store">>,
   <<"close", "revoke", "store">>, <<"revoke", "close", "store">>}

ToRevoke ==
  {<<"revoke", "store">>, <<"close", "revoke", "store">>, <<"revoke", "close", "store">>}

Synced == {<<"store">>, <<"close", "store">>}

\* Who is doomed is registered, and shut unless the close is still to come.
DoomedInv ==
  \A c \in doomed :
    /\ socket[c] # None
    /\ socket[c] = "shut" \/ todo \in ToClose

\* Why a limiter is revoked.
RevokedInv ==
  /\ todo \in ToRevoke => change.entry = None
  /\ limiter = "revoked" =>
       /\ (\E i \in Inbounds : users[i] = None) \/ (todo # << >> /\ change.entry = None)
       /\ todo \in Synced => change.entry = None

IInv == TypeOK /\ DoomedInv /\ RevokedInv

\* The entries are not None.
LEMMA EntryNotNone ==
  ASSUME NEW e \in Entries
  PROVE  e # None
  BY NoneAssumption, Zenon DEF Entries

LEMMA InitIInv == Init => IInv
  BY NoneAssumption DEF Init, IInv, TypeOK, DoomedInv, RevokedInv, Plans, Entries, ToRevoke, Synced

\* Handlers leave the command alone and at most re-open the limiter.
LEMMA HandlerInvs ==
  ASSUME IInv, UNCHANGED <<users, todo, change>>,
         limiter' = limiter \/ limiter' = "open",
         doomed' \subseteq doomed,
         \A c \in doomed' : socket'[c] = socket[c]
  PROVE  DoomedInv' /\ RevokedInv'
<1>1. DoomedInv'
  BY Zenon DEF IInv, DoomedInv
<1>2. RevokedInv'
  BY Zenon DEF IInv, RevokedInv
<1> QED BY <1>1, <1>2, Zenon

LEMMA HandlerStep ==
  ASSUME IInv, Handler
  PROVE  IInv'
<1> USE DEF command
<1>1. ASSUME NEW c \in Connections, NEW i \in Inbounds, Authenticate(c, i) PROVE IInv'
  <2>1. TypeOK'
    BY <1>1, Zenon DEF Authenticate, IInv, TypeOK
  <2>2. DoomedInv' /\ RevokedInv'
    BY <1>1, HandlerInvs, Zenon DEF Authenticate
  <2> QED BY <2>1, <2>2, Zenon DEF IInv
<1>2. ASSUME NEW c \in Connections, request_user(c) PROVE IInv'
  <2>1. TypeOK'
    BY <1>2 DEF request_user, IInv, TypeOK
  <2>2. DoomedInv' /\ RevokedInv'
    BY <1>2, HandlerInvs, ZenonT(30) DEF request_user
  <2> QED BY <2>1, <2>2, Zenon DEF IInv
<1>3. ASSUME NEW c \in Connections, limiter_for(c) PROVE IInv'
  <2>1. TypeOK'
    BY <1>3, Zenon DEF limiter_for, IInv, TypeOK
  <2>2. DoomedInv' /\ RevokedInv'
    BY <1>3, HandlerInvs DEF limiter_for
  <2> QED BY <2>1, <2>2 DEF IInv
<1>4. ASSUME NEW c \in Connections, limiter_for_limited(c) PROVE IInv'
  <2>1. limiter' = limiter \/ limiter' = "open"
    BY <1>4, Zenon DEF limiter_for_limited
  <2>2. TypeOK'
    <3>1. limiter' \in {None, "open", "revoked"}
      BY <2>1 DEF IInv, TypeOK
    <3>2. limited' \in [Connections -> BOOLEAN] /\ pc' \in [Connections -> {"idle", "request", "limit", "connect", "relay"}]
      BY <1>4 DEF limiter_for_limited, IInv, TypeOK
    <3>3. \A d \in Connections :
            /\ pc'[d] # "idle" => inbound'[d] \in Inbounds
            /\ pc'[d] = "idle" => ~ limited'[d]
            /\ pc'[d] # "relay" => socket'[d] = None
      BY <1>4 DEF limiter_for_limited, IInv, TypeOK
    <3> QED BY <1>4, <3>1, <3>2, <3>3, Zenon DEF limiter_for_limited, IInv, TypeOK
  <2>3. DoomedInv' /\ RevokedInv'
    BY <1>4, <2>1, HandlerInvs, Zenon DEF limiter_for_limited
  <2> QED BY <2>2, <2>3 DEF IInv
<1>5. ASSUME NEW c \in Connections, register_tcp_connection(c) PROVE IInv'
  <2>1. TypeOK'
    BY <1>5, Zenon DEF register_tcp_connection, IInv, TypeOK
  <2>2. c \notin doomed
    BY <1>5, Zenon DEF register_tcp_connection, IInv, TypeOK, DoomedInv
  <2>3. \A d \in doomed' : socket'[d] = socket[d]
    BY <1>5, <2>2, Zenon DEF register_tcp_connection, IInv, TypeOK
  <2>4. DoomedInv' /\ RevokedInv'
    BY <1>5, <2>3, HandlerInvs, Zenon DEF register_tcp_connection
  <2> QED BY <2>1, <2>4 DEF IInv
<1>6. ASSUME NEW c \in Connections, End(c) PROVE IInv'
  <2>1. TypeOK'
    BY <1>6, Zenon DEF End, IInv, TypeOK
  <2>2. \A d \in doomed' : socket'[d] = socket[d]
    BY <1>6, Zenon DEF End, IInv, TypeOK
  <2>3. DoomedInv' /\ RevokedInv'
    BY <1>6, <2>2, HandlerInvs, Zenon DEF End
  <2> QED BY <2>1, <2>3 DEF IInv
<1> QED
  BY <1>1, <1>2, <1>3, <1>4, <1>5, <1>6, Zenon DEF Handler

\* A command begins with one of the plans; if it dooms connections the close
\* is in it, if it revokes it takes the user out, and if it puts the user in
\* the limiter is re-opened first.
LEMMA BeginStep ==
  ASSUME IInv, NEW i \in Inbounds, NEW entry \in Entries \union {None},
         NEW steps \in Plans \ {<< >>}, NEW removes \in BOOLEAN,
         Begin(i, entry, steps, removes),
         removes => steps \in ToClose,
         steps \in ToRevoke \union Synced => entry = None
  PROVE  IInv'
<1> USE DEF handler
<1>1. TypeOK'
  <2>1. change' \in [inbound : Inbounds \union {None}, entry : Entries \union {None}] /\ change'.inbound \in Inbounds
    BY Zenon DEF Begin
  <2>2. doomed' \subseteq Connections
    BY Zenon DEF Begin, Registered
  <2>3. todo' \in Plans
    BY Zenon DEF Begin
  <2> QED BY <2>1, <2>2, <2>3, Zenon DEF Begin, IInv, TypeOK
<1>2. DoomedInv'
  BY Zenon DEF Begin, DoomedInv, Registered
<1>3. RevokedInv'
  BY Zenon DEF Begin, IInv, RevokedInv
<1> QED
  BY <1>1, <1>2, <1>3, Zenon DEF IInv

LEMMA IssueStep ==
  ASSUME IInv, Issue
  PROVE  IInv'
<1>1. PICK i \in Inbounds :
        \/ \E entry \in Entries :
             Added(i, entry) \/ Updated(i, entry) \/ Full(i, entry) \/ Replaced(i, entry)
        \/ Deleted(i) \/ FullWithout(i) \/ ReplacedWithout(i)
  BY DEF Issue
<1>2. ASSUME NEW entry \in Entries, Added(i, entry) \/ Full(i, entry) \/ Replaced(i, entry)
      PROVE  IInv'
  BY <1>2, BeginStep, ZenonT(30) DEF Added, Full, Replaced, Plans, ToClose, ToRevoke, Synced
<1>3. ASSUME NEW entry \in Entries, Updated(i, entry) PROVE IInv'
  BY <1>3, BeginStep, ZenonT(30) DEF Updated, Plans, ToClose, ToRevoke, Synced
<1>4. CASE Deleted(i)
  BY <1>4, BeginStep, ZenonT(30) DEF Deleted, Plans, ToClose, ToRevoke, Synced
<1>5. CASE FullWithout(i)
  BY <1>5, BeginStep, ZenonT(30) DEF FullWithout, Plans, ToClose, ToRevoke, Synced
<1>6. CASE ReplacedWithout(i)
  BY <1>6, BeginStep, ZenonT(30) DEF ReplacedWithout, Plans, ToClose, ToRevoke, Synced
<1> QED
  BY <1>1, <1>2, <1>3, <1>4, <1>5, <1>6, Zenon

\* What is left of a plan after its first step.
LEMMA Tails ==
  ASSUME todo \in Plans, NEW step, Doing(step)
  PROVE  /\ todo' \in Plans
         /\ step = "sync" => todo' \in Synced /\ todo' \notin ToRevoke
         /\ step = "close" => todo \in ToClose /\ todo' # << >> /\ (todo' \in Synced => todo \in Synced)
         /\ step = "revoke" => todo \in ToRevoke /\ todo' \in Synced /\ todo' # << >>
         /\ step = "store" => todo = <<"store">> /\ todo' = << >>
         /\ step # "close" => (todo \in ToClose => todo' \in ToClose)
         /\ todo' \in ToRevoke => todo \in ToRevoke
         /\ UNCHANGED <<change, doomed>>
<1> USE DEF Doing, Plans, ToClose, ToRevoke, Synced
<1>1. CASE todo = << >>
  BY <1>1, Zenon
<1>2. CASE todo = <<"store">>
  <2>1. step = "store" /\ todo' = << >>
    BY <1>2
  <2> QED BY <1>2, <2>1
<1>3. CASE todo = <<"sync", "store">>
  <2>1. step = "sync" /\ todo' = <<"store">>
    BY <1>3
  <2> QED BY <1>3, <2>1
<1>4. CASE todo = <<"close", "store">>
  <2>1. step = "close" /\ todo' = <<"store">>
    BY <1>4
  <2> QED BY <1>4, <2>1
<1>5. CASE todo = <<"revoke", "store">>
  <2>1. step = "revoke" /\ todo' = <<"store">>
    BY <1>5
  <2> QED BY <1>5, <2>1
<1>6. CASE todo = <<"sync", "close", "store">>
  <2>1. step = "sync" /\ todo' = <<"close", "store">>
    BY <1>6
  <2> QED BY <1>6, <2>1
<1>7. CASE todo = <<"close", "revoke", "store">>
  <2>1. step = "close" /\ todo' = <<"revoke", "store">>
    BY <1>7
  <2> QED BY <1>7, <2>1
<1>8. CASE todo = <<"revoke", "close", "store">>
  <2>1. step = "revoke" /\ todo' = <<"close", "store">>
    BY <1>8
  <2> QED BY <1>8, <2>1
<1>9. \/ todo = << >> \/ todo = <<"store">> \/ todo = <<"sync", "store">>
      \/ todo = <<"close", "store">> \/ todo = <<"revoke", "store">>
      \/ todo = <<"sync", "close", "store">> \/ todo = <<"close", "revoke", "store">>
      \/ todo = <<"revoke", "close", "store">>
  BY ONLY todo \in Plans, ZenonT(30) DEF Plans
<1> HIDE DEF Doing, Plans, ToClose, ToRevoke, Synced
<1> QED
  BY ONLY <1>1, <1>2, <1>3, <1>4, <1>5, <1>6, <1>7, <1>8, <1>9, ZenonT(30)

LEMMA SyncStep ==
  ASSUME IInv, sync_users
  PROVE  IInv'
<1>1. PICK step : step = "sync" /\ Doing(step)
  BY Zenon DEF sync_users
<1>2. /\ todo \in Plans /\ todo' \in Plans /\ todo' \notin ToRevoke /\ todo # << >>
      /\ todo \in ToClose => todo' \in ToClose
      /\ UNCHANGED <<change, doomed, users, handler>>
      /\ limiter' # "revoked"
  BY <1>1, Tails, NoneAssumption, Zenon DEF sync_users, IInv, TypeOK, Doing
<1>3. TypeOK'
  BY <1>2, Zenon DEF sync_users, IInv, TypeOK, handler
<1>4. DoomedInv' /\ RevokedInv'
  BY <1>2 DEF IInv, DoomedInv, RevokedInv, handler
<1> QED BY <1>3, <1>4, Zenon DEF IInv

LEMMA CloseStep ==
  ASSUME IInv, close_users
  PROVE  IInv'
<1>1. PICK step : step = "close" /\ Doing(step)
  BY Zenon DEF close_users
<1>2. /\ todo \in Plans /\ todo' \in Plans /\ todo # << >> /\ todo' # << >>
      /\ todo' \in ToRevoke => todo \in ToRevoke
      /\ todo' \in Synced => todo \in Synced
      /\ UNCHANGED <<change, doomed, users, limiter, pc, inbound, user, limited>>
  BY <1>1, Tails, Zenon DEF close_users, IInv, TypeOK, Doing
<1>3. TypeOK'
  BY <1>2, Zenon DEF close_users, IInv, TypeOK, Registered
<1>4. DoomedInv'
  BY <1>2, NoneAssumption, Zenon DEF close_users, IInv, TypeOK, DoomedInv, Registered
<1>5. RevokedInv'
  BY <1>2 DEF IInv, RevokedInv
<1> QED BY <1>3, <1>4, <1>5, Zenon DEF IInv

LEMMA RevokeStep ==
  ASSUME IInv, revoke_users
  PROVE  IInv'
<1>1. PICK step : step = "revoke" /\ Doing(step)
  BY Zenon DEF revoke_users
<1>2. /\ todo \in Plans /\ todo' \in Plans /\ todo' # << >>
      /\ todo \in ToRevoke
      /\ todo \in ToClose => todo' \in ToClose
      /\ UNCHANGED <<change, doomed, users, handler>>
  BY <1>1, Tails, Zenon DEF revoke_users, IInv, TypeOK, Doing
<1>3. TypeOK'
  BY <1>2, Zenon DEF revoke_users, IInv, TypeOK, handler, Doing
<1>4. DoomedInv' /\ RevokedInv'
  BY <1>2, Zenon DEF IInv, DoomedInv, RevokedInv, handler
<1> QED BY <1>3, <1>4 DEF IInv

LEMMA StoreStep ==
  ASSUME IInv, Store
  PROVE  IInv'
<1>1. PICK step : step = "store" /\ Doing(step)
  BY Zenon DEF Store
<1>2. /\ todo = <<"store">> /\ todo' = << >> /\ todo' \in Plans
      /\ UNCHANGED <<change, doomed, limiter, handler>>
  BY <1>1, Tails, Zenon DEF Store, IInv, TypeOK, Doing
<1>3. change.inbound \in Inbounds /\ change.entry \in Entries \union {None}
  BY <1>2, Zenon DEF IInv, TypeOK
<1>4. users' = [users EXCEPT ![change.inbound] = change.entry]
  BY Zenon DEF Store
<1>5. TypeOK'
  BY <1>2, <1>3, <1>4, Zenon DEF IInv, TypeOK, handler
<1>6. DoomedInv'
  BY <1>2, Zenon DEF IInv, DoomedInv, handler, ToClose
<1>7. RevokedInv'
  <2>1. todo \in Synced /\ todo' \notin ToRevoke /\ todo' \notin Synced
    BY <1>2, Zenon DEF Synced, ToRevoke
  <2>2. limiter = "revoked" => users'[change.inbound] = None
    BY <1>3, <1>4, <2>1, Zenon DEF IInv, TypeOK, RevokedInv
  <2> QED BY <1>2, <1>3, <2>1, <2>2, Zenon DEF RevokedInv
<1> QED BY <1>5, <1>6, <1>7 DEF IInv

LEMMA NextIInv == IInv /\ [Next]_vars => IInv'
<1> SUFFICES ASSUME IInv, [Next]_vars PROVE IInv'
  BY Zenon
<1>1. CASE UNCHANGED vars
  BY <1>1, Zenon DEF vars, handler, command, IInv, TypeOK, DoomedInv, RevokedInv
<1> QED
  BY <1>1, HandlerStep, IssueStep, SyncStep, CloseStep, RevokeStep, StoreStep, Zenon DEF Next

LEMMA Inductive == Spec => []IInv
  BY InitIInv, NextIInv, PTL DEF Spec

\* Every state is well typed; an idle handler holds neither a limiter nor a
\* registration (the guards of limits.rs).
THEOREM TypeCorrect == Spec => []TypeOK
<1>1. IInv => TypeOK
  BY Zenon DEF IInv
<1> QED
  BY <1>1, Inductive, PTL

\* A delete, a full snapshot without the user and an update shut every
\* connection of the user that was registered when they began
\* (revoke_users, sync_full_users, sync_user_limit_delta).
THEOREM ShutWhenRemoved == Spec => []RegisteredAreShut
<1>1. IInv => RegisteredAreShut
  BY DEF IInv, DoomedInv, RegisteredAreShut, Idle, ToClose
<1> QED
  BY <1>1, Inductive, PTL

\* A user that is back in every table is not left revoked (sync_users).
THEOREM OpenWhenEnabled == Spec => []EnabledIsOpen
<1>1. IInv => EnabledIsOpen
  BY Zenon DEF IInv, RevokedInv, EnabledIsOpen, Idle
<1> QED
  BY <1>1, Inductive, PTL

-----------------------------------------------------------------------------
(* The limiter of the user, with the relays that share it. That the burst  *)
(* is bounded is not inductive: it grows with every grant. What is         *)
(* inductive is that the burst and what the bucket can still grant are     *)
(* together at most a full bucket: a grant moves bytes from the bucket to  *)
(* the burst, and a unit of time adds one to the bucket and takes one from *)
(* the burst.                                                              *)

BucketCoversBurst == burst + min(tokens + elapsed, FullBucket) <= FullBucket

BucketInv == LimiterTypeOK /\ BucketCoversBurst

\* Every request is below the capacity its bucket is capped with, and that
\* is at most a full bucket.
LEMMA CapacityBounds ==
  ASSUME NEW n \in Sizes \union {0}
  PROVE  /\ n \in Nat /\ Capacity(n) \in Nat
         /\ n <= Capacity(n) /\ Capacity(n) <= FullBucket
  BY BucketAssumption DEF Capacity, max

\* A bucket that was just refilled has what it was left with.
LEMMA JustRefilled ==
  ASSUME NEW t \in Nat, NEW e \in Nat, e = 0, FullBucket \in Nat, t <= FullBucket
  PROVE  min(t + e, FullBucket) = t
  BY DEF min

LEMMA InitBucket == LimiterInit => BucketInv
<1> SUFFICES ASSUME LimiterInit PROVE BucketInv
  OBVIOUS
<1>1. 0 \in 0..FullBucket /\ FullBucket \in Nat
  BY BucketAssumption
<1>2. LimiterTypeOK
  BY <1>1, ZenonT(30) DEF LimiterInit, LimiterTypeOK
<1>3. BucketCoversBurst
  BY <1>1 DEF LimiterInit, BucketCoversBurst, min
<1> QED
  BY <1>2, <1>3, Zenon DEF BucketInv

\* A step of wait_for that is about the control of relay r alone.
LEMMA ControlStep ==
  ASSUME BucketInv, NEW r \in Relays, NEW l \in {"read", "try", "sleep", "granted", "end"},
         Goto(r, l), size' \in [Relays -> Sizes \union {0}],
         UNCHANGED <<tokens, elapsed, unlimited, revoked, sleep, burst>>
  PROVE  BucketInv'
  BY ZenonT(30) DEF BucketInv, LimiterTypeOK, BucketCoversBurst, Goto, min

\* The bucket is refilled and either grants the request or is emptied.
LEMMA ReserveStep ==
  ASSUME BucketInv, NEW r \in Relays, reserve_wait_duration(r)
  PROVE  BucketInv'
<1> DEFINE n == size[r]
           f == Refilled(n)
<1>1. n \in Sizes \union {0}
  BY Zenon DEF BucketInv, LimiterTypeOK
<1>2. /\ n \in Nat /\ Capacity(n) \in Nat
      /\ n <= Capacity(n) /\ Capacity(n) <= FullBucket
  BY <1>1, CapacityBounds, Zenon
<1>3. tokens \in Nat /\ elapsed \in Nat /\ burst \in Nat /\ FullBucket \in Nat
  BY BucketAssumption DEF BucketInv, LimiterTypeOK
<1>4. f \in Nat /\ f <= FullBucket /\ burst + f <= FullBucket
  BY <1>2, <1>3 DEF Refilled, min, BucketInv, BucketCoversBurst
<1>5. elapsed' = 0
  BY Zenon DEF reserve_wait_duration
<1>u. UNCHANGED <<unlimited, revoked, size>>
  BY Zenon DEF reserve_wait_duration
<1> HIDE DEF f, n
<1>6. CASE f >= n /\ tokens' = f - n /\ burst' = burst + n /\ Goto(r, "granted") /\ UNCHANGED sleep
  <2>1. tokens' \in 0..FullBucket /\ burst' \in Nat /\ burst' + tokens' <= FullBucket
    BY <1>2, <1>3, <1>4, <1>6, SMTT(30)
  <2>2. LimiterTypeOK'
    BY <1>3, <1>5, <1>u, <1>6, <2>1, SMTT(30) DEF BucketInv, LimiterTypeOK, Goto
  <2>3. BucketCoversBurst'
    <3>1. tokens' \in Nat /\ tokens' <= FullBucket
      BY <1>3, <2>1
    <3>2. min(tokens' + elapsed', FullBucket) = tokens'
      BY <1>3, <1>5, <3>1, JustRefilled, ZenonT(30)
    <3> QED BY <2>1, <3>2, Zenon DEF BucketCoversBurst
  <2> QED BY <2>2, <2>3, Zenon DEF BucketInv
<1>7. CASE f < n /\ tokens' = 0 /\ sleep' = [sleep EXCEPT ![r] = n - f] /\ Goto(r, "sleep") /\ UNCHANGED burst
  <2>1. n - f \in 0..FullBucket
    BY <1>2, <1>3, <1>4, <1>7, SMTT(30)
  <2>2. LimiterTypeOK'
    BY <1>3, <1>5, <1>u, <1>7, <2>1, SMTT(30) DEF BucketInv, LimiterTypeOK, Goto
  <2>3. BucketCoversBurst'
    BY <1>3, <1>4, <1>5, <1>7 DEF BucketCoversBurst, min
  <2> QED BY <2>2, <2>3, Zenon DEF BucketInv
<1> QED
  BY <1>6, <1>7, Zenon DEF reserve_wait_duration, f, n

LEMMA TickStep ==
  ASSUME BucketInv, Tick
  PROVE  BucketInv'
<1>1. tokens \in Nat /\ elapsed \in 0..FullBucket /\ burst \in Nat /\ FullBucket \in Nat
  BY BucketAssumption, SMTT(30) DEF BucketInv, LimiterTypeOK
<1>2. elapsed' \in 0..FullBucket /\ burst' \in Nat
  BY <1>1, SMTT(30) DEF Tick, min
<1>3. sleep' \in [Relays -> 0..FullBucket]
  BY <1>1 DEF BucketInv, LimiterTypeOK, Tick
<1>4. LimiterTypeOK'
  BY <1>2, <1>3, Zenon DEF BucketInv, LimiterTypeOK, Tick
<1>5. BucketCoversBurst'
  BY <1>1 DEF BucketInv, BucketCoversBurst, Tick, min
<1> QED
  BY <1>4, <1>5, Zenon DEF BucketInv

LEMMA NextBucket == BucketInv /\ [LimiterNext]_limiter_vars => BucketInv'
<1> SUFFICES ASSUME BucketInv, [LimiterNext]_limiter_vars PROVE BucketInv'
  BY Zenon
<1>1. ASSUME NEW r \in Relays, NEW n \in Sizes, wait_for(r, n) PROVE BucketInv'
  <2>1. size' \in [Relays -> Sizes \union {0}]
    BY <1>1, Zenon DEF wait_for, BucketInv, LimiterTypeOK
  <2> QED BY <1>1, <2>1, ControlStep, Zenon DEF wait_for
<1>2. ASSUME NEW r \in Relays, Refuse(r) PROVE BucketInv'
  BY <1>2, ControlStep, Zenon DEF Refuse, BucketInv, LimiterTypeOK
<1>3. ASSUME NEW r \in Relays, reserve_wait_duration(r) PROVE BucketInv'
  BY <1>3, ReserveStep, Zenon
<1>4. ASSUME NEW r \in Relays, ReserveUnlimited(r) PROVE BucketInv'
  BY <1>4, ControlStep, Zenon DEF ReserveUnlimited, BucketInv, LimiterTypeOK
<1>5. ASSUME NEW r \in Relays, Wake(r) PROVE BucketInv'
  BY <1>5, ControlStep, Zenon DEF Wake, BucketInv, LimiterTypeOK
<1>6. ASSUME NEW r \in Relays, Return(r) PROVE BucketInv'
  BY <1>6, ControlStep, Zenon DEF Return, BucketInv, LimiterTypeOK
<1>7. CASE Tick
  BY <1>7, TickStep
<1>8. CASE revoke \/ set_unlimited \/ set_bytes_per_second
  BY <1>8, ZenonT(30) DEF revoke, set_unlimited, set_bytes_per_second, BucketInv, LimiterTypeOK, BucketCoversBurst, min
<1>9. CASE UNCHANGED limiter_vars
  BY <1>9, Zenon DEF limiter_vars, BucketInv, LimiterTypeOK, BucketCoversBurst, min
<1> QED
  BY <1>1, <1>2, <1>3, <1>4, <1>5, <1>6, <1>7, <1>8, <1>9, ZenonT(30) DEF LimiterNext, Waiting

LEMMA BucketInductive == LimiterSpec => []BucketInv
  BY InitBucket, NextBucket, PTL DEF LimiterSpec

\* The bucket is never above a full bucket, nor a sleep longer than it
\* takes to fill one (reserve_wait_duration).
THEOREM LimiterTypeCorrect == LimiterSpec => []LimiterTypeOK
<1>1. BucketInv => LimiterTypeOK
  BY Zenon DEF BucketInv
<1> QED
  BY <1>1, BucketInductive, PTL

\* However many relays share the limiter of a user, they are granted no
\* more than a full bucket beyond the rate (reserve_wait_duration).
THEOREM SpeedLimit == LimiterSpec => []SpeedLimitHolds
<1>1. BucketInv => SpeedLimitHolds
  BY BucketAssumption DEF BucketInv, LimiterTypeOK, BucketCoversBurst, SpeedLimitHolds, min
<1> QED
  BY <1>1, BucketInductive, PTL

-----------------------------------------------------------------------------
(* The device limit: DeviceLimits.                                         *)

\* A busy handler has a request, one that has to clean up has an address, and
\* until a tolerant handler was admitted every request is strict.
RequestsOK ==
  \A c \in Clients :
    /\ place[c] # "idle" => req[c] \in Request
    /\ place[c] \in {"undo", "unpend"} => req[c].ip # NoIp
    /\ place[c] # "idle" /\ ~ tolerated => ~ req[c].tolerant

\* Before the first revocation the counts are exact.
CountsExact ==
  revocations = 0 =>
    /\ \A ip \in Ips : ips[ip] = Cardinality(Holders(ip))
    /\ anonymous = Cardinality(Holders(NoIp))

\* What the tracker counts respects the limit while all handlers are strict.
CountWithinLimit == ~ tolerated => device_count <= Limit

DevicesInv ==
  /\ DevicesTypeOK
  /\ RequestsOK
  /\ NoPhantomDevice
  /\ CountsExact
  /\ CountWithinLimit

-----------------------------------------------------------------------------
\* The holders of an address are finitely many.
LEMMA HoldersFinite ==
  ASSUME NEW x \in Ips \cup {NoIp}
  PROVE  /\ IsFiniteSet(Holders(x))
         /\ Cardinality(Holders(x)) \in Nat
<1>1. Holders(x) \subseteq Clients
  BY DEF Holders
<1>2. IsFiniteSet(Holders(x))
  BY <1>1, ClientsAssumption, FS_Subset, Zenon
<1> QED
  BY <1>2, FS_CardinalityType, Zenon

LEMMA HoldersFiniteNext ==
  ASSUME NEW x \in Ips \cup {NoIp}
  PROVE  /\ IsFiniteSet(Holders(x)')
         /\ Cardinality(Holders(x)') \in Nat
<1>1. Holders(x)' \subseteq Clients
  BY DEF Holders
<1>2. IsFiniteSet(Holders(x)')
  BY <1>1, ClientsAssumption, FS_Subset, Zenon
<1> QED
  BY <1>2, FS_CardinalityType, Zenon

\* A handler that starts to hold x is one holder of x more (EnterIp,
\* EnterAnonymous).
LEMMA StartsHolding ==
  ASSUME DevicesTypeOK, NEW c \in Clients, place[c] = "enter",
         place' = [place EXCEPT ![c] = "held"], req' = req
  PROVE  /\ req[c].ip \in Ips \cup {NoIp} =>
              Cardinality(Holders(req[c].ip)') = Cardinality(Holders(req[c].ip)) + 1
         /\ \A y \in Ips \cup {NoIp} : y # req[c].ip => Holders(y)' = Holders(y)
<1>1. ASSUME req[c].ip \in Ips \cup {NoIp}
      PROVE  Cardinality(Holders(req[c].ip)') = Cardinality(Holders(req[c].ip)) + 1
  <2>1. Holders(req[c].ip)' = Holders(req[c].ip) \cup {c}
    BY Zenon DEF Holders, DevicesTypeOK
  <2>2. c \notin Holders(req[c].ip)
    BY DEF Holders
  <2> QED
    BY <2>1, <2>2, <1>1, HoldersFinite, FS_AddElement, Zenon
<1>2. \A y \in Ips \cup {NoIp} : y # req[c].ip => Holders(y)' = Holders(y)
  BY ZenonT(30) DEF Holders, DevicesTypeOK
<1> QED
  BY <1>1, <1>2, Zenon

\* A handler that drops its guard is one holder less (release).
LEMMA StopsHolding ==
  ASSUME DevicesTypeOK, NEW c \in Clients, place[c] = "held",
         NEW x \in Ips \cup {NoIp}, req[c].ip = x,
         NEW l \in {"idle", "unpend"},
         place' = [place EXCEPT ![c] = l],
         \A d \in Clients : d # c => req'[d] = req[d]
  PROVE  /\ Cardinality(Holders(x)') = Cardinality(Holders(x)) - 1
         /\ Cardinality(Holders(x)) >= 1
         /\ \A y \in Ips \cup {NoIp} : y # x => Holders(y)' = Holders(y)
<1>1. Holders(x)' = Holders(x) \ {c}
  BY Zenon DEF Holders, DevicesTypeOK
<1>2. c \in Holders(x)
  BY Zenon DEF Holders
<1>3. Cardinality(Holders(x)) # 0
  BY <1>2, HoldersFinite, FS_EmptySet, Zenon
<1>4. Cardinality(Holders(x)') = Cardinality(Holders(x)) - 1
  BY <1>1, <1>2, HoldersFinite, FS_RemoveElement, ZenonT(30)
<1>5. \A y \in Ips \cup {NoIp} : y # x => Holders(y)' = Holders(y)
  BY Zenon DEF Holders, DevicesTypeOK
<1> QED
  BY <1>3, <1>4, <1>5, HoldersFinite, SMTT(30)

\* Any other step of a handler leaves the holders alone.
LEMMA KeepsHolders ==
  ASSUME DevicesTypeOK, NEW c \in Clients, place[c] # "held",
         NEW l \in {"idle", "enter", "undo"},
         place' = [place EXCEPT ![c] = l],
         \A d \in Clients : d # c => req'[d] = req[d]
  PROVE  \A y \in Ips \cup {NoIp} : Holders(y)' = Holders(y)
BY Zenon DEF Holders, DevicesTypeOK

\* The devices are finitely many.
LEMMA DevicesFinite == /\ IsFiniteSet(Devices)
                       /\ Cardinality(Devices) \in Nat
<1>1. Devices \subseteq Ips
  BY Zenon DEF Devices
<1> QED
  BY <1>1, ClientsAssumption, FS_Subset, FS_CardinalityType, Zenon

\* One session more on an address adds at most the address to the devices.
LEMMA OneMoreSession ==
  ASSUME DevicesTypeOK, NEW ip \in Ips, ips' = [ips EXCEPT ![ip] = @ + 1]
  PROVE  /\ ips[ip] > 0 => Devices' = Devices
         /\ ips[ip] = 0 => Cardinality(Devices') = Cardinality(Devices) + 1
<1>1. ips[ip] > 0 => Devices' = Devices
  BY DEF Devices, DevicesTypeOK
<1>2. ASSUME ips[ip] = 0
      PROVE  Cardinality(Devices') = Cardinality(Devices) + 1
  <2>1. Devices' = Devices \cup {ip}
    BY <1>2 DEF Devices, DevicesTypeOK
  <2>2. ip \notin Devices
    BY <1>2 DEF Devices
  <2> QED
    BY <2>1, <2>2, DevicesFinite, FS_AddElement, Zenon
<1> QED
  BY <1>1, <1>2, Zenon

\* Fewer sessions never make more devices.
LEMMA FewerDevices ==
  ASSUME DevicesTypeOK, DevicesTypeOK', \A ip \in Ips : ips'[ip] <= ips[ip]
  PROVE  /\ Cardinality(Devices') <= Cardinality(Devices)
         /\ Cardinality(Devices') \in Nat
<1>1. Devices' \subseteq Devices
  BY DEF Devices, DevicesTypeOK
<1> QED
  BY <1>1, DevicesFinite, FS_Subset, FS_CardinalityType, ZenonT(30)
-----------------------------------------------------------------------------
\* The initial state satisfies the inductive invariant.
LEMMA DevicesInitInv == DevicesInit => DevicesInv
<1> SUFFICES ASSUME DevicesInit PROVE DevicesInv
  BY Zenon
<1>1. DevicesTypeOK
  BY IpAssumption, Zenon DEF DevicesInit, DevicesTypeOK
<1>2. \A x \in Ips \cup {NoIp} : Holders(x) = {}
  BY Zenon DEF DevicesInit, Holders
<1>3. \A x \in Ips \cup {NoIp} : Cardinality(Holders(x)) = 0
  BY <1>2, FS_EmptySet, Zenon
<1>4. device_count = 0
  <2>1. Devices = {}
    BY DEF DevicesInit, Devices
  <2> QED
    BY <2>1, FS_EmptySet, SMTT(30) DEF device_count, DevicesInit
<1>5. RequestsOK
  BY Zenon DEF DevicesInit, RequestsOK
<1>6. NoPhantomDevice /\ CountsExact
  BY <1>3 DEF DevicesInit, NoPhantomDevice, CountsExact
<1>7. CountWithinLimit
  BY <1>4, LimitAssumption DEF CountWithinLimit
<1> QED
  BY <1>1, <1>5, <1>6, <1>7, SMTT(30) DEF DevicesInv

\* A step that leaves sessions, handlers and holders alone keeps the counts.
LEMMA CountsKept ==
  ASSUME DevicesInv, ips' = ips, anonymous' = anonymous, revocations' = revocations,
         tolerated => tolerated',
         \A x \in Ips \cup {NoIp} : Holders(x)' = Holders(x)
  PROVE  NoPhantomDevice' /\ CountsExact' /\ CountWithinLimit'
<1>1. NoPhantomDevice'
  BY Zenon DEF DevicesInv, NoPhantomDevice
<1>2. CountsExact'
  BY Zenon DEF DevicesInv, CountsExact
<1>3. device_count' = device_count
  BY Zenon DEF device_count, Devices
<1>4. CountWithinLimit'
  BY <1>3, Zenon DEF DevicesInv, CountWithinLimit
<1> QED
  BY <1>1, <1>2, <1>4, Zenon

\* Beginning a request keeps the invariant (StartAnonymous and an admitted
\* check_device_limit_ip).
LEMMA BeginIInv ==
  ASSUME DevicesInv, NEW c \in Clients, NEW n \in Nodes, NEW ip \in Ips \cup {NoIp},
         NEW tolerant \in BOOLEAN,
         place[c] = "idle", Arrive(c, n, ip, tolerant),
         pending' \in [Nodes -> SUBSET Ips],
         UNCHANGED <<ips, anonymous, Known, Control>>
  PROVE  DevicesInv'
<1>1. DevicesTypeOK'
  BY Zenon DEF DevicesInv, DevicesTypeOK, Arrive, Request, Known, Control
<1>2. RequestsOK'
  BY Zenon DEF DevicesInv, RequestsOK, DevicesTypeOK, Arrive, Request
<1>3. \A x \in Ips \cup {NoIp} : Holders(x)' = Holders(x)
  <2>1. place' = [place EXCEPT ![c] = "enter"] /\ \A d \in Clients : d # c => req'[d] = req[d]
    BY Zenon DEF Arrive, DevicesInv, DevicesTypeOK
  <2> QED
    BY <2>1, KeepsHolders, Zenon DEF DevicesInv
<1>4. NoPhantomDevice' /\ CountsExact' /\ CountWithinLimit'
  BY <1>3, CountsKept DEF Control, Arrive
<1> QED
  BY <1>1, <1>2, <1>4, Zenon DEF DevicesInv

\* A handler that finishes without holding anything keeps the invariant.
LEMMA FinishIInv ==
  ASSUME DevicesInv, NEW c \in Clients, place[c] # "held", Finish(c),
         pending' \in [Nodes -> SUBSET Ips],
         UNCHANGED <<ips, anonymous, Known, Control>>
  PROVE  DevicesInv'
<1>1. DevicesTypeOK'
  BY Zenon DEF DevicesInv, DevicesTypeOK, Finish, Known, Control
<1>2. RequestsOK'
  BY Zenon DEF DevicesInv, RequestsOK, DevicesTypeOK, Finish
<1>3. \A x \in Ips \cup {NoIp} : Holders(x)' = Holders(x)
  <2>1. place' = [place EXCEPT ![c] = "idle"] /\ \A d \in Clients : d # c => req'[d] = req[d]
    BY Zenon DEF Finish, DevicesInv, DevicesTypeOK
  <2> QED
    BY <2>1, KeepsHolders, Zenon DEF DevicesInv
<1>4. NoPhantomDevice' /\ CountsExact' /\ CountWithinLimit'
  BY <1>3, CountsKept, Zenon DEF Control, Finish
<1> QED
  BY <1>1, <1>2, <1>4, Zenon DEF DevicesInv

\* The second critical section with an address keeps the invariant.
LEMMA EnterIpIInv ==
  ASSUME DevicesInv, NEW c \in Clients, EnterIp(c)
  PROVE  DevicesInv'
<1> DEFINE ip == req[c].ip
<1>1. /\ place[c] = "enter" /\ ip \in Ips
      /\ UNCHANGED <<anonymous, pending, Known, Control, req, tolerated>>
  BY Zenon DEF EnterIp, MoveTo, DevicesInv, RequestsOK, Request
<1>2. CASE ips[ip] = 0 /\ ~ req[c].tolerant /\ device_count >= Limit
  <2>1. place' = [place EXCEPT ![c] = "undo"] /\ ips' = ips
    BY <1>2, Zenon DEF EnterIp, MoveTo
  <2>2. DevicesTypeOK'
    BY <1>1, <2>1, Zenon DEF DevicesInv, DevicesTypeOK, Known, Control
  <2>3. RequestsOK'
    BY <1>1, <2>1, IpAssumption, Zenon DEF DevicesInv, RequestsOK, DevicesTypeOK
  <2>4. \A x \in Ips \cup {NoIp} : Holders(x)' = Holders(x)
    BY <1>1, <2>1, KeepsHolders, Zenon DEF DevicesInv
  <2>5. NoPhantomDevice' /\ CountsExact' /\ CountWithinLimit'
    BY <1>1, <2>1, <2>4, CountsKept, Zenon DEF Control
  <2> QED
    BY <2>2, <2>3, <2>5, Zenon DEF DevicesInv
<1>3. CASE ~ (ips[ip] = 0 /\ ~ req[c].tolerant /\ device_count >= Limit)
  <2>1. place' = [place EXCEPT ![c] = "held"] /\ ips' = [ips EXCEPT ![ip] = @ + 1]
    BY <1>3, Zenon DEF EnterIp, MoveTo
  <2>2. DevicesTypeOK'
    BY <1>1, <2>1 DEF DevicesInv, DevicesTypeOK, Known, Control
  <2>3. RequestsOK'
    BY <1>1, <2>1, Zenon DEF DevicesInv, RequestsOK, DevicesTypeOK
  <2>4. /\ Cardinality(Holders(ip)') = Cardinality(Holders(ip)) + 1
        /\ \A y \in Ips \cup {NoIp} : y # ip => Holders(y)' = Holders(y)
    BY <1>1, <2>1, StartsHolding, Zenon DEF DevicesInv
  <2>5. Cardinality(Holders(ip)) \in Nat
    BY <1>1, HoldersFinite, ZenonT(30)
  <2>6. NoPhantomDevice'
    BY <1>1, <2>1, <2>4, <2>5, IpAssumption, SMTT(30) DEF DevicesInv, NoPhantomDevice, DevicesTypeOK
  <2>7. CountsExact'
    BY <1>1, <2>1, <2>4, IpAssumption, ZenonT(30) DEF DevicesInv, CountsExact, DevicesTypeOK, Control
  <2>8. CountWithinLimit'
    <3> SUFFICES ASSUME ~ tolerated PROVE device_count' <= Limit
      BY <1>1, Zenon DEF CountWithinLimit
    <3>1. ~ req[c].tolerant /\ device_count <= Limit
      BY <1>1, Zenon DEF DevicesInv, RequestsOK, CountWithinLimit
    <3>2. Cardinality(Devices) \in Nat /\ anonymous \in Nat /\ ips[ip] \in Nat
      BY <1>1, DevicesFinite, Zenon DEF DevicesInv, DevicesTypeOK
    <3>3. /\ ips[ip] > 0 => Devices' = Devices
          /\ ips[ip] = 0 => Cardinality(Devices') = Cardinality(Devices) + 1
      BY <1>1, <2>1, OneMoreSession, ZenonT(30) DEF DevicesInv
    <3>4. ips[ip] = 0 => device_count < Limit
      BY <3>1, <3>2, <1>3, LimitAssumption, SMTT(30) DEF device_count
    <3> QED
      BY <1>1, <3>1, <3>2, <3>3, <3>4, LimitAssumption, SMTT(30) DEF device_count
  <2> QED
    BY <2>2, <2>3, <2>6, <2>7, <2>8, Zenon DEF DevicesInv
<1> QED
  BY <1>2, <1>3, Zenon

\* The second critical section without an address keeps the invariant.
LEMMA EnterAnonymousIInv ==
  ASSUME DevicesInv, NEW c \in Clients, EnterAnonymous(c)
  PROVE  DevicesInv'
<1>1. /\ place[c] = "enter" /\ req[c].ip = NoIp
      /\ UNCHANGED <<ips, pending, Known, Control>>
  BY Zenon DEF EnterAnonymous
<1>2. CASE device_count >= Limit
  BY <1>1, <1>2, FinishIInv, ZenonT(30) DEF EnterAnonymous, DevicesInv, DevicesTypeOK
<1>3. CASE ~ (device_count >= Limit)
  <2>1. /\ place' = [place EXCEPT ![c] = "held"] /\ anonymous' = anonymous + 1 /\ req' = req
        /\ tolerated' = tolerated
    BY <1>3, ZenonT(30) DEF EnterAnonymous, MoveTo
  <2>2. DevicesTypeOK'
    BY <1>1, <2>1 DEF DevicesInv, DevicesTypeOK, Known, Control
  <2>3. RequestsOK'
    BY <1>1, <2>1, Zenon DEF DevicesInv, RequestsOK, DevicesTypeOK
  <2>4. /\ Cardinality(Holders(NoIp)') = Cardinality(Holders(NoIp)) + 1
        /\ \A y \in Ips : Holders(y)' = Holders(y)
    BY <1>1, <2>1, StartsHolding, IpAssumption, Zenon DEF DevicesInv
  <2>5. Cardinality(Holders(NoIp)) \in Nat
    BY HoldersFinite, Zenon
  <2>6. NoPhantomDevice'
    BY <1>1, <2>1, <2>4, <2>5 DEF DevicesInv, NoPhantomDevice, DevicesTypeOK
  <2>7. CountsExact'
    BY <1>1, <2>1, <2>4, Zenon DEF DevicesInv, CountsExact, DevicesTypeOK, Control
  <2>8. CountWithinLimit'
    <3>1. Devices' = Devices /\ Cardinality(Devices) \in Nat /\ anonymous \in Nat
      BY <1>1, DevicesFinite, Zenon DEF Devices, DevicesInv, DevicesTypeOK
    <3> QED
      BY <3>1, <2>1, <1>3, LimitAssumption, SMTT(30) DEF CountWithinLimit, device_count
  <2> QED
    BY <2>2, <2>3, <2>6, <2>7, <2>8, Zenon DEF DevicesInv
<1> QED
  BY <1>2, <1>3, Zenon
\* Dropping a guard keeps the invariant; the count may already be zero when
\* the user was revoked under the guard.
LEMMA ReleaseIInv ==
  ASSUME DevicesInv, NEW c \in Clients, release(c)
  PROVE  DevicesInv'
<1> DEFINE x == req[c].ip
<1>1. /\ place[c] = "held" /\ x \in Ips \cup {NoIp}
      /\ UNCHANGED <<pending, Known, Control>>
  BY Zenon DEF release, DevicesInv, RequestsOK, DevicesTypeOK, Request
<1>2. PICK l \in {"idle", "unpend"} :
        /\ place' = [place EXCEPT ![c] = l]
        /\ l = "idle" => req' = [req EXCEPT ![c] = NoIp]
        /\ l = "unpend" => req' = req /\ x # NoIp
        /\ tolerated' = tolerated
  BY Zenon DEF release, Finish, MoveTo
<1>3. \A d \in Clients : d # c => req'[d] = req[d]
  BY <1>2, Zenon DEF DevicesInv, DevicesTypeOK
<1>4. PICK y \in Ips \cup {NoIp} : y = x
  BY <1>1, Zenon
<1>5. /\ Cardinality(Holders(y)') = Cardinality(Holders(y)) - 1
      /\ Cardinality(Holders(y)) >= 1
      /\ \A z \in Ips \cup {NoIp} : z # y => Holders(z)' = Holders(z)
  BY <1>1, <1>2, <1>3, <1>4, StopsHolding, Zenon DEF DevicesInv
<1>6. Cardinality(Holders(y)) \in Nat
  BY HoldersFinite, Zenon
<1>7. RequestsOK'
  BY <1>1, <1>2, <1>3, Zenon DEF DevicesInv, RequestsOK, DevicesTypeOK
<1>8. CASE y = NoIp
  <2>1. ips' = ips /\ anonymous' = IF anonymous > 0 THEN anonymous - 1 ELSE 0
    BY <1>4, <1>8, ZenonT(30) DEF release
  <2>2. DevicesTypeOK'
    BY <1>1, <1>2, <2>1, SMTT(30) DEF DevicesInv, DevicesTypeOK, Known, Control
  <2>3. NoPhantomDevice'
    BY <2>1, <1>5, <1>6, <1>8, IpAssumption, SMTT(30) DEF DevicesInv, NoPhantomDevice, DevicesTypeOK
  <2>4. CountsExact'
    BY <1>1, <2>1, <1>5, <1>6, <1>8, IpAssumption, SMTT(30) DEF DevicesInv, CountsExact, DevicesTypeOK, Control
  <2>5. CountWithinLimit'
    <3>1. Devices' = Devices /\ Cardinality(Devices) \in Nat /\ anonymous \in Nat
      BY <2>1, DevicesFinite, Zenon DEF Devices, DevicesInv, DevicesTypeOK
    <3> QED
      BY <3>1, <2>1, <1>2, LimitAssumption DEF CountWithinLimit, device_count, DevicesInv
  <2> QED
    BY <1>7, <2>2, <2>3, <2>4, <2>5, Zenon DEF DevicesInv
<1>9. CASE y \in Ips
  <2>1. /\ ips' = [ips EXCEPT ![y] = IF @ > 0 THEN @ - 1 ELSE 0]
        /\ anonymous' = anonymous
    BY <1>4, <1>9, IpAssumption, Zenon DEF release
  <2>2. DevicesTypeOK'
    <3>1. ips' \in [Ips -> Nat]
      BY <2>1, <1>9 DEF DevicesInv, DevicesTypeOK
    <3>2. place' \in [Clients -> {"idle", "enter", "undo", "held", "unpend"}]
      BY <1>2, Zenon DEF DevicesInv, DevicesTypeOK
    <3>3. req' \in [Clients -> Request \cup {NoIp}]
      BY <1>2, Zenon DEF DevicesInv, DevicesTypeOK
    <3> QED
      BY <1>1, <1>2, <2>1, <3>1, <3>2, <3>3, Zenon DEF DevicesInv, DevicesTypeOK, Known, Control
  <2>3. NoPhantomDevice'
    BY <2>1, <1>5, <1>6, <1>9, IpAssumption, SMTT(30) DEF DevicesInv, NoPhantomDevice, DevicesTypeOK
  <2>4. CountsExact'
    BY <1>1, <2>1, <1>5, <1>6, <1>9, IpAssumption, SMTT(30) DEF DevicesInv, CountsExact, DevicesTypeOK, Control
  <2>5. CountWithinLimit'
    <3>1. \A ip \in Ips : ips'[ip] <= ips[ip]
      BY <2>1 DEF DevicesInv, DevicesTypeOK
    <3>2. Cardinality(Devices') <= Cardinality(Devices)
      BY <3>1, <2>2, FewerDevices, Zenon DEF DevicesInv
    <3>3. Cardinality(Devices) \in Nat /\ Cardinality(Devices') \in Nat
      <4>1. Devices' \subseteq Ips
        BY Zenon DEF Devices
      <4> QED
        BY <4>1, DevicesFinite, ClientsAssumption, FS_Subset, FS_CardinalityType, Zenon
    <3> QED
      BY <3>2, <3>3, <2>1, <1>2, LimitAssumption, SMTT(30) DEF CountWithinLimit, device_count, DevicesInv, DevicesTypeOK
  <2> QED
    BY <1>7, <2>2, <2>3, <2>4, <2>5, Zenon DEF DevicesInv
<1> QED
  BY <1>8, <1>9, Zenon

\* Clearing the sessions of a revoked user keeps the invariant.
LEMMA RevokeSessionsIInv ==
  ASSUME DevicesInv, revoke_sessions
  PROVE  DevicesInv'
<1>1. DevicesTypeOK'
  BY DEF DevicesInv, DevicesTypeOK, revoke_sessions, Known
<1>2. RequestsOK'
  BY Zenon DEF DevicesInv, RequestsOK, revoke_sessions
<1>3. \A x \in Ips \cup {NoIp} : Cardinality(Holders(x)') \in Nat
  BY HoldersFiniteNext, Zenon
<1>4. NoPhantomDevice'
  BY <1>3, SMTT(30) DEF NoPhantomDevice, revoke_sessions
<1>5. CountsExact'
  BY DEF CountsExact, revoke_sessions, DevicesInv, DevicesTypeOK
<1>6. CountWithinLimit'
  <2>1. Devices' = {}
    BY DEF Devices, revoke_sessions
  <2> QED
    BY <2>1, FS_EmptySet, LimitAssumption DEF CountWithinLimit, device_count, revoke_sessions
<1> QED
  BY <1>1, <1>2, <1>4, <1>5, <1>6, Zenon DEF DevicesInv

\* The steps of the panel, and the second half of a revocation, touch no
\* session.
LEMMA PanelIInv ==
  ASSUME DevicesInv, revoke_pending \/ Panel
  PROVE  DevicesInv'
<1>1. UNCHANGED <<ips, anonymous, place, req, revocations, tolerated>>
  BY Zenon DEF revoke_pending, Panel, apply_device_limit_snapshot, commit_device_limit_report,
         prune_reported, Control
<1>2. DevicesTypeOK'
  <2>1. CASE revoke_pending
    BY <2>1, Zenon DEF revoke_pending, DevicesInv, DevicesTypeOK, Known
  <2>2. ASSUME NEW n \in Nodes, NEW count \in AliveCounts, NEW addresses \in SUBSET Ips,
               apply_device_limit_snapshot(n, count, addresses)
        PROVE  DevicesTypeOK'
    BY <2>2, PolicyAssumption, Zenon DEF apply_device_limit_snapshot, DevicesInv, DevicesTypeOK, Control
  <2>3. ASSUME NEW n \in Nodes, NEW ip \in Ips, commit_device_limit_report(n, ip)
        PROVE  DevicesTypeOK'
    BY <2>3, Zenon DEF commit_device_limit_report, DevicesInv, DevicesTypeOK, Control
  <2>4. ASSUME NEW n \in Nodes, NEW ip \in Ips, prune_reported(n, ip)
        PROVE  DevicesTypeOK'
    BY <2>4, ZenonT(30) DEF prune_reported, DevicesInv, DevicesTypeOK, Control
  <2> QED
    BY <2>1, <2>2, <2>3, <2>4, PolicyAssumption, Zenon DEF Panel
<1>3. RequestsOK'
  BY <1>1 DEF DevicesInv, RequestsOK
<1>4. \A x \in Ips \cup {NoIp} : Holders(x)' = Holders(x)
  BY <1>1, Zenon DEF Holders
<1> QED
  BY <1>1, <1>2, <1>3, <1>4, CountsKept, Zenon DEF DevicesInv

\* Every step keeps the invariant.
LEMMA DevicesNextInv == DevicesInv /\ [DevicesNext]_device_vars => DevicesInv'
<1> SUFFICES ASSUME DevicesInv, [DevicesNext]_device_vars PROVE DevicesInv'
  BY Zenon
<1>1. ASSUME NEW c \in Clients, NEW n \in Nodes, StartAnonymous(c, n)
      PROVE  DevicesInv'
  <2>1. pending' \in [Nodes -> SUBSET Ips]
    BY <1>1, Zenon DEF StartAnonymous, DevicesInv, DevicesTypeOK
  <2> QED
    BY <1>1, <2>1, BeginIInv, Zenon DEF StartAnonymous
<1>2. ASSUME NEW c \in Clients, NEW n \in Nodes, NEW ip \in Ips, NEW tolerant \in Policies,
             check_device_limit_ip(c, n, ip, tolerant)
      PROVE  DevicesInv'
  <2>1. PICK p \in PendingAfterDrop(n, ip, tolerant) :
          \/ /\ pending' = [pending EXCEPT ![n] = p \cup {ip}]
             /\ Arrive(c, n, ip, tolerant)
          \/ /\ pending' = [pending EXCEPT ![n] = p]
             /\ UNCHANGED <<req, place, tolerated>>
    BY <1>2, Zenon DEF check_device_limit_ip
  <2>2. p \in SUBSET Ips /\ p \cup {ip} \in SUBSET Ips
    BY DEF PendingAfterDrop, DevicesInv, DevicesTypeOK
  <2>3. pending' \in [Nodes -> SUBSET Ips]
    BY <2>1, <2>2, Zenon DEF DevicesInv, DevicesTypeOK
  <2>4. place[c] = "idle" /\ UNCHANGED <<ips, anonymous, Known, Control>>
    BY <1>2, Zenon DEF check_device_limit_ip
  <2>5. CASE Arrive(c, n, ip, tolerant)
    <3>1. tolerant \in BOOLEAN
      BY PolicyAssumption, Zenon
    <3> QED
      BY <2>3, <2>4, <2>5, <3>1, BeginIInv, Zenon
  <2>6. CASE UNCHANGED <<req, place, tolerated>>
    <3>1. DevicesTypeOK'
      BY <2>3, <2>4, <2>6, Zenon DEF DevicesInv, DevicesTypeOK, Known, Control
    <3>2. RequestsOK'
      BY <2>6, Zenon DEF DevicesInv, RequestsOK
    <3>3. \A x \in Ips \cup {NoIp} : Holders(x)' = Holders(x)
      BY <2>6, Zenon DEF Holders
    <3> QED
      BY <2>4, <2>6, <3>1, <3>2, <3>3, CountsKept, Zenon DEF DevicesInv, Control
  <2> QED
    BY <2>1, <2>5, <2>6, Zenon
<1>3. ASSUME NEW c \in Clients, remove_pending_ip(c)
      PROVE  DevicesInv'
  <2>1. pending' \in [Nodes -> SUBSET Ips]
    BY <1>3, Zenon DEF remove_pending_ip, DevicesInv, DevicesTypeOK
  <2> QED
    BY <1>3, <2>1, FinishIInv, Zenon DEF remove_pending_ip
<1>4. CASE UNCHANGED device_vars
  <2>1. DevicesTypeOK' /\ RequestsOK'
    BY <1>4, Zenon DEF DevicesInv, DevicesTypeOK, RequestsOK, device_vars
  <2>2. \A x \in Ips \cup {NoIp} : Holders(x)' = Holders(x)
    BY <1>4, Zenon DEF Holders, device_vars
  <2> QED
    BY <1>4, <2>1, <2>2, CountsKept, Zenon DEF DevicesInv, device_vars
<1> QED
  BY <1>1, <1>2, <1>3, <1>4, EnterIpIInv, EnterAnonymousIInv, ReleaseIInv,
     RevokeSessionsIInv, PanelIInv, ZenonT(30) DEF DevicesNext, SessionStep

LEMMA Invariance == DevicesSpec => []DevicesInv
BY DevicesInitInv, DevicesNextInv, PTL DEF DevicesSpec

-----------------------------------------------------------------------------
\* The variables always hold values of their types.
THEOREM DevicesTypeCorrect == DevicesSpec => []DevicesTypeOK
<1>1. DevicesInv => DevicesTypeOK
  BY Zenon DEF DevicesInv
<1> QED
  BY <1>1, Invariance, PTL

\* Whatever was revoked under whose guard, for any number of clients,
\* addresses and nodes, no count exceeds the guards that are held.
THEOREM NoPhantoms == DevicesSpec => []NoPhantomDevice
<1>1. DevicesInv => NoPhantomDevice
  BY Zenon DEF DevicesInv
<1> QED
  BY <1>1, Invariance, PTL

\* Until the first revocation, strict handlers together never hold sessions
\* from more devices than the limit.
THEOREM StrictLimit == DevicesSpec => []DevicesWithinLimit
<1>1. DevicesInv => DevicesWithinLimit
  <2> SUFFICES ASSUME DevicesInv, revocations = 0, ~ tolerated
               PROVE  Cardinality({ip \in Ips : Holders(ip) # {}})
                        + Cardinality(Holders(NoIp)) <= Limit
    BY Zenon DEF DevicesWithinLimit
  <2>1. \A ip \in Ips : Holders(ip) # {} <=> ips[ip] > 0
    <3> SUFFICES ASSUME NEW ip \in Ips PROVE Holders(ip) # {} <=> ips[ip] > 0
      BY Zenon
    <3>1. ips[ip] = Cardinality(Holders(ip)) /\ ips[ip] \in Nat
      BY Zenon DEF DevicesInv, CountsExact, DevicesTypeOK
    <3>2. Cardinality(Holders(ip)) = 0 <=> Holders(ip) = {}
      BY HoldersFinite, FS_EmptySet, Zenon
    <3> QED
      BY <3>1, <3>2
  <2>2. {ip \in Ips : Holders(ip) # {}} = Devices
    BY <2>1, Zenon DEF Devices
  <2>3. anonymous = Cardinality(Holders(NoIp))
    BY Zenon DEF DevicesInv, CountsExact
  <2> QED
    BY <2>2, <2>3, Zenon DEF DevicesInv, CountWithinLimit, device_count
<1> QED
  BY <1>1, Invariance, PTL
=============================================================================
