----------------------------- MODULE UdpSessions -----------------------------
(***************************************************************************)
(* The UDP sessions of one QUIC connection, of Hysteria2 or of TUIC. A     *)
(* task reads packets and sends each through the session of its id, which  *)
(* it makes if there is none; each session has a receiver that carries the *)
(* replies back. A session lives as long as the table, the task or the     *)
(* receiver hold it: in Hysteria2 it has one of the permits all            *)
(* connections share, and counts traffic that is recorded in batches.      *)
(* TUIC reads packets on two tasks and has neither limits nor batches.     *)
(***************************************************************************)
EXTENDS Naturals, FiniteSets

CONSTANTS
  Ids,            \* the session ids the client uses
  Objects,        \* sessions that can be alive at a time
  MaxSessions,    \* UDP_MAX_SESSIONS_PER_CONNECTION
  PermitLimit,    \* hy2_udp_session_limit()
  IdleTimeout,    \* UDP_SESSION_IDLE_TIMEOUT_MS
  FlushBytes,     \* UDP_TRAFFIC_FLUSH_BYTES, in packets
  None

AllTasks == {"datagrams", "streams"}
Session == [id : Ids, closed : BOOLEAN, idle : Nat, pending : Nat]

ASSUME SessionsAssumption ==
  /\ {MaxSessions, IdleTimeout, FlushBytes} \subseteq Nat \ {0}
  /\ IsFiniteSet(Objects) /\ Objects \cap AllTasks = {}
  /\ PermitLimit \in 0..Cardinality(Objects)
  /\ None \notin Objects \cup Ids \cup Session

VARIABLES
  kind,           \* "hysteria2" or "tuic"
  connection,     \* "open", "closed"
  handler,        \* of the connection: "run", "over"
  revoked,        \* the user has been revoked
  active,         \* HY2_ACTIVE_UDP_SESSIONS, of this connection
  table,          \* the session of an id
  session,        \* the sessions that are alive
  worker,         \* the tasks that read packets, and the receivers
  owed            \* per session: packets forwarded and not yet recorded

vars == <<kind, connection, handler, revoked, active, table, session, worker, owed>>
setting == <<kind, connection, handler, revoked>>

hy2 == kind = "hysteria2"
Tasks == IF hy2 THEN {"datagrams"} ELSE AllTasks
Workers == AllTasks \cup Objects

Rest(at) == [at |-> at, id |-> None, session |-> None]
Holding(at, o) == [Rest(at) EXCEPT !.session = o]
Empty == [i \in Ids |-> None]
\* The counters of the two directions are used alike: pending stands for both.
UdpRelaySession(i) == [id |-> i, closed |-> FALSE, idle |-> 0, pending |-> 0]

Init ==
  /\ kind \in {"hysteria2", "tuic"}
  /\ connection = "open"
  /\ handler = "run"
  /\ revoked = FALSE
  /\ active = 0
  /\ table = Empty
  /\ session = [o \in Objects |-> None]
  /\ worker = [w \in Workers |-> Rest(IF w \in Tasks THEN "read" ELSE "over")]
  /\ owed = [o \in Objects |-> 0]

-----------------------------------------------------------------------------
\* A step is described by the table, the workers, the sessions, the permits and
\* the debt it leaves; what it no longer refers to is dropped with it.
InTable(tb) == {tb[i] : i \in Ids} \ {None}

TableHeld(wk) ==
  \/ \E t \in Tasks : wk[t].at # "over"
  \/ ~hy2 /\ handler' = "run"

Unreferenced(tb, wk, ss) ==
  {o \in Objects : /\ ss[o] # None
                   /\ o \notin InTable(tb)
                   /\ \A w \in Workers : wk[w].session # o}

\* What is owed once the sessions os have recorded what they have pending.
flush_traffic(ow, os, ss) ==
  [o \in Objects |-> IF o \in os THEN ow[o] - ss[o].pending ELSE ow[o]]

\* Mutant: a session is dropped without its last batch.
DropForgets(ow, gone, ss) == ow

DropFlushes(ow, gone, ss) == flush_traffic(ow, gone, ss)

Leaves(tb, wk, ss, ac, ow) ==
  LET kept == IF TableHeld(wk) THEN tb ELSE Empty
      gone == Unreferenced(kept, wk, ss)
  IN  /\ table' = kept
      /\ worker' = wk
      /\ session' = [o \in Objects |-> IF o \in gone THEN None ELSE ss[o]]
      /\ active' = IF hy2 THEN ac - Cardinality(gone) ELSE ac
      /\ owed' = DropFlushes(ow, gone, ss)

Step(tb, wk, ss, ac, ow) == UNCHANGED setting /\ Leaves(tb, wk, ss, ac, ow)

Go(w, at) == [worker EXCEPT ![w].at = at]
Leave(w, at) == [worker EXCEPT ![w] = Rest(at)]

\* Only the worker moves.
Moves(wk) == Step(table, wk, session, active, owed)

touch(ss, o) == [ss EXCEPT ![o].idle = 0]
is_idle(ss, o) == ss[o].idle >= IdleTimeout

\* The tasks of TUIC end with the first error of a packet, the one of
\* Hysteria2 forgets it.
AfterError == IF hy2 THEN "read" ELSE "over"

-----------------------------------------------------------------------------
\* prune_udp_sessions and make_room_for_udp_session: the sessions to close.
Idle == {o \in InTable(table) : is_idle(session, o)}

Oldest(os) == {o \in os : \A p \in os : session[p].idle <= session[o].idle}

make_room ==
  LET busy == InTable(table) \ Idle
  IN  IF Cardinality(InTable(table)) < MaxSessions THEN {{}}
      ELSE IF Cardinality(busy) < MaxSessions THEN {Idle}
      ELSE {Idle \cup {o} : o \in Oldest(busy)}

Without(os) == [i \in Ids |-> IF table[i] \in os THEN None ELSE table[i]]

\* close() of some sessions, which records what they have pending.
Closed(os) ==
  [o \in Objects |->
     IF o \in os THEN [session[o] EXCEPT !.closed = TRUE, !.pending = 0]
     ELSE session[o]]

Prune(t) ==
  /\ hy2
  /\ worker[t].at = "read"
  /\ Idle # {}
  /\ Step(Without(Idle), worker, Closed(Idle), active, flush_traffic(owed, Idle, session))

-----------------------------------------------------------------------------
\* A task that reads packets. Only so many sessions are modelled at a time.
Making == {t \in Tasks : worker[t].at \in {"resolve", "bind"} /\ worker[t].session = None}
CanMake == hy2 \/ Cardinality(Making) < Cardinality({o \in Objects : session[o] = None})

\* A packet of a known session whose target may be another than the first one's.
ReadKnown(t, i) ==
  /\ hy2
  /\ worker[t].at = "read"
  /\ table[i] # None
  /\ \E at \in {"held", "resolve"} :
       Step(table, [worker EXCEPT ![t] = Holding(at, table[i])],
            touch(session, table[i]), active, owed)

ReadNew(t, i) ==
  /\ worker[t].at = "read"
  /\ CanMake
  /\ IF hy2
     THEN /\ table[i] = None
          /\ \E os \in make_room :
               Step(Without(os), [worker EXCEPT ![t] = [Rest("resolve") EXCEPT !.id = i]],
                    Closed(os), active, flush_traffic(owed, os, session))
     ELSE Moves([worker EXCEPT ![t] = [Rest("resolve") EXCEPT !.id = i]])

\* A fragment that does not fit the ones before it ends the task; in TUIC so
\* does a packet whose outbound fails. An outbound's packets have no session.
ReadFails(t) == worker[t].at = "read" /\ Moves(Leave(t, "over"))

Dissociate(t, i) ==
  /\ ~hy2
  /\ worker[t].at = "read"
  /\ table[i] # None
  /\ Step([table EXCEPT ![i] = None], worker,
          [session EXCEPT ![table[i]].closed = TRUE], active, owed)

\* The connection is closed, or the user revoked.
Stop(t) ==
  /\ worker[t].at = "read"
  /\ connection = "closed" \/ revoked
  /\ Moves(Leave(t, "over"))

Found(i) == table[i] # None /\ (hy2 \/ ~session[table[i]].closed)

Resolve(t) ==
  /\ worker[t].at = "resolve"
  /\ LET i == worker[t].id
     IN  \/ Moves(Leave(t, AfterError))
         \/ worker[t].session # None /\ Moves(Go(t, "held"))
         \/ ~hy2 /\ Found(i) /\ Moves([worker EXCEPT ![t] = Holding("held", table[i])])
         \/ ~hy2 /\ ~Found(i) /\ Moves(Go(t, "bind"))
         \/ hy2 /\ worker[t].session = None /\ active < PermitLimit
              /\ Step(table, Go(t, "bind"), session, active + 1, owed)

Fresh == CHOOSE o \in Objects : session[o] = None

\* Mutant: the table is not looked at again after the bind.
FoundFirst(i) == FALSE

FoundAgain(i) == Found(i)

\* A permit that no session took over is dropped.
PermitDropped == IF hy2 THEN active - 1 ELSE active

BindFails(t) ==
  /\ worker[t].at = "bind"
  /\ Step(table, Leave(t, AfterError), session, PermitDropped, owed)

Bind(t) ==
  /\ worker[t].at = "bind"
  /\ LET i == worker[t].id
         o == IF FoundAgain(i) THEN table[i] ELSE Fresh
         held == [worker EXCEPT ![t] = Holding("held", o)]
     IN  IF FoundAgain(i)
         THEN Step(table, held, touch(session, o), PermitDropped, owed)
         ELSE Step([table EXCEPT ![i] = o],
                   [held EXCEPT ![o] = Holding("wait", o)],
                   [session EXCEPT ![o] = UdpRelaySession(i)], active, owed)

\* add_upload, add_download: a packet went through session o.
Counted(w, next) ==
  LET o == worker[w].session
      n == session[o].pending + 1
  IN  Step(table, IF n >= FlushBytes THEN Go(w, "flush") ELSE next,
           [touch(session, o) EXCEPT ![o].pending = n], active,
           [owed EXCEPT ![o] = @ + 1])

\* A user with a speed limit who is revoked is refused, as after an error.
Send(t) ==
  /\ worker[t].at = "held"
  /\ \/ Moves(Leave(t, AfterError))
     \/ hy2 /\ Counted(t, Leave(t, "read"))
     \/ ~hy2 /\ Moves(Leave(t, "read"))

\* The receiver's next round.
\* Mutant: it does not look whether its session was closed.
RoundUnchecked(o) == [worker EXCEPT ![o] = Holding("wait", o)]

Round(o) ==
  [worker EXCEPT ![o] = IF session[o].closed THEN Rest("over") ELSE Holding("wait", o)]

-----------------------------------------------------------------------------
\* What a swap takes belongs to one worker, which records it.
Flush(w) ==
  /\ worker[w].at = "flush"
  /\ LET o == worker[w].session
     IN  Step(table, IF w \in Tasks THEN Leave(w, "read") ELSE Round(w),
              [session EXCEPT ![o].pending = 0], active, flush_traffic(owed, {o}, session))

-----------------------------------------------------------------------------
\* receive_udp_replies. A reply is sent and counted, or too large for a
\* datagram, or the receiver ends: an error, or a user with a speed limit who is
\* revoked.
Receive(o) ==
  /\ worker[o].at = "wait"
  /\ \/ Moves(Leave(o, "over"))
     \/ Moves(Round(o))
     \/ hy2 /\ connection = "open" /\ Counted(o, Round(o))

Timer(o) ==
  /\ worker[o].at = "wait"
  /\ IF hy2 /\ (session[o].closed \/ is_idle(session, o))
     THEN /\ Step(table, Go(o, "flush"), [session EXCEPT ![o].closed = TRUE], active, owed)
     ELSE Moves(Round(o))

Woken == connection = "closed" \/ revoked

ReceiverEnds(o) ==
  /\ worker[o].at = "wait"
  /\ Woken
  /\ Moves(Leave(o, "over"))

-----------------------------------------------------------------------------
\* The connection's handler, and what the connection does not decide. In
\* Hysteria2 the handler does not hold the table: its end after the connection's
\* changes nothing.
HandlerEnds ==
  /\ handler = "run"
  /\ hy2 => connection = "open"
  /\ Woken
  /\ handler' = "over"
  /\ connection' = "closed"
  /\ UNCHANGED <<kind, revoked>>
  /\ Leaves(table, worker, session, active, owed)

CloseConnection ==
  /\ connection = "open"
  /\ connection' = "closed"
  /\ UNCHANGED <<kind, handler, revoked, active, table, session, worker, owed>>

Revoke ==
  /\ connection = "open"
  /\ ~revoked
  /\ revoked' = TRUE
  /\ UNCHANGED <<kind, connection, handler, active, table, session, worker, owed>>

Tick ==
  /\ hy2
  /\ \E o \in Objects : session[o] # None /\ ~is_idle(session, o)
  /\ session' = [o \in Objects |->
       IF session[o] = None \/ is_idle(session, o) THEN session[o]
       ELSE [session[o] EXCEPT !.idle = @ + 1]]
  /\ UNCHANGED <<setting, active, table, worker, owed>>

Task(t) ==
  \/ ReadFails(t) \/ Stop(t) \/ Prune(t)
  \/ \E i \in Ids : ReadKnown(t, i) \/ ReadNew(t, i) \/ Dissociate(t, i)
  \/ Resolve(t) \/ BindFails(t) \/ Bind(t) \/ Send(t) \/ Flush(t)

Receiver(o) ==
  \/ Receive(o) \/ Timer(o) \/ ReceiverEnds(o) \/ Flush(o)

Next ==
  \/ \E t \in Tasks : Task(t)
  \/ \E o \in Objects : Receiver(o)
  \/ HandlerEnds \/ CloseConnection \/ Revoke \/ Tick

Spec == Init /\ [][Next]_vars

\* A task goes on with a packet it has read, and select! takes a branch that is
\* ready again and again. A receiver's round ends, at the latest with its timer;
\* that it ends with the timer is not assumed, since replies may keep coming.
Busy(t) == Resolve(t) \/ BindFails(t) \/ Bind(t) \/ Send(t) \/ Flush(t)

Notices(o) == worker[o].at = "wait" /\ session[o].closed /\ (Receive(o) \/ Timer(o))

Fairness ==
  /\ \A t \in AllTasks : WF_vars(t \in Tasks /\ Busy(t))
                         /\ SF_vars(t \in Tasks /\ Stop(t)) /\ SF_vars(t \in Tasks /\ Prune(t))
  /\ \A o \in Objects : WF_vars(Notices(o)) /\ WF_vars(Flush(o)) /\ SF_vars(ReceiverEnds(o))
  /\ WF_vars(HandlerEnds)

FairSpec == Spec /\ Fairness

-----------------------------------------------------------------------------
\* The permits in use are those of the sessions that are alive and of a session
\* that is being made, and never more than the limit, whatever fails on the way
\* (hysteria2.rs 912-937, 1177-1199); and the room that is made before a name is
\* resolved is still there when the session is put into the table (910-944).
PermitsAreExact ==
  hy2 => /\ active = Cardinality({o \in Objects : session[o] # None})
                     + Cardinality({t \in Tasks : worker[t].at = "bind"})
         /\ active <= PermitLimit
         /\ Cardinality(InTable(table)) <= MaxSessions

\* What was forwarded through a session and is not recorded is pending in it, and
\* nothing is owed for a session that is gone: no interleaving of batches, closes
\* and drops loses or repeats a packet (hysteria2.rs 1129-1172).
TrafficIsKept ==
  \A o \in Objects : owed[o] = IF session[o] = None THEN 0 ELSE session[o].pending

\* A session that is open and received for is the one its id has in the table:
\* two tasks that make the session of one id at a time end up with one
\* (hysteria2.rs 932-945, tuic.rs 718-726).
OneSessionPerId ==
  (\E t \in Tasks : worker[t].at # "over") => \A o \in Objects :
    session[o] # None /\ ~session[o].closed /\ worker[o].session = o =>
      table[session[o].id] = o

\* Permits, table and sessions agree, whichever task of two that make a session
\* comes first and whatever fails on the way (hysteria2.rs 907-945).
SessionsAreExact == PermitsAreExact /\ OneSessionPerId

\* A session that was closed and has left the table is dropped in the end, and
\* with it its socket and its permit (hysteria2.rs 1431-1446, tuic.rs 956-971).
RemovedAreDropped ==
  \A o \in Objects :
    (session[o] # None /\ session[o].closed /\ o \notin InTable(table)) ~> (session[o] = None)

\* Nothing is left of a connection that was closed, by the client, by a timeout
\* or after a revocation (hysteria2.rs 743-748, 1437-1438, tuic.rs 432-438, 962-969).
EndDropsAll ==
  (connection = "closed") ~> \A o \in Objects : session[o] = None

\* A session that is silent for the idle timeout is used again or dropped, while
\* its connection reads packets (hysteria2.rs 749-754, 1245-1263).
IdleAreDropped ==
  \A o \in Objects :
    (hy2 /\ session[o] # None /\ is_idle(session, o))
      ~> (session[o] = None \/ ~is_idle(session, o) \/ worker["datagrams"].at = "over")

\* No session outlives its use: not its removal from the table, not the end of
\* its connection, not the idle timeout.
SessionsAreDropped == RemovedAreDropped /\ EndDropsAll /\ IdleAreDropped
=============================================================================
