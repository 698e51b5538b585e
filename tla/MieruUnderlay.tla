---------------------------- MODULE MieruUnderlay ----------------------------
(***************************************************************************)
(* The sessions that share one Mieru connection (mieru.rs). The handler of *)
(* the connection reads segments and hands them to the jobs of their       *)
(* sessions; the jobs run on the relay pool and report their ends to the   *)
(* handler, which alone changes the two tables. An opening is one session  *)
(* from its open request on; the client picks its id.                      *)
(***************************************************************************)
EXTENDS Naturals, Sequences, FiniteSets, SequencesExt

CONSTANTS
  Openings,    \* the openings of a behaviour
  Ids,         \* session ids the client uses, 0 is reserved
  MaxData,     \* data segments of an opening
  MaxWire,     \* segments under way to the handler
  None

VARIABLES
  client,      \* whether it is "there" or "gone"
  wire,        \* segments under way to the handler
  id,          \* the id of an opening, None before it
  sent,        \* data segments the client has sent in it
  closing,     \* openings the client has closed
  loop,        \* the handler: "ends", "segment", "join", "drop", "returned" or "failed"
  sessions,    \* id -> the opening whose channel it has
  workers,     \* id -> the opening whose job it has
  joining,     \* the opening whose job the handler waits for
  done,        \* ends of jobs the handler has not read
  inbox,       \* the channel of an opening
  job,         \* of an opening: "none", "serves", "leaves" or "over"
  closed,      \* its input is over
  received,    \* history: data segments it has read
  told         \* history: openings whose client was sent a close request or response

vars == <<client, wire, id, sent, closing, loop, sessions, workers, joining, done, inbox, job, closed, received, told>>

clients == <<client, id, sent, closing>>
tables == <<sessions, workers, joining>>
jobs == <<job, closed, received>>

-----------------------------------------------------------------------------
Empty == [i \in Ids |-> None]

\* The first session is open.
Init ==
  /\ client = "there" /\ wire = <<>>
  /\ \E first \in Openings, i \in Ids :
       /\ id = [o \in Openings |-> IF o = first THEN i ELSE None]
       /\ job = [o \in Openings |-> IF o = first THEN "serves" ELSE "none"]
       /\ sessions = [Empty EXCEPT ![i] = first] /\ workers = sessions
  /\ sent = [o \in Openings |-> 0] /\ closing = {}
  /\ loop = "ends" /\ joining = None /\ done = <<>>
  /\ inbox = [o \in Openings |-> <<>>]
  /\ closed = [o \in Openings |-> FALSE]
  /\ received = [o \in Openings |-> 0] /\ told = {}

Segment(type, o, n) == [type |-> type, opening |-> o, n |-> n]

(* The client. It does not use the id of a session again before the handler *)
(* has read the end of that session's job, and is then done with it.        *)

Sends(s) ==
  /\ client = "there" /\ Len(wire) < MaxWire
  /\ wire' = Append(wire, s)
  /\ UNCHANGED <<client, loop, tables, done, inbox, jobs, told>>

Fresh(i) == \A o \in Openings : id[o] = i => job[o] = "over" /\ workers[i] # o

Open(o, i) ==
  /\ id[o] = None /\ (i = 0 \/ Fresh(i))
  /\ id' = [id EXCEPT ![o] = i]
  /\ closing' = closing \cup {p \in Openings : id[p] = i}
  /\ Sends(Segment("open", o, 0)) /\ UNCHANGED sent

Data(o) ==
  /\ id[o] # None /\ o \notin closing /\ sent[o] < MaxData
  /\ sent' = [sent EXCEPT ![o] = @ + 1]
  /\ Sends(Segment("data", o, sent'[o])) /\ UNCHANGED <<id, closing>>

\* A request, or the response to one.
Close(o) ==
  /\ id[o] # None /\ o \notin closing
  /\ closing' = closing \cup {o}
  /\ \E t \in {"close", "closed"} : Sends(Segment(t, o, 0))
  /\ UNCHANGED <<id, sent>>

Leave ==
  /\ client = "there" /\ client' = "gone"
  /\ UNCHANGED <<wire, id, sent, closing, loop, tables, done, inbox, jobs, told>>

-----------------------------------------------------------------------------
(* The handler.                                                            *)

\* Its return drops the channels and lets go of the jobs.
Return(at) ==
  /\ loop' = at
  /\ sessions' = Empty /\ workers' = Empty /\ joining' = None

\* Mutant: the end of a job that failed is not passed on.
TellsNobody(e) == told

TellsOfFailure(e) == IF e.ok THEN told ELSE told \cup {e.opening}

\* An end is read: the handler waits for the job that is in the table.
TakeEnd ==
  /\ loop = "ends" /\ done # <<>>
  /\ \E e \in {Head(done)} :
       /\ sessions' = [sessions EXCEPT ![e.id] = None]
       /\ workers' = [workers EXCEPT ![e.id] = None]
       /\ joining' = workers[e.id]
       /\ told' = TellsOfFailure(e)
  /\ loop' = "join" /\ done' = Tail(done)
  /\ UNCHANGED <<clients, wire, inbox, jobs>>

Over(o) == o # None => job[o] = "over"

join_native_blocking_relay ==
  /\ loop = "join" /\ Over(joining)
  /\ loop' = "ends" /\ joining' = None
  /\ UNCHANGED <<clients, wire, sessions, workers, done, inbox, jobs, told>>

\* With no session for MIERU_UNDERLAY_IDLE_TIMEOUT it stops reading.
NoMoreEnds ==
  /\ loop = "ends" /\ done = <<>>
  /\ \/ loop' = "segment"
     \/ sessions = Empty /\ loop' = "drop"
  /\ UNCHANGED <<clients, wire, tables, done, inbox, jobs, told>>

spawn_mieru_session(o) ==
  /\ UNCHANGED told
  /\ \/ /\ id[o] # 0 /\ sessions[id[o]] = None
        /\ sessions' = [sessions EXCEPT ![id[o]] = o]
        /\ workers' = [workers EXCEPT ![id[o]] = o]
        /\ job' = [job EXCEPT ![o] = "serves"]
        /\ loop' = "ends" /\ UNCHANGED <<joining, inbox>>
     \/ \* a reserved id, one that is taken, or no thread for the job
        /\ Return("failed") /\ UNCHANGED <<job, inbox>>

\* A data segment of a session that is gone is answered with a close request.
Pass(s) ==
  /\ loop' = "ends" /\ UNCHANGED <<tables, job>>
  /\ \E i \in {id[s.opening]} :
       IF i # 0 /\ sessions[i] # None
       THEN inbox' = [inbox EXCEPT ![sessions[i]] = Append(@, s)] /\ UNCHANGED told
       ELSE told' = told \cup {s.opening} /\ UNCHANGED inbox

CloseSession(s) ==
  /\ loop' = "ends" /\ UNCHANGED <<workers, joining, job>>
  /\ told' = IF s.type = "close" THEN told \cup {s.opening} ELSE told
  /\ \E i \in {id[s.opening]} :
       IF i # 0 /\ sessions[i] # None
       THEN /\ inbox' = [inbox EXCEPT ![sessions[i]] = Append(@, s)]
            /\ sessions' = [sessions EXCEPT ![i] = None]
       ELSE UNCHANGED <<inbox, sessions>>

dispatch_mieru_segment ==
  /\ loop = "segment" /\ wire # <<>>
  /\ wire' = Tail(wire)
  /\ \E s \in {Head(wire)} :
       CASE s.type = "open" -> spawn_mieru_session(s.opening)
         [] s.type = "data" -> Pass(s)
         [] OTHER -> CloseSession(s)
  /\ UNCHANGED <<clients, done, closed, received>>

\* No segment yet; the end of the connection; or what cannot be read.
NoSegment ==
  /\ loop = "segment"
  /\ \/ wire = <<>> /\ client = "there" /\ loop' = "ends" /\ UNCHANGED tables
     \/ wire = <<>> /\ client = "gone" /\ loop' = "drop" /\ UNCHANGED tables
     \/ client = "gone" /\ Return("failed")
  /\ UNCHANGED <<clients, wire, done, inbox, jobs, told>>

\* The channels are dropped and all jobs waited for.
handle_tcp_client_returns ==
  /\ loop = "drop"
  /\ IF sessions # Empty
     THEN sessions' = Empty /\ UNCHANGED <<loop, workers, joining>>
     ELSE (\A i \in Ids : Over(workers[i])) /\ Return("returned")
  /\ UNCHANGED <<clients, wire, done, inbox, jobs, told>>

Handler ==
  \/ TakeEnd \/ join_native_blocking_relay \/ NoMoreEnds \/ dispatch_mieru_segment \/ NoSegment
  \/ handle_tcp_client_returns

-----------------------------------------------------------------------------
(* The jobs.                                                               *)

Connected(o) == sessions[id[o]] = o

\* MieruSessionReader: a segment, or the end of the channel.
Read(o) ==
  /\ job[o] = "serves" /\ ~closed[o]
  /\ \/ /\ inbox[o] # <<>> /\ inbox' = [inbox EXCEPT ![o] = Tail(@)]
        /\ IF Head(inbox[o]).type = "data"
           THEN received' = [received EXCEPT ![o] = @ + 1] /\ UNCHANGED closed
           ELSE closed' = [closed EXCEPT ![o] = TRUE] /\ UNCHANGED received
     \/ /\ inbox[o] = <<>> /\ ~Connected(o)
        /\ closed' = [closed EXCEPT ![o] = TRUE] /\ UNCHANGED <<inbox, received>>
  /\ UNCHANGED <<clients, wire, loop, tables, done, job, told>>

\* The job reports its end, to a handler that is there. One that ends well has
\* sent its client a close request, unless its user was revoked, and the
\* connection shut, before its first bytes were passed on.
Ends(o, ok) ==
  /\ job[o] = "serves"
  /\ job' = [job EXCEPT ![o] = "leaves"]
  /\ \/ ok /\ told' = told \cup {o}
     \/ (ok => client = "gone") /\ UNCHANGED told
  /\ done' = IF loop \in {"returned", "failed"} THEN done
             ELSE Append(done, [id |-> id[o], opening |-> o, ok |-> ok])
  /\ UNCHANGED <<clients, wire, loop, tables, inbox, closed, received>>

\* Once the input is over the remote is told, and closes.
EndsAfterInput(o) == closed[o] /\ \E ok \in BOOLEAN : Ends(o, ok)

EndsBefore(o) == ~closed[o] /\ \E ok \in BOOLEAN : Ends(o, ok)

Leaves(o) ==
  /\ job[o] = "leaves" /\ job' = [job EXCEPT ![o] = "over"]
  /\ UNCHANGED <<clients, wire, loop, tables, done, inbox, closed, received, told>>

Job(o) == Read(o) \/ EndsAfterInput(o) \/ Leaves(o)

Next ==
  \/ \E o \in Openings : (\E i \in Ids \cup {0} : Open(o, i)) \/ Data(o) \/ Close(o)
  \/ Leave
  \/ Handler
  \/ \E o \in Openings : Job(o) \/ EndsBefore(o)

Spec == Init /\ [][Next]_vars

\* The handler goes on, a job reads its channel and ends once its input is over.
Fairness == WF_vars(Handler) /\ \A o \in Openings : WF_vars(Job(o))

FairSpec == Spec /\ Fairness

-----------------------------------------------------------------------------
Serving == {o \in Openings : job[o] = "serves"}
Loops == loop \in {"ends", "segment", "join"}

Numbers(s) == [k \in DOMAIN s |-> s[k].n]
DataOf(s, o) == SelectSeq(s, LAMBDA x : x.type = "data" /\ x.opening = o)

\* What a job has read and what waits for it is what its own client sent in it,
\* in order and without a gap; nothing of it is lost while the session is open;
\* a job whose session is not in the table any more has its end before it; and a
\* handler that returns well leaves no job behind.
SessionsAreSeparate ==
  /\ loop = "returned" => Serving = {}
  /\ \A o \in Serving :
       /\ \A k \in DOMAIN inbox[o] : inbox[o][k].opening = o
       /\ \E n \in 0 .. MaxData :
            Numbers(DataOf(inbox[o], o)) = [k \in 1 .. n |-> received[o] + k]
       /\ Loops /\ Connected(o) =>
            /\ workers[id[o]] = o
            /\ received[o] + Len(DataOf(inbox[o], o)) + Len(DataOf(wire, o)) = sent[o]
       /\ Loops /\ ~Connected(o) =>
            closed[o] \/ (inbox[o] # <<>> /\ Last(inbox[o]).type # "data")

\* The handler of a connection that is closed returns, though jobs still serve
\* when it closes; every job ends whose connection is over; and a client that
\* stays is told of the end of each session.
SessionsEnd ==
  /\ []<>(client = "there" \/ loop \in {"returned", "failed"})
  /\ []<>(loop \notin {"returned", "failed"} \/ Serving = {})
  /\ \A o \in Openings : []<>(job[o] # "over" \/ o \in told \/ ~Loops)
=============================================================================
