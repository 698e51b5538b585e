--------------------------- MODULE NativeRelayPool ---------------------------
(***************************************************************************)
(* The pool of threads that run blocking relays (stream.rs                 *)
(* NativeRelayPool). Jobs wait in one queue, at most SoftLimit jobs of a   *)
(* label run at a time, threads are made on demand up to MaxWorkers and    *)
(* leave after an idle timeout. A job may submit another one, its upload,  *)
(* and wait for it while it keeps its own thread. What is read and written *)
(* under the lock of the queue is one step; the counters outside it are    *)
(* read one at a time.                                                     *)
(***************************************************************************)
EXTENDS Naturals, Sequences, FiniteSets

CONSTANTS
  Submitters,     \* each submits one job, and names it
  Label,          \* submitter -> the label of its job
  Parent,         \* submitter -> the job that submits it and waits for it, or None
  MaxWorkers,
  SoftLimit,
  None

ASSUME PoolAssumption ==
  MaxWorkers \in Nat \ {0} /\ SoftLimit \in 1..MaxWorkers
ASSUME SubmittersAssumption == IsFiniteSet(Submitters)

Labels == {Label[s] : s \in Submitters}
Workers == 1..MaxWorkers       \* the threads, by a number that is used again

VARIABLES
  jobs,           \* the queue
  active,         \* active_by_label
  worker_count, idle_count, pending_count,
  pc,             \* of a submitter
  seen,           \* the pending, then the deficit, then the spawns it counts
  thread,         \* of a worker: "none", "scan", "wait", "timed_out",
                  \* "notified", "took", "run", "ran", "exit"
  job,            \* the job a worker has
  over            \* the jobs whose result has been sent

counters == <<worker_count, idle_count, pending_count>>
queue == <<jobs, active>>
submitter == <<pc, seen>>
worker == <<thread, job, over>>
vars == <<queue, counters, submitter, worker>>

-----------------------------------------------------------------------------
Init ==
  /\ jobs = << >>
  /\ active = [l \in Labels |-> 0]
  /\ worker_count = 0
  /\ idle_count = 0
  /\ pending_count = 0
  /\ pc = [s \in Submitters |-> "submit"]
  /\ seen = [s \in Submitters |-> 0]
  /\ thread = [w \in Workers |-> "none"]
  /\ job = [w \in Workers |-> None]
  /\ over = {}

Goto(s, label) == pc' = [pc EXCEPT ![s] = label]
Become(w, state) == thread' = [thread EXCEPT ![w] = state]

saturating_sub(a, b) == IF a > b THEN a - b ELSE 0

\* The task of job s is being carried out.
Running(s) == \E w \in Workers : thread[w] = "run" /\ job[w] = s

\* submit_named: no thread is made when there is one.
ensure_worker_available(s) ==
  /\ pc[s] = "submit"
  /\ Parent[s] # None => Running(Parent[s])
  /\ Goto(s, IF worker_count > 0 THEN "count" ELSE "spawn_first")
  /\ UNCHANGED <<queue, counters, seen, worker>>

\* The first number that is free: numbers only tell threads apart.
Unused(w) == thread[w] = "none" /\ \A v \in Workers : v < w => thread[v] # "none"

\* spawn_worker gives way at the limit; otherwise there is a new thread, or
\* the system has none.
NewWorker ==
  /\ worker_count < MaxWorkers
  /\ worker_count' = worker_count + 1
  /\ \E w \in Workers : Unused(w) /\ Become(w, "scan")

spawn_worker(s) ==
  /\ pc[s] = "spawn_first"
  /\ \/ NewWorker /\ Goto(s, "count")
     \/ worker_count >= MaxWorkers /\ Goto(s, "count") /\ UNCHANGED <<worker_count, thread>>
  /\ UNCHANGED <<queue, idle_count, pending_count, seen, job, over>>

SpawnFails(s) ==
  /\ pc[s] = "spawn_first"
  /\ worker_count < MaxWorkers
  /\ Goto(s, "failed")
  /\ UNCHANGED <<queue, counters, seen, worker>>

Count(s) ==
  /\ pc[s] = "count"
  /\ pending_count' = pending_count + 1
  /\ Goto(s, "push")
  /\ UNCHANGED <<queue, worker_count, idle_count, seen, worker>>

Push(s) ==
  /\ pc[s] = "push"
  /\ jobs' = Append(jobs, s)
  /\ Goto(s, "notify")
  /\ UNCHANGED <<active, counters, seen, worker>>

Waiters == {w \in Workers : thread[w] = "wait"}

notify_one(s) ==
  /\ pc[s] = "notify"
  /\ \/ \E w \in Waiters : Become(w, "notified")
     \/ Waiters = {} /\ UNCHANGED thread
  /\ Goto(s, "read_pending")
  /\ UNCHANGED <<queue, counters, seen, job, over>>

\* spawn_extra_worker_if_needed reads three counters in turn.
ReadPending(s) ==
  /\ pc[s] = "read_pending"
  /\ seen' = [seen EXCEPT ![s] = pending_count]
  /\ Goto(s, "read_idle")
  /\ UNCHANGED <<queue, counters, worker>>

ReadIdle(s) ==
  /\ pc[s] = "read_idle"
  /\ seen' = [seen EXCEPT ![s] = saturating_sub(@, idle_count)]
  /\ Goto(s, "read_workers")
  /\ UNCHANGED <<queue, counters, worker>>

ReadWorkers(s) ==
  LET capacity == saturating_sub(MaxWorkers, worker_count)
  IN  /\ pc[s] = "read_workers"
      /\ seen' = [seen EXCEPT ![s] = IF @ < capacity THEN @ ELSE capacity]
      /\ Goto(s, "spawn_extra")
      /\ UNCHANGED <<queue, counters, worker>>

SpawnExtra(s) ==
  /\ pc[s] = "spawn_extra"
  /\ seen[s] > 0
  /\ \/ NewWorker
     \/ UNCHANGED <<worker_count, thread>>
  /\ seen' = [seen EXCEPT ![s] = @ - 1]
  /\ UNCHANGED <<queue, idle_count, pending_count, pc, job, over>>

Submitted(s) ==
  /\ pc[s] = "spawn_extra"
  /\ seen[s] = 0
  /\ Goto(s, "submitted")
  /\ UNCHANGED <<queue, counters, seen, worker>>

-----------------------------------------------------------------------------
remove(q, i) == SubSeq(q, 1, i - 1) \o SubSeq(q, i + 1, Len(q))

Runnable == {i \in DOMAIN jobs : active[Label[jobs[i]]] < SoftLimit}

\* With the lock held: the first job whose label is below its limit is
\* taken, or the worker, no longer one of those that wait, waits (again).
Scan(w, waited) ==
  \/ \E i \in Runnable :
       /\ \A k \in Runnable : i <= k
       /\ jobs' = remove(jobs, i)
       /\ active' = [active EXCEPT ![Label[jobs[i]]] = @ + 1]
       /\ job' = [job EXCEPT ![w] = jobs[i]]
       /\ Become(w, "took")
       /\ idle_count' = idle_count - waited
  \/ /\ Runnable = {}
     /\ Become(w, "wait")
     /\ idle_count' = idle_count + 1 - waited
     /\ UNCHANGED <<jobs, active, job>>

wait_for_job(w) ==
  /\ thread[w] = "scan"
  /\ Scan(w, 0)
  /\ UNCHANGED <<worker_count, pending_count, submitter, over>>

\* The idle timeout is over before the worker is notified.
TimeOut(w) ==
  /\ thread[w] = "wait"
  /\ Become(w, "timed_out")
  /\ UNCHANGED <<queue, counters, submitter, job, over>>

\* A worker has the lock again. If it timed out and there is nothing to do
\* or about to be, it leaves.
Leaves(w) ==
  /\ thread[w] = "timed_out"
  /\ jobs = << >>
  /\ pending_count = 0
  /\ idle_count' = idle_count - 1
  /\ Become(w, "exit")
  /\ UNCHANGED <<queue, worker_count, pending_count, submitter, job, over>>

\* Mutant: a worker that timed out waits again without a look at the queue.
ResumesBlindly(w) ==
  /\ \/ thread[w] = "notified" /\ Scan(w, 1)
     \/ /\ thread[w] = "timed_out"
        /\ ~ (jobs = << >> /\ pending_count = 0)
        /\ Become(w, "wait")
        /\ UNCHANGED <<queue, idle_count, job>>
  /\ UNCHANGED <<worker_count, pending_count, submitter, over>>

Resumes(w) ==
  /\ \/ thread[w] = "notified"
     \/ thread[w] = "timed_out" /\ ~ (jobs = << >> /\ pending_count = 0)
  /\ Scan(w, 1)
  /\ UNCHANGED <<worker_count, pending_count, submitter, over>>

\* Mutant: the worker goes on being counted.
ExitCounted(w) ==
  /\ thread[w] = "exit"
  /\ Become(w, "none")
  /\ UNCHANGED <<queue, counters, submitter, job, over>>

Exit(w) ==
  /\ thread[w] = "exit"
  /\ worker_count' = worker_count - 1
  /\ Become(w, "none")
  /\ UNCHANGED <<queue, idle_count, pending_count, submitter, job, over>>

Run(w) ==
  /\ thread[w] = "took"
  /\ pending_count' = pending_count - 1
  /\ Become(w, "run")
  /\ UNCHANGED <<queue, worker_count, idle_count, submitter, job, over>>

\* A task that has submitted a job of its own waits for the result.
Joined(s) ==
  \A c \in Submitters : Parent[c] = s =>
    pc[c] \in {"submit", "failed"} \/ (pc[c] = "submitted" /\ c \in over)

\* The task returns or panics, and whoever waits for it is told.
SendResult(w) ==
  /\ thread[w] = "run"
  /\ Joined(job[w])
  /\ over' = over \cup {job[w]}
  /\ Become(w, "ran")
  /\ UNCHANGED <<queue, counters, submitter, job>>

\* The guard of the job's label is dropped. If jobs wait, so does the news
\* for everyone.
finish_job_label(w) ==
  /\ thread[w] = "ran"
  /\ active' = [active EXCEPT ![Label[job[w]]] = saturating_sub(@, 1)]
  /\ job' = [job EXCEPT ![w] = None]
  /\ thread' = [v \in Workers |->
       CASE v = w -> "scan"
         [] v # w /\ v \in Waiters /\ jobs # << >> -> "notified"
         [] OTHER -> thread[v]]
  /\ UNCHANGED <<jobs, counters, submitter, over>>

Submit(s) ==
  \/ ensure_worker_available(s)
  \/ spawn_worker(s)
  \/ SpawnFails(s)
  \/ Count(s)
  \/ Push(s)
  \/ notify_one(s)
  \/ ReadPending(s)
  \/ ReadIdle(s)
  \/ ReadWorkers(s)
  \/ SpawnExtra(s)
  \/ Submitted(s)

run_worker(w) ==
  \/ wait_for_job(w)
  \/ TimeOut(w)
  \/ Leaves(w)
  \/ Resumes(w)
  \/ Exit(w)
  \/ Run(w)
  \/ SendResult(w)
  \/ finish_job_label(w)

Next ==
  \/ \E s \in Submitters : Submit(s)
  \/ \E w \in Workers : run_worker(w)

Spec == Init /\ [][Next]_vars

\* Threads run, waits time out, and relays end: their sockets have timeouts.
FairSpec ==
  /\ Spec
  /\ \A s \in Submitters : WF_vars(Submit(s) /\ pc[s] # "submit")
  /\ \A w \in Workers : WF_vars(run_worker(w))

-----------------------------------------------------------------------------
Stages ==
  {"submit", "spawn_first", "count", "push", "notify", "read_pending", "read_idle",
   "read_workers", "spawn_extra", "submitted", "failed"}

States ==
  {"none", "scan", "wait", "timed_out", "notified", "took", "run", "ran", "exit"}

\* The variables hold values of their types: no counter goes below zero, and a
\* worker that has taken a job has one (stream.rs:1925-2045).
TypeOK ==
  /\ jobs \in Seq(Submitters)
  /\ active \in [Labels -> Nat]
  /\ worker_count \in Nat /\ idle_count \in Nat /\ pending_count \in Nat
  /\ pc \in [Submitters -> Stages]
  /\ seen \in [Submitters -> Nat]
  /\ thread \in [Workers -> States]
  /\ job \in [Workers -> Submitters \cup {None}]
  /\ over \subseteq Submitters
  /\ \A w \in Workers : thread[w] \in {"took", "run", "ran"} => job[w] \in Submitters

In(states) == {w \in Workers : thread[w] \in states}

\* The counters that are kept outside the lock are exact: each is the number
\* of threads or jobs it stands for, in every interleaving of submitters and
\* workers, so none of the subtractions wraps (stream.rs:1948-1972, 1974-
\* 1985, 2007-2013); and no label has more jobs running than its limit, although
\* labels are counted apart from running the job (stream.rs:2025-2045).
CountersAreExact ==
  /\ worker_count = Cardinality(Workers \ In({"none"}))
  /\ idle_count = Cardinality(In({"wait", "timed_out", "notified"}))
  /\ pending_count =
       Len(jobs) + Cardinality({s \in Submitters : pc[s] = "push"}) + Cardinality(In({"took"}))
  /\ \A l \in Labels :
       Cardinality({w \in In({"took", "run", "ran"}) : Label[job[w]] = l}) <= SoftLimit

Queued(s) == \E i \in DOMAIN jobs : jobs[i] = s

\* Every thread there is waits for a job that its own task has submitted, and
\* there is room for one more that nobody is going to make.
Stranded ==
  /\ In({"none"}) # {}
  /\ \A w \in Workers \ In({"none"}) : thread[w] = "run" /\ ~Joined(job[w])

\* A job is taken by some worker unless a worker has left while it was
\* submitted: nobody sleeps through a job (stream.rs:1908, 2038-2043), a worker
\* that times out looks again (stream.rs:2016-2021), and jobs that wait for their
\* own uploads on the threads of the pool leave one thread to them, because the
\* limit of their label is below that of the pool (stream.rs:2025-2030, 2095-
\* 2098, mieru.rs:1812-1833, vmess.rs:2559-2600).
QueuedJobsRun == \A s \in Submitters : []<>(~ Queued(s) \/ Stranded)

-----------------------------------------------------------------------------
\* Beside the pool, one use of an outbound, whose bridge is a job of the pool.
CONSTANTS Configs, MaxResets

VARIABLES outbound, udp, steps, result, resets, task, ready, bridge, user, server, told

Use == INSTANCE Outbounds WITH worker <- task

\* An outbound that validation accepts is one its connector can use (config.rs
\* 370-672, and the connectors of outbound.rs, trojan.rs, vless.rs, vmess.rs
\* and shadowsocks.rs): no connect is refused for the configuration alone.
AcceptedOutboundsWork == Use!AcceptedOutboundsWork

\* Whatever the server does, a caller gets its stream, its datagram or an
\* error, where the answer is waited for with a timeout (outbound.rs 212-324,
\* http2.rs 104-157, grpc.rs 99-143, quic.rs 20-66); workers and bridges come
\* to an end once nobody uses them, unless the server is silent for good or was
\* never told (http2.rs 227-355, trojan.rs 3757-3990).
ConnectsEnd == Use!ConnectsEnd
=============================================================================
