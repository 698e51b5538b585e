------------------------ MODULE NativeRelayPoolProofs ------------------------
(***************************************************************************)
(* The counters of the relay pool are exact, for any number of submitters, *)
(* labels and threads. The limit of a label is kept because the count of   *)
(* the label, which is what the queue is searched with, is itself exact: a *)
(* worker counts there from the moment it takes a job until the guard of   *)
(* the label is dropped, after the job's result has been sent. At the end  *)
(* the connectors of the outbounds, whose bridges run on the pool.         *)
(***************************************************************************)
EXTENDS NativeRelayPool, FiniteSetTheorems, TLAPS

Occupied == {"took", "run", "ran"}
Idling == {"wait", "timed_out", "notified"}

\* The workers whose job has label l.
Has(l) == {w \in In(Occupied) : Label[job[w]] = l}

LabelsAreExact ==
  \A l \in Labels : active[l] = Cardinality(Has(l)) /\ active[l] <= SoftLimit

ThreadsAreExact ==
  /\ worker_count = Cardinality(In(States \ {"none"}))
  /\ idle_count = Cardinality(In(Idling))

Pushing == {s \in Submitters : pc[s] = "push"}

PendingIsExact == pending_count = Len(jobs) + Cardinality(Pushing) + Cardinality(In({"took"}))

IInv == TypeOK /\ ThreadsAreExact /\ PendingIsExact /\ LabelsAreExact

-----------------------------------------------------------------------------
(* Sets of workers and of submitters, and what one of them adds.           *)

LEMMA WorkersFinite ==
  ASSUME NEW S \in SUBSET Workers
  PROVE  IsFiniteSet(S) /\ Cardinality(S) \in Nat
<1>1. IsFiniteSet(Workers)
  BY FS_Interval, PoolAssumption DEF Workers
<1>2. IsFiniteSet(S)
  BY <1>1, FS_Subset
<1> QED
  BY <1>2, FS_CardinalityType

LEMMA SubmittersFinite ==
  ASSUME NEW S \in SUBSET Submitters
  PROVE  IsFiniteSet(S) /\ Cardinality(S) \in Nat
<1>1. IsFiniteSet(S)
  BY FS_Subset, SubmittersAssumption
<1> QED
  BY <1>1, FS_CardinalityType

\* The size of a set that may differ from another one in x only.
LEMMA OneDiffers ==
  ASSUME NEW S, NEW T, NEW x, IsFiniteSet(S), IsFiniteSet(T), S \ {x} = T \ {x}
  PROVE  Cardinality(T) = (Cardinality(S) - (IF x \in S THEN 1 ELSE 0)) + (IF x \in T THEN 1 ELSE 0)
<1>1. Cardinality(S) \in Nat /\ Cardinality(T) \in Nat
  BY FS_CardinalityType
<1>2. Cardinality(S \ {x}) = IF x \in S THEN Cardinality(S) - 1 ELSE Cardinality(S)
  BY FS_RemoveElement
<1>3. Cardinality(T \ {x}) = IF x \in T THEN Cardinality(T) - 1 ELSE Cardinality(T)
  BY FS_RemoveElement
<1> QED
  BY <1>1, <1>2, <1>3

\* A worker changes its state: what becomes of the number of workers in S.
LEMMA BecomeCounts ==
  ASSUME TypeOK, NEW w \in Workers, NEW state \in States, Become(w, state), NEW CONSTANT S
  PROVE  Cardinality(In(S)') = (Cardinality(In(S)) - (IF thread[w] \in S THEN 1 ELSE 0))
                               + (IF state \in S THEN 1 ELSE 0)
<1>1. thread \in [Workers -> States] /\ thread' = [thread EXCEPT ![w] = state]
  BY DEF TypeOK, Become
<1>2. In(S) \in SUBSET Workers /\ In(S)' \in SUBSET Workers
  BY DEF In
<1>3. In(S) \ {w} = In(S)' \ {w}
  BY <1>1 DEF In
<1>4. (w \in In(S) <=> thread[w] \in S) /\ (w \in In(S)' <=> state \in S)
  BY <1>1 DEF In
<1>5. Cardinality(In(S)') = (Cardinality(In(S)) - (IF w \in In(S) THEN 1 ELSE 0))
                            + (IF w \in In(S)' THEN 1 ELSE 0)
  BY <1>2, <1>3, WorkersFinite, OneDiffers
<1> QED
  BY <1>4, <1>5

\* Whether a submitter is between the count and the push.
LEMMA GotoCounts ==
  ASSUME TypeOK, NEW s \in Submitters, NEW label \in Stages, Goto(s, label)
  PROVE  Cardinality(Pushing') = (Cardinality(Pushing) - (IF pc[s] = "push" THEN 1 ELSE 0))
                                 + (IF label = "push" THEN 1 ELSE 0)
<1>1. pc \in [Submitters -> Stages] /\ pc' = [pc EXCEPT ![s] = label]
  BY DEF TypeOK, Goto
<1>2. Pushing \in SUBSET Submitters /\ Pushing' \in SUBSET Submitters
  BY DEF Pushing
<1>3. Pushing \ {s} = Pushing' \ {s}
  BY <1>1 DEF Pushing
<1>4. (s \in Pushing <=> pc[s] = "push") /\ (s \in Pushing' <=> label = "push")
  BY <1>1 DEF Pushing
<1>5. Cardinality(Pushing') = (Cardinality(Pushing) - (IF s \in Pushing THEN 1 ELSE 0))
                              + (IF s \in Pushing' THEN 1 ELSE 0)
  BY <1>2, <1>3, SubmittersFinite, OneDiffers
<1> QED
  BY <1>4, <1>5

\* A job is taken out of the queue.
LEMMA RemoveShortens ==
  ASSUME NEW S, NEW q \in Seq(S), NEW i \in DOMAIN q
  PROVE  remove(q, i) \in Seq(S) /\ Len(remove(q, i)) = Len(q) - 1
<1>1. Len(q) \in Nat /\ i \in 1 .. Len(q) /\ \A k \in 1 .. Len(q) : q[k] \in S
  OBVIOUS
<1>2. SubSeq(q, 1, i - 1) \in Seq(S) /\ Len(SubSeq(q, 1, i - 1)) = i - 1
  BY <1>1
<1>3. SubSeq(q, i + 1, Len(q)) \in Seq(S) /\ Len(SubSeq(q, i + 1, Len(q))) = Len(q) - i
  BY <1>1
<1>4. /\ SubSeq(q, 1, i - 1) \o SubSeq(q, i + 1, Len(q)) \in Seq(S)
      /\ Len(SubSeq(q, 1, i - 1) \o SubSeq(q, i + 1, Len(q))) = (i - 1) + (Len(q) - i)
  BY <1>2, <1>3
<1>5. remove(q, i) = SubSeq(q, 1, i - 1) \o SubSeq(q, i + 1, Len(q))
  BY DEF remove
<1>6. (i - 1) + (Len(q) - i) = Len(q) - 1
  BY <1>1
<1> QED
  BY <1>4, <1>5, <1>6, Zenon

-----------------------------------------------------------------------------
LEMMA InitIInv == Init => IInv
<1> SUFFICES ASSUME Init PROVE IInv
  OBVIOUS
<1>1. TypeOK
  BY DEF Init, TypeOK, Stages, States
<1>2. In(States \ {"none"}) = {} /\ In(Idling) = {} /\ In({"took"}) = {} /\ Pushing = {}
  BY DEF Init, In, Idling, Pushing
<1>3. \A l : Has(l) = {}
  BY DEF Init, Has, In, Occupied
<1>4. ThreadsAreExact
  BY <1>2, FS_EmptySet, ZenonT(30) DEF Init, ThreadsAreExact
<1>5. PendingIsExact
  <2>1. Len(jobs) = 0 /\ pending_count = 0
    BY DEF Init
  <2>2. Cardinality(Pushing) = 0 /\ Cardinality(In({"took"})) = 0
    BY <1>2, FS_EmptySet
  <2> QED
    BY <2>1, <2>2 DEF PendingIsExact
<1>6. LabelsAreExact
  <2>1. \A l \in Labels : active[l] = 0 /\ active[l] <= SoftLimit
    BY PoolAssumption DEF Init
  <2>2. \A l : Cardinality(Has(l)) = 0
    BY <1>3, FS_EmptySet, Zenon
  <2> QED
    BY <2>1, <2>2 DEF LabelsAreExact
<1> QED
  BY <1>1, <1>4, <1>5, <1>6 DEF IInv

\* The labels are as before when the workers that have a job are, with it.
LEMMA LabelsKept ==
  ASSUME IInv, UNCHANGED active, \A l \in Labels : Has(l)' = Has(l)
  PROVE  LabelsAreExact'
BY DEF IInv, LabelsAreExact

\* A worker changes its state and keeps its job, or has none before and after.
LEMMA BecomeKeepsLabels ==
  ASSUME IInv, NEW w \in Workers, NEW state \in States, Become(w, state),
         UNCHANGED <<active, job>>, state \in Occupied <=> thread[w] \in Occupied
  PROVE  LabelsAreExact'
<1>1. thread \in [Workers -> States] /\ thread' = [thread EXCEPT ![w] = state]
  BY DEF IInv, TypeOK, Become
<1>2. In(Occupied)' = In(Occupied)
  BY <1>1 DEF In
<1> QED
  BY <1>2, LabelsKept DEF Has

\* A step of a submitter that leaves the workers and the queue alone.
LEMMA SubmitterStep ==
  ASSUME IInv, NEW s \in Submitters, NEW label \in Stages, Goto(s, label),
         label # "push", pc[s] # "push", seen' \in [Submitters -> Nat],
         UNCHANGED <<queue, counters, worker>>
  PROVE  IInv'
<1>1. TypeOK'
  BY ZenonT(30) DEF IInv, TypeOK, Goto, queue, counters, worker
<1>2. UNCHANGED <<jobs, active, worker_count, idle_count, pending_count, thread, job>>
  BY DEF queue, counters, worker
<1>3. ThreadsAreExact'
  BY <1>2 DEF IInv, ThreadsAreExact, In
<1>4. Pushing' = Pushing
  BY DEF Pushing, Goto, IInv, TypeOK
<1>5. PendingIsExact'
  BY <1>2, <1>4 DEF IInv, PendingIsExact, In
<1>6. LabelsAreExact'
  BY <1>2, LabelsKept DEF Has, In
<1> QED
  BY <1>1, <1>3, <1>5, <1>6 DEF IInv

\* The jobs on their way, when a worker changes its state.
LEMMA PendingStep ==
  ASSUME TypeOK, jobs' \in Seq(Submitters), pending_count' \in Int, PendingIsExact,
         NEW w \in Workers, NEW state \in States, Become(w, state), Pushing' = Pushing, NEW before \in Nat, NEW after \in Nat,
         before = IF thread[w] = "took" THEN 1 ELSE 0, after = IF state = "took" THEN 1 ELSE 0,
         pending_count' + Len(jobs) + before = pending_count + Len(jobs') + after
  PROVE  PendingIsExact' /\ pending_count' \in Nat
<1>1. Cardinality(In({"took"})') =
        (Cardinality(In({"took"})) - (IF thread[w] \in {"took"} THEN 1 ELSE 0))
        + (IF state \in {"took"} THEN 1 ELSE 0)
  BY BecomeCounts
<1>2. Cardinality(In({"took"})') = (Cardinality(In({"took"})) - before) + after
  BY <1>1
<1>3. Cardinality(In({"took"})) \in Nat /\ Cardinality(Pushing) \in Nat
  BY WorkersFinite, SubmittersFinite DEF In, Pushing
<1>4. Len(jobs) \in Nat /\ Len(jobs') \in Nat /\ pending_count \in Nat
  BY DEF TypeOK
<1>5. pending_count = Len(jobs) + Cardinality(Pushing) + Cardinality(In({"took"}))
  BY DEF PendingIsExact
<1>6. pending_count' = Len(jobs') + Cardinality(Pushing) + Cardinality(In({"took"})')
  <2> DEFINE took == Cardinality(In({"took"}))
             pushing == Cardinality(Pushing)
  <2>1. took \in Nat /\ pushing \in Nat /\ pending_count = Len(jobs) + pushing + took
    BY <1>3, <1>5
  <2> HIDE DEF took, pushing
  <2>2. pending_count' = Len(jobs') + pushing + ((took - before) + after)
    BY <1>4, <2>1, SMTT(30)
  <2> QED
    BY <1>2, <2>2 DEF took, pushing
<1>7. Cardinality(In({"took"})') \in Nat
  BY WorkersFinite DEF In
<1>8. pending_count' \in Nat
  BY <1>3, <1>4, <1>6, <1>7, SMTT(30)
<1> QED
  BY <1>6, <1>8 DEF PendingIsExact

\* The counts of the threads, when one of them changes its state.
LEMMA ThreadsStep ==
  ASSUME TypeOK, ThreadsAreExact, NEW w \in Workers, NEW state \in States, Become(w, state),
         worker_count' = (worker_count - (IF thread[w] # "none" THEN 1 ELSE 0))
                         + (IF state # "none" THEN 1 ELSE 0),
         idle_count' = (idle_count - (IF thread[w] \in Idling THEN 1 ELSE 0))
                       + (IF state \in Idling THEN 1 ELSE 0)
  PROVE  ThreadsAreExact' /\ worker_count' \in Nat /\ idle_count' \in Nat
<1> DEFINE live == States \ {"none"}
<1>1. thread[w] \in States
  BY DEF TypeOK
<1>2. (thread[w] \in live <=> thread[w] # "none") /\ (state \in live <=> state # "none")
  BY <1>1
<1>3. Cardinality(In(live)') = (Cardinality(In(live)) - (IF thread[w] \in live THEN 1 ELSE 0))
                               + (IF state \in live THEN 1 ELSE 0)
  BY BecomeCounts DEF States
<1>4. Cardinality(In(Idling)') = (Cardinality(In(Idling)) - (IF thread[w] \in Idling THEN 1 ELSE 0))
                                 + (IF state \in Idling THEN 1 ELSE 0)
  BY BecomeCounts DEF Idling
<1>5. ThreadsAreExact'
  BY <1>2, <1>3, <1>4 DEF ThreadsAreExact
<1>6. Cardinality(In(live)') \in Nat /\ Cardinality(In(Idling)') \in Nat
  BY WorkersFinite DEF In
<1> QED
  BY <1>5, <1>6 DEF ThreadsAreExact

\* No submitter comes to its push or leaves it.
SubmitterKept ==
  pc' \in [Submitters -> Stages] /\ seen' \in [Submitters -> Nat] /\ Pushing' = Pushing

LEMMA SubmitterUnchanged ==
  ASSUME IInv, UNCHANGED submitter
  PROVE  SubmitterKept
BY DEF SubmitterKept, IInv, TypeOK, submitter, Pushing

\* What is left to show when a worker changes its state.
LEMMA WorkerStep ==
  ASSUME IInv, NEW w \in Workers, NEW state \in States, Become(w, state),
         jobs' \in Seq(Submitters), active' \in [Labels -> Nat],
         job' \in [Workers -> Submitters \cup {None}], over' \subseteq Submitters,
         SubmitterKept,
         \A v \in Workers : thread'[v] \in Occupied => job'[v] \in Submitters,
         LabelsAreExact',
         worker_count' = (worker_count - (IF thread[w] # "none" THEN 1 ELSE 0))
                         + (IF state # "none" THEN 1 ELSE 0),
         idle_count' = (idle_count - (IF thread[w] \in Idling THEN 1 ELSE 0))
                       + (IF state \in Idling THEN 1 ELSE 0),
         pending_count' \in Int, NEW before \in Nat, NEW after \in Nat,
         before = IF thread[w] = "took" THEN 1 ELSE 0, after = IF state = "took" THEN 1 ELSE 0,
         pending_count' + Len(jobs) + before = pending_count + Len(jobs') + after
  PROVE  IInv'
<1>1. Pushing' = Pushing
  BY DEF SubmitterKept
<1>2. ThreadsAreExact' /\ worker_count' \in Nat /\ idle_count' \in Nat
  BY ThreadsStep DEF IInv
<1>3. PendingIsExact' /\ pending_count' \in Nat
  BY <1>1, PendingStep, SMTT(30) DEF IInv
<1>4. thread' \in [Workers -> States]
  BY DEF Become, IInv, TypeOK
<1>5. pc' \in [Submitters -> Stages] /\ seen' \in [Submitters -> Nat]
  BY DEF SubmitterKept
<1>6. TypeOK'
  BY <1>2, <1>3, <1>4, <1>5, SMTT(30) DEF TypeOK, Occupied
<1> QED
  BY <1>2, <1>3, <1>6, SMTT(30) DEF IInv

\* A worker that keeps its job or has none, and leaves the queue alone.
LEMMA QuietWorkerStep ==
  ASSUME IInv, NEW w \in Workers, NEW state \in States, Become(w, state),
         SubmitterKept, UNCHANGED <<queue, job>>, over' \subseteq Submitters,
         state \in Occupied <=> thread[w] \in Occupied,
         worker_count' = (worker_count - (IF thread[w] # "none" THEN 1 ELSE 0))
                         + (IF state # "none" THEN 1 ELSE 0),
         idle_count' = (idle_count - (IF thread[w] \in Idling THEN 1 ELSE 0))
                       + (IF state \in Idling THEN 1 ELSE 0),
         NEW before \in Nat, NEW after \in Nat,
         before = IF thread[w] = "took" THEN 1 ELSE 0, after = IF state = "took" THEN 1 ELSE 0,
         pending_count' = (pending_count - before) + after
  PROVE  IInv'
<1>1. LabelsAreExact'
  BY BecomeKeepsLabels DEF queue
<1>2. pending_count \in Nat /\ Len(jobs) \in Nat /\ jobs' = jobs
  BY DEF IInv, TypeOK, queue
<1>3. pending_count' \in Int /\ pending_count' + Len(jobs) + before = pending_count + Len(jobs') + after
  BY <1>2
<1>4. \A v \in Workers : thread'[v] \in Occupied => job'[v] \in Submitters
  BY DEF IInv, TypeOK, Become, Occupied
<1>5. jobs' \in Seq(Submitters) /\ active' \in [Labels -> Nat]
      /\ job' \in [Workers -> Submitters \cup {None}]
  BY SMTT(30) DEF IInv, TypeOK, queue
<1> QED
  BY <1>1, <1>3, <1>4, <1>5, WorkerStep, SMTT(30)

\* The first job whose label is below its limit is taken.
LEMMA TakeStep ==
  ASSUME IInv, NEW w \in Workers, NEW i \in Runnable, NEW waited \in {0, 1},
         waited = IF thread[w] \in Idling THEN 1 ELSE 0,
         thread[w] # "none", thread[w] \notin Occupied,
         jobs' = remove(jobs, i),
         active' = [active EXCEPT ![Label[jobs[i]]] = @ + 1],
         job' = [job EXCEPT ![w] = jobs[i]],
         Become(w, "took"), idle_count' = idle_count - waited,
         UNCHANGED <<worker_count, pending_count, submitter, over>>
  PROVE  IInv'
<1>0. i \in DOMAIN jobs /\ jobs[i] \in Submitters /\ active[Label[jobs[i]]] < SoftLimit
  BY SMTT(30) DEF Runnable, IInv, TypeOK
<1>s. PICK s \in Submitters : s = jobs[i]
  BY <1>0, SMTT(30)
<1>1. active[Label[s]] < SoftLimit
  BY <1>0, <1>s, SMTT(30)
<1>2. Label[s] \in Labels
  BY SMTT(30) DEF Labels
<1>3. jobs' \in Seq(Submitters) /\ Len(jobs') = Len(jobs) - 1
  BY <1>0, RemoveShortens, SMTT(30) DEF IInv, TypeOK
<1>4. /\ thread' = [thread EXCEPT ![w] = "took"] /\ thread \in [Workers -> States]
      /\ job' = [job EXCEPT ![w] = s] /\ job \in [Workers -> Submitters \cup {None}]
      /\ active' = [active EXCEPT ![Label[s]] = @ + 1] /\ active \in [Labels -> Nat]
  BY <1>s, SMTT(30) DEF Become, IInv, TypeOK
<1>5. active' \in [Labels -> Nat] /\ job' \in [Workers -> Submitters \cup {None}]
  BY <1>1, <1>2, <1>4, SMTT(30)
<1>6. \A v \in Workers : thread'[v] \in Occupied => job'[v] \in Submitters
  BY <1>1, <1>4, SMTT(30) DEF IInv, TypeOK, Occupied
<1>a. /\ thread'[w] = "took" /\ job'[w] = s
      /\ \A v \in Workers \ {w} : thread'[v] = thread[v] /\ job'[v] = job[v]
  BY <1>4, SMTT(30)
<1>b. \A l : w \notin Has(l) /\ (w \in Has(l)' <=> Label[s] = l)
  BY <1>a, SMTT(30) DEF Has, In, Occupied
<1>c. \A l : \A v \in Workers \ {w} : v \in Has(l)' <=> v \in Has(l)
  BY <1>a, SMTT(30) DEF Has, In
<1>d. \A l : Has(l) \subseteq Workers /\ Has(l)' \subseteq Workers
  BY SMTT(30) DEF Has, In
<1>7. Has(Label[s])' = Has(Label[s]) \cup {w} /\ w \notin Has(Label[s])
  BY <1>b, <1>c, <1>d, SMTT(30)
<1>8. ASSUME NEW l \in Labels \ {Label[s]} PROVE Has(l)' = Has(l)
  <2>1. w \notin Has(l) /\ w \notin Has(l)'
    BY <1>b
  <2>2. Has(l) \subseteq Workers /\ Has(l)' \subseteq Workers
    BY <1>d
  <2>3. \A v \in Workers \ {w} : v \in Has(l)' <=> v \in Has(l)
    BY <1>c
  <2>4. Has(l)' \subseteq Has(l)
    BY ONLY <2>1, <2>2, <2>3, SMTT(30)
  <2>5. Has(l) \subseteq Has(l)'
    BY ONLY <2>1, <2>2, <2>3, SMTT(30)
  <2> QED
    BY ONLY <2>4, <2>5, Zenon
<1>9. LabelsAreExact'
  <2>1. IsFiniteSet(Has(Label[s])) /\ Cardinality(Has(Label[s])) \in Nat
    BY WorkersFinite DEF Has, In
  <2>2. Cardinality(Has(Label[s])') = Cardinality(Has(Label[s])) + 1
    BY <1>7, <2>1, FS_AddElement, ZenonT(30)
  <2>a. active'[Label[s]] = active[Label[s]] + 1 /\ active[Label[s]] \in Nat
    BY <1>2, <1>4, SMTT(30)
  <2>b. active[Label[s]] = Cardinality(Has(Label[s]))
    BY <1>2, SMTT(30) DEF IInv, LabelsAreExact
  <2>3. active'[Label[s]] = Cardinality(Has(Label[s])') /\ active'[Label[s]] <= SoftLimit
    BY <1>1, <2>a, <2>b, <2>2, PoolAssumption, SMTT(30)
  <2>4. \A l \in Labels \ {Label[s]} : active'[l] = Cardinality(Has(l)') /\ active'[l] <= SoftLimit
    BY <1>4, <1>8, SMTT(30) DEF IInv, LabelsAreExact
  <2> QED
    BY <2>3, <2>4, SMTT(30) DEF LabelsAreExact
<1>10. "took" \in States /\ "took" \notin Idling
  BY SMTT(30) DEF States, Idling
<1>11. worker_count \in Nat /\ idle_count \in Nat /\ pending_count \in Nat /\ Len(jobs) \in Nat
  BY SMTT(30) DEF IInv, TypeOK
<1>12. worker_count' = (worker_count - (IF thread[w] # "none" THEN 1 ELSE 0))
                       + (IF "took" # "none" THEN 1 ELSE 0)
  BY <1>11, SMTT(30)
<1>13. idle_count' = (idle_count - (IF thread[w] \in Idling THEN 1 ELSE 0))
                     + (IF "took" \in Idling THEN 1 ELSE 0)
  BY <1>10, <1>11, SMTT(30)
<1>14. pending_count' \in Int /\ pending_count' + Len(jobs) + 0 = pending_count + Len(jobs') + 1
  BY <1>3, <1>11, SMTT(30)
<1>15. 0 = (IF thread[w] = "took" THEN 1 ELSE 0) /\ 1 = IF "took" = "took" THEN 1 ELSE 0
  BY SMTT(30) DEF Occupied
<1>16. over' \subseteq Submitters /\ SubmitterKept
  BY SubmitterUnchanged, SMTT(30) DEF IInv, TypeOK
<1> QED
  BY <1>3, <1>5, <1>6, <1>9, <1>10, <1>12, <1>13, <1>14, <1>15, <1>16, WorkerStep, SMTT(30)

\* There is no such job: the worker waits.
LEMMA WaitStep ==
  ASSUME IInv, NEW w \in Workers, NEW waited \in {0, 1},
         waited = IF thread[w] \in Idling THEN 1 ELSE 0,
         thread[w] # "none", thread[w] \notin Occupied,
         Become(w, "wait"), idle_count' = idle_count + 1 - waited,
         UNCHANGED <<jobs, active, job, worker_count, pending_count, submitter, over>>
  PROVE  IInv'
<1>1. "wait" \in States /\ "wait" \in Idling /\ "wait" \notin Occupied
  BY DEF States, Idling, Occupied
<1>2. worker_count \in Nat /\ idle_count \in Nat /\ pending_count \in Nat /\ over' \subseteq Submitters
  BY DEF IInv, TypeOK
<1>3. worker_count' = (worker_count - (IF thread[w] # "none" THEN 1 ELSE 0))
                      + (IF "wait" # "none" THEN 1 ELSE 0)
  BY <1>2
<1>4. idle_count' = (idle_count - (IF thread[w] \in Idling THEN 1 ELSE 0))
                    + (IF "wait" \in Idling THEN 1 ELSE 0)
  BY <1>1, <1>2
<1>5. pending_count' = (pending_count - 0) + 0
  BY <1>2
<1>6. 0 = (IF thread[w] = "took" THEN 1 ELSE 0) /\ 0 = IF "wait" = "took" THEN 1 ELSE 0
  BY SMTT(30) DEF Occupied
<1> QED
  BY <1>1, <1>2, <1>3, <1>4, <1>5, <1>6, SubmitterUnchanged, QuietWorkerStep, SMTT(30) DEF queue

LEMMA ScanStep ==
  ASSUME IInv, NEW w \in Workers, NEW waited \in {0, 1}, Scan(w, waited),
         waited = IF thread[w] \in Idling THEN 1 ELSE 0,
         thread[w] # "none", thread[w] \notin Occupied,
         UNCHANGED <<worker_count, pending_count, submitter, over>>
  PROVE  IInv'
<1>1. CASE Runnable = {} /\ Become(w, "wait") /\ idle_count' = idle_count + 1 - waited
           /\ UNCHANGED <<jobs, active, job>>
  BY <1>1, WaitStep
<1>2. ASSUME NEW i \in Runnable,
             jobs' = remove(jobs, i),
             active' = [active EXCEPT ![Label[jobs[i]]] = @ + 1],
             job' = [job EXCEPT ![w] = jobs[i]],
             Become(w, "took"), idle_count' = idle_count - waited
      PROVE  IInv'
  BY <1>2, TakeStep, ZenonT(30)
<1> QED
  BY <1>1, <1>2, SMTT(30) DEF Scan

\* The guard of a label is dropped by a worker that counted there.
LEMMA FinishStep ==
  ASSUME IInv, NEW w \in Workers, finish_job_label(w)
  PROVE  IInv'
<1>1. /\ thread[w] = "ran" /\ job[w] \in Submitters /\ Label[job[w]] \in Labels
      /\ thread \in [Workers -> States] /\ job \in [Workers -> Submitters \cup {None}]
      /\ active \in [Labels -> Nat]
  BY DEF finish_job_label, IInv, TypeOK, Labels
<1>s. PICK s \in Submitters : s = job[w]
  BY <1>1
<1>2. /\ thread'[w] = "scan" /\ job'[w] = None
      /\ \A v \in Workers \ {w} :
           /\ job'[v] = job[v]
           /\ thread'[v] = thread[v] \/ (thread[v] = "wait" /\ thread'[v] = "notified")
      /\ active' = [active EXCEPT ![Label[s]] = saturating_sub(@, 1)]
      /\ UNCHANGED <<jobs, worker_count, idle_count, pending_count, pc, seen, over>>
  BY <1>1, <1>s DEF finish_job_label, Waiters, counters, submitter
<1>3. thread' \in [Workers -> States]
  <2>1. thread' = [v \in Workers |-> thread'[v]]
    BY SMTT(30) DEF finish_job_label
  <2>2. \A v \in Workers : thread'[v] \in States
    BY <1>1, <1>2, SMTT(30) DEF States
  <2> QED
    BY <2>1, <2>2
<1>4. In(States \ {"none"})' = In(States \ {"none"}) /\ In(Idling)' = In(Idling)
      /\ In({"took"})' = In({"took"})
  BY <1>1, <1>2, SMTT(30) DEF In, Idling, States
<1>5. ThreadsAreExact'
  BY <1>2, <1>4, SMTT(30) DEF IInv, ThreadsAreExact
<1>6. PendingIsExact'
  BY <1>2, <1>4 DEF IInv, PendingIsExact, Pushing
<1>7. \A l : w \notin Has(l)' /\ (w \in Has(l) <=> Label[s] = l)
  BY <1>1, <1>2, <1>s, SMTT(30) DEF Has, In, Occupied
<1>8. \A l : \A v \in Workers \ {w} : v \in Has(l)' <=> v \in Has(l)
  BY <1>2 DEF Has, In, Occupied
<1>9. \A l : Has(l) \subseteq Workers /\ Has(l)' \subseteq Workers
  BY DEF Has, In
<1>10. Has(Label[s])' = Has(Label[s]) \ {w} /\ w \in Has(Label[s])
  BY <1>7, <1>8, <1>9, SMTT(30)
<1>11. ASSUME NEW l \in Labels \ {Label[s]} PROVE Has(l)' = Has(l)
  BY <1>7, <1>8, <1>9, SMTT(30)
<1>12. LabelsAreExact'
  <2>1. IsFiniteSet(Has(Label[s])) /\ Cardinality(Has(Label[s])) \in Nat
    BY WorkersFinite DEF Has, In
  <2>2. Cardinality(Has(Label[s])') = Cardinality(Has(Label[s])) - 1
    BY <1>10, <2>1, FS_RemoveElement, ZenonT(30)
  <2>3. Cardinality(Has(Label[s])) # 0
    BY <1>10, <2>1, FS_EmptySet, SMTT(30)
  <2>4. Label[s] \in Labels
    BY SMTT(30) DEF Labels
  <2>5. active'[Label[s]] = saturating_sub(active[Label[s]], 1)
    BY <1>1, <1>2, <2>4, SMTT(30)
  <2>6. active[Label[s]] = Cardinality(Has(Label[s])) /\ active[Label[s]] <= SoftLimit
    BY <2>4, SMTT(30) DEF IInv, LabelsAreExact
  <2>7. active'[Label[s]] = Cardinality(Has(Label[s])') /\ active'[Label[s]] <= SoftLimit
    BY <2>1, <2>2, <2>3, <2>5, <2>6, PoolAssumption, SMTT(30) DEF saturating_sub
  <2>8. \A l \in Labels \ {Label[s]} : active'[l] = Cardinality(Has(l)') /\ active'[l] <= SoftLimit
    BY <1>1, <1>2, <1>11, SMTT(30) DEF IInv, LabelsAreExact
  <2> QED
    BY <2>7, <2>8, SMTT(30) DEF LabelsAreExact
<1>13. active' \in [Labels -> Nat]
  <2>1. \A n \in Nat : saturating_sub(n, 1) \in Nat
    BY DEF saturating_sub
  <2> QED
    BY <1>1, <1>2, <2>1, ZenonT(30)
<1>14. job' \in [Workers -> Submitters \cup {None}]
  BY <1>1, SMTT(30) DEF finish_job_label
<1>15. \A v \in Workers : thread'[v] \in {"took", "run", "ran"} => job'[v] \in Submitters
  BY <1>2, SMTT(30) DEF IInv, TypeOK
<1>16. TypeOK'
  BY <1>2, <1>3, <1>13, <1>14, <1>15, SMTT(30) DEF IInv, TypeOK
<1> QED
  BY <1>5, <1>6, <1>12, <1>16, SMTT(30) DEF IInv

-----------------------------------------------------------------------------
LEMMA WorkersKeep ==
  ASSUME IInv, NEW w \in Workers, run_worker(w)
  PROVE  IInv'
<1> USE DEF States, Idling, Occupied
<1>t. /\ thread[w] \in States /\ over \subseteq Submitters
      /\ worker_count \in Nat /\ idle_count \in Nat /\ pending_count \in Nat
  BY DEF IInv, TypeOK
<1>1. CASE wait_for_job(w)
  BY <1>1, ScanStep, SMTT(30) DEF wait_for_job
<1>2. CASE TimeOut(w)
  <2>1. /\ Become(w, "timed_out") /\ thread[w] = "wait"
        /\ UNCHANGED <<queue, submitter, job, over, worker_count, idle_count, pending_count>>
    BY <1>2 DEF TimeOut, counters
  <2>2. /\ worker_count' = (worker_count - 1) + 1 /\ idle_count' = (idle_count - 1) + 1
        /\ pending_count' = (pending_count - 0) + 0
    BY <1>t, <2>1, SMTT(30)
  <2> QED
    BY <1>t, <2>1, <2>2, SubmitterUnchanged, QuietWorkerStep, SMTT(30)
<1>3. CASE Leaves(w)
  <2>1. /\ Become(w, "exit") /\ thread[w] = "timed_out" /\ idle_count' = idle_count - 1
        /\ UNCHANGED <<queue, submitter, job, over, worker_count, pending_count>>
    BY <1>3 DEF Leaves
  <2>2. /\ worker_count' = (worker_count - 1) + 1 /\ idle_count' = (idle_count - 1) + 0
        /\ pending_count' = (pending_count - 0) + 0
    BY <1>t, <2>1
  <2> QED
    BY <1>t, <2>1, <2>2, SubmitterUnchanged, QuietWorkerStep, SMTT(30)
<1>4. CASE Resumes(w)
  BY <1>4, ScanStep, SMTT(30) DEF Resumes
<1>5. CASE Exit(w)
  <2>1. /\ Become(w, "none") /\ thread[w] = "exit" /\ worker_count' = worker_count - 1
        /\ UNCHANGED <<queue, submitter, job, over, idle_count, pending_count>>
    BY <1>5 DEF Exit
  <2>2. /\ worker_count' = (worker_count - 1) + 0 /\ idle_count' = (idle_count - 0) + 0
        /\ pending_count' = (pending_count - 0) + 0
    BY <1>t, <2>1, SMTT(30)
  <2> QED
    BY <1>t, <2>1, <2>2, SubmitterUnchanged, QuietWorkerStep, SMTT(30)
<1>6. CASE Run(w)
  <2>1. /\ Become(w, "run") /\ thread[w] = "took" /\ pending_count' = pending_count - 1
        /\ UNCHANGED <<queue, submitter, job, over, worker_count, idle_count>>
    BY <1>6 DEF Run
  <2>2. /\ worker_count' = (worker_count - 1) + 1 /\ idle_count' = (idle_count - 0) + 0
        /\ pending_count' = (pending_count - 1) + 0
    BY <1>t, <2>1, SMTT(30)
  <2> QED
    BY <1>t, <2>1, <2>2, SubmitterUnchanged, QuietWorkerStep, SMTT(30)
<1>7. CASE SendResult(w)
  <2>1. /\ Become(w, "ran") /\ thread[w] = "run"
        /\ UNCHANGED <<queue, submitter, job, worker_count, idle_count, pending_count>>
    BY <1>7 DEF SendResult, counters
  <2>2. /\ worker_count' = (worker_count - 1) + 1 /\ idle_count' = (idle_count - 0) + 0
        /\ pending_count' = (pending_count - 0) + 0
    BY <1>t, <2>1, SMTT(30)
  <2>3. over' \subseteq Submitters
    BY <1>7, <1>t DEF SendResult, IInv, TypeOK
  <2> QED
    BY <1>t, <2>1, <2>2, <2>3, SubmitterUnchanged, QuietWorkerStep, SMTT(30)
<1>8. CASE finish_job_label(w)
  BY <1>8, FinishStep, SMTT(30)
<1> QED
  BY <1>1, <1>2, <1>3, <1>4, <1>5, <1>6, <1>7, <1>8, SMTT(30) DEF run_worker

\* A thread is made, whatever the submitter does next.
LEMMA NewWorkerStep ==
  ASSUME IInv, NewWorker, SubmitterKept, UNCHANGED <<queue, idle_count, pending_count, job, over>>
  PROVE  IInv'
<1>1. PICK w \in Workers : thread[w] = "none" /\ Become(w, "scan")
  BY DEF NewWorker, Unused
<1>2. over' \subseteq Submitters /\ worker_count \in Nat /\ idle_count \in Nat /\ pending_count \in Nat
  BY DEF IInv, TypeOK
<1>3. /\ worker_count' = (worker_count - 0) + 1 /\ idle_count' = (idle_count - 0) + 0
      /\ pending_count' = (pending_count - 0) + 0
  BY <1>2 DEF NewWorker
<1> QED
  BY <1>1, <1>2, <1>3, QuietWorkerStep, SMTT(30) DEF States, Idling, Occupied

\* A submitter moves on, neither to its push nor from it.
LEMMA GotoKeeps ==
  ASSUME IInv, NEW s \in Submitters, NEW label \in Stages, Goto(s, label),
         label # "push", pc[s] # "push", seen' \in [Submitters -> Nat]
  PROVE  SubmitterKept
BY ZenonT(30) DEF SubmitterKept, IInv, TypeOK, Goto, Pushing

LEMMA NotifyStep ==
  ASSUME IInv, NEW s \in Submitters, notify_one(s)
  PROVE  IInv'
<1>1. /\ pc[s] = "notify" /\ Goto(s, "read_pending") /\ seen' = seen
      /\ UNCHANGED <<queue, worker_count, idle_count, pending_count, job, over>>
  BY DEF notify_one, counters
<1>2. /\ seen \in [Submitters -> Nat] /\ over' \subseteq Submitters
      /\ worker_count \in Nat /\ idle_count \in Nat /\ pending_count \in Nat
  BY <1>1, SMTT(30) DEF IInv, TypeOK
<1>3. ASSUME NEW w \in Waiters, Become(w, "notified") PROVE IInv'
  <2>1. w \in Workers /\ thread[w] = "wait"
    BY DEF Waiters
  <2>2. SubmitterKept
    BY <1>1, <1>2, GotoKeeps DEF Stages
  <2>3. /\ worker_count' = (worker_count - 1) + 1 /\ idle_count' = (idle_count - 1) + 1
        /\ pending_count' = (pending_count - 0) + 0
    BY <1>1, <1>2
  <2> QED
    BY <1>1, <1>2, <1>3, <2>1, <2>2, <2>3, QuietWorkerStep, SMTT(30) DEF States, Idling, Occupied
<1>4. CASE UNCHANGED thread
  BY <1>1, <1>2, <1>4, SubmitterStep, SMTT(30) DEF Stages, counters, worker
<1> QED
  BY <1>3, <1>4 DEF notify_one

\* A job is counted before it is in the queue.
LEMMA CountStep ==
  ASSUME IInv, NEW s \in Submitters, Count(s)
  PROVE  IInv'
<1>1. /\ pc[s] = "count" /\ Goto(s, "push") /\ pending_count' = pending_count + 1
      /\ UNCHANGED <<jobs, active, worker_count, idle_count, seen, thread, job, over>>
  BY DEF Count, queue, worker
<1>2. TypeOK'
  BY <1>1 DEF IInv, TypeOK, Goto, Stages
<1>3. ThreadsAreExact'
  BY <1>1 DEF IInv, ThreadsAreExact, In
<1>4. LabelsAreExact'
  BY <1>1, LabelsKept DEF Has, In
<1>5. Cardinality(Pushing') = (Cardinality(Pushing) - 0) + 1
  BY <1>1, GotoCounts DEF IInv, Stages
<1>6. PendingIsExact'
  <2> DEFINE took == Cardinality(In({"took"}))
             pushing == Cardinality(Pushing)
             n == Len(jobs)
  <2>1. took \in Nat /\ pushing \in Nat /\ n \in Nat
    BY WorkersFinite, SubmittersFinite DEF In, Pushing, IInv, TypeOK
  <2>2. pending_count = n + pushing + took
    BY DEF IInv, PendingIsExact
  <2>3. Cardinality(In({"took"})') = took /\ Len(jobs') = n
    BY <1>1 DEF In
  <2>4. Cardinality(Pushing') = (pushing - 0) + 1
    BY <1>5
  <2> HIDE DEF took, pushing, n
  <2>5. pending_count' = n + ((pushing - 0) + 1) + took
    BY <1>1, <2>1, <2>2, SMTT(30)
  <2> QED
    BY <2>3, <2>4, <2>5, SMTT(30) DEF PendingIsExact
<1> QED
  BY <1>2, <1>3, <1>4, <1>6, SMTT(30) DEF IInv

LEMMA PushStep ==
  ASSUME IInv, NEW s \in Submitters, Push(s)
  PROVE  IInv'
<1>1. /\ pc[s] = "push" /\ Goto(s, "notify") /\ jobs' = Append(jobs, s)
      /\ UNCHANGED <<active, worker_count, idle_count, pending_count, seen, thread, job, over>>
  BY DEF Push, counters, worker
<1>2. jobs \in Seq(Submitters) /\ jobs' \in Seq(Submitters) /\ Len(jobs') = Len(jobs) + 1
  BY <1>1 DEF IInv, TypeOK
<1>3. TypeOK'
  BY <1>1, <1>2 DEF IInv, TypeOK, Goto, Stages
<1>4. ThreadsAreExact'
  BY <1>1 DEF IInv, ThreadsAreExact, In
<1>5. LabelsAreExact'
  BY <1>1, LabelsKept DEF Has, In
<1>6. Cardinality(Pushing') = (Cardinality(Pushing) - 1) + 0
  BY <1>1, GotoCounts DEF IInv, Stages
<1>7. PendingIsExact'
  <2> DEFINE took == Cardinality(In({"took"}))
             pushing == Cardinality(Pushing)
             n == Len(jobs)
  <2>1. took \in Nat /\ pushing \in Nat /\ n \in Nat
    BY WorkersFinite, SubmittersFinite DEF In, Pushing, IInv, TypeOK
  <2>2. pending_count = n + pushing + took
    BY DEF IInv, PendingIsExact
  <2>3. Cardinality(In({"took"})') = took /\ Len(jobs') = n + 1
    BY <1>1, <1>2 DEF In
  <2>4. Cardinality(Pushing') = (pushing - 1) + 0
    BY <1>6
  <2> HIDE DEF took, pushing, n
  <2>5. pending_count' = (n + 1) + ((pushing - 1) + 0) + took
    BY <1>1, <2>1, <2>2
  <2> QED
    BY <2>3, <2>4, <2>5, SMTT(30) DEF PendingIsExact
<1> QED
  BY <1>3, <1>4, <1>5, <1>7 DEF IInv

\* What spawn_extra_worker_if_needed counts down from is never negative.
LEMMA SaturatingSubType ==
  ASSUME NEW a \in Nat, NEW b \in Nat
  PROVE  saturating_sub(a, b) \in Nat
BY DEF saturating_sub

LEMMA SubmittersKeep ==
  ASSUME IInv, NEW s \in Submitters, Submit(s)
  PROVE  IInv'
<1>t. /\ seen \in [Submitters -> Nat] /\ pc \in [Submitters -> Stages]
      /\ worker_count \in Nat /\ idle_count \in Nat /\ pending_count \in Nat
  BY DEF IInv, TypeOK
<1>m. MaxWorkers \in Nat
  BY PoolAssumption
<1>1. CASE ensure_worker_available(s)
  <2>1. /\ pc[s] = "submit" /\ seen' = seen
        /\ Goto(s, IF worker_count > 0 THEN "count" ELSE "spawn_first")
        /\ UNCHANGED <<queue, counters, worker>>
    BY <1>1 DEF ensure_worker_available
  <2>2. PICK label \in {"count", "spawn_first"} : Goto(s, label)
    BY <2>1
  <2> QED
    BY <1>t, <2>1, <2>2, SubmitterStep, SMTT(30) DEF Stages
<1>2. CASE spawn_worker(s)
  <2>1. /\ pc[s] = "spawn_first" /\ seen' = seen /\ Goto(s, "count")
        /\ UNCHANGED <<queue, idle_count, pending_count, job, over>>
        /\ NewWorker \/ UNCHANGED <<worker_count, thread>>
    BY <1>2 DEF spawn_worker
  <2>2. CASE NewWorker
    <3>1. SubmitterKept
      BY <1>t, <2>1, GotoKeeps, SMTT(30) DEF Stages
    <3> QED
      BY <2>1, <2>2, <3>1, NewWorkerStep, SMTT(30)
  <2>3. CASE UNCHANGED <<worker_count, thread>>
    BY <1>t, <2>1, <2>3, SubmitterStep, SMTT(30) DEF Stages, counters, worker
  <2> QED
    BY <2>1, <2>2, <2>3, SMTT(30)
<1>3. CASE SpawnFails(s)
  BY <1>t, <1>3, SubmitterStep, SMTT(30) DEF SpawnFails, Stages
<1>4. CASE ReadPending(s)
  <2>1. seen' \in [Submitters -> Nat]
    BY <1>t, <1>4 DEF ReadPending
  <2> QED
    BY <1>4, <2>1, SubmitterStep, SMTT(30) DEF ReadPending, Stages
<1>5. CASE ReadIdle(s)
  <2>1. saturating_sub(seen[s], idle_count) \in Nat
    BY <1>t, SaturatingSubType, SMTT(30)
  <2>2. seen' = [seen EXCEPT ![s] = saturating_sub(seen[s], idle_count)]
    BY <1>5 DEF ReadIdle
  <2>3. seen' \in [Submitters -> Nat]
    BY <1>t, <2>1, <2>2, SMTT(30)
  <2> QED
    BY <1>5, <2>3, SubmitterStep DEF ReadIdle, Stages
<1>6. CASE ReadWorkers(s)
  <2>1. PICK capacity \in Nat : capacity = saturating_sub(MaxWorkers, worker_count)
    BY <1>t, <1>m, SaturatingSubType
  <2>2. seen' = [seen EXCEPT ![s] = IF seen[s] < capacity THEN seen[s] ELSE capacity]
    BY <1>6, <2>1 DEF ReadWorkers
  <2>3. seen' \in [Submitters -> Nat]
    BY <1>t, <2>2
  <2> QED
    BY <1>6, <2>3, SubmitterStep DEF ReadWorkers, Stages
<1>7. CASE SpawnExtra(s)
  <2>1. /\ UNCHANGED <<queue, idle_count, pending_count, pc, job, over>>
        /\ seen[s] > 0 /\ seen' = [seen EXCEPT ![s] = seen[s] - 1]
        /\ NewWorker \/ UNCHANGED <<worker_count, thread>>
    BY <1>7 DEF SpawnExtra
  <2>2. seen' \in [Submitters -> Nat]
    BY <1>t, <2>1
  <2>3. SubmitterKept
    BY <1>t, <2>1, <2>2, SMTT(30) DEF SubmitterKept, Pushing
  <2>4. CASE NewWorker
    BY <2>1, <2>3, <2>4, NewWorkerStep, SMTT(30)
  <2>5. CASE UNCHANGED <<worker_count, thread>>
    <3>1. Goto(s, "spawn_extra") /\ pc[s] = "spawn_extra"
      BY <1>7, <1>t, <2>1, SMTT(30) DEF Goto, SpawnExtra
    <3> QED
      BY <2>1, <2>2, <2>5, <3>1, SubmitterStep, SMTT(30) DEF Stages, counters, worker
  <2> QED
    BY <2>1, <2>4, <2>5, SMTT(30)
<1>8. CASE Submitted(s)
  BY <1>t, <1>8, SubmitterStep DEF Submitted, Stages
<1> QED
  BY <1>1, <1>2, <1>3, <1>4, <1>5, <1>6, <1>7, <1>8, CountStep, PushStep, NotifyStep, SMTT(30) DEF Submit

LEMMA NextIInv == IInv /\ [Next]_vars => IInv'
<1> SUFFICES ASSUME IInv, [Next]_vars PROVE IInv'
  OBVIOUS
<1>1. CASE UNCHANGED vars
  <2>1. UNCHANGED <<jobs, active, worker_count, idle_count, pending_count, pc, seen, thread, job, over>>
    BY <1>1 DEF vars, queue, counters, submitter, worker
  <2> QED
    BY <2>1, ZenonT(30) DEF IInv, TypeOK, ThreadsAreExact, PendingIsExact, LabelsAreExact, Has, In, Pushing
<1>2. CASE Next
  BY <1>2, SubmittersKeep, WorkersKeep DEF Next
<1> QED
  BY <1>1, <1>2

LEMMA Inductive == Spec => []IInv
BY InitIInv, NextIInv, PTL DEF Spec

-----------------------------------------------------------------------------
\* The variables keep their types: none of the counters that threads subtract
\* from without the lock wraps, and a worker that is to run a job has one
\* (stream.rs NativeRelayPool).
THEOREM TypeCorrect == Spec => []TypeOK
<1>1. IInv => TypeOK
  BY DEF IInv
<1> QED
  BY <1>1, Inductive, PTL

\* However many submitters and threads there are and however they interleave,
\* the counts of threads, of idle threads and of jobs on their way are the numbers
\* of threads and jobs they stand for, and no label has more jobs than its
\* limit (stream.rs spawn_worker, wait_for_job, finish_job_label).
THEOREM CountersExact == Spec => []CountersAreExact
<1>1. ASSUME IInv PROVE CountersAreExact
  <2>1. Workers \ In({"none"}) = In(States \ {"none"})
    BY <1>1 DEF IInv, TypeOK, In
  <2>2. \A l : Has(l) = {w \in In({"took", "run", "ran"}) : Label[job[w]] = l}
    BY DEF Has, Occupied
  <2>3. \A l \in Labels : Cardinality(Has(l)) <= SoftLimit
    BY <1>1 DEF IInv, LabelsAreExact
  <2>4. \A l \in Labels :
          Cardinality({w \in In({"took", "run", "ran"}) : Label[job[w]] = l}) <= SoftLimit
    BY <2>2, <2>3, Zenon
  <2>5. idle_count = Cardinality(In({"wait", "timed_out", "notified"}))
        /\ worker_count = Cardinality(Workers \ In({"none"}))
    BY <1>1, <2>1 DEF IInv, ThreadsAreExact, Idling
  <2>6. pending_count =
          Len(jobs) + Cardinality({s \in Submitters : pc[s] = "push"}) + Cardinality(In({"took"}))
    BY <1>1 DEF IInv, PendingIsExact, Pushing
  <2> QED
    BY <2>4, <2>5, <2>6 DEF CountersAreExact
<1> QED
  BY <1>1, Inductive, PTL

-----------------------------------------------------------------------------
\* The connectors of the outbounds, for every configuration.
\* The steps that can fail only for the sake of the server or the machine, and
\* with them the start of a worker that takes no others.
Simple ==
  {Use!Check(e, TRUE) : e \in {"invalid", "unsupported"}}
  \cup {Use!Dial, Use!Say, Use!Hear(TRUE), Use!Hear(FALSE), Use!Receive, Use!Await, Use!Local}
  \cup [does : {"bridge"}, tells : BOOLEAN, header : {"no", "at once", "once used"},
        timed : BOOLEAN]
Harmless == Simple \cup [does : {"start"}, steps : Seq(Simple), idle : BOOLEAN]

\* The outbound is accepted, and what is left to the connector is right too.
Accepted(o) == Use!validate_outbound(o) /\ ~Use!LeftToTheConnector(o)

\* The steps that are simple.
LEMMA SimpleSteps ==
  /\ Use!Dial \in Simple /\ Use!Say \in Simple /\ Use!Hear(TRUE) \in Simple
  /\ Use!Hear(FALSE) \in Simple /\ Use!Receive \in Simple /\ Use!Await \in Simple
  /\ Use!Local \in Simple
  /\ \A tells, timed \in BOOLEAN : \A header \in {"no", "at once", "once used"} :
       Use!Bridge(tells, header, timed) \in Simple
  /\ \A e \in {"invalid", "unsupported"} : Use!Check(e, TRUE) \in Simple
<1>1. \A tells, timed \in BOOLEAN : \A header \in {"no", "at once", "once used"} :
        Use!Bridge(tells, header, timed)
          \in [does : {"bridge"}, tells : BOOLEAN, header : {"no", "at once", "once used"},
              timed : BOOLEAN]
  BY Zenon DEF Use!Bridge
<1>2. \A e \in {"invalid", "unsupported"} : Use!Check(e, TRUE) \in Simple
  BY Zenon DEF Simple
<1>3. {Use!Dial, Use!Say, Use!Hear(TRUE), Use!Hear(FALSE), Use!Receive, Use!Await, Use!Local}
        \subseteq Simple
  BY Zenon DEF Simple
<1>4. \A tells, timed \in BOOLEAN : \A header \in {"no", "at once", "once used"} :
        Use!Bridge(tells, header, timed) \in Simple
  BY <1>1, ZenonT(30) DEF Simple
<1> QED BY <1>2, <1>3, <1>4, Zenon

\* Steps put after steps.
LEMMA Cat ==
  ASSUME NEW S, NEW s \in Seq(S), NEW t \in Seq(S)
  PROVE  s \o t \in Seq(S)
OBVIOUS

\* Simple steps are harmless.
LEMMA SimpleIsHarmless ==
  ASSUME NEW s \in Seq(Simple)
  PROVE  s \in Seq(Harmless)
<1>1. Simple \subseteq Harmless
  BY Zenon DEF Harmless
<1> HIDE DEF Simple, Harmless
<1> QED BY <1>1

\* A check that an accepted outbound passes.
LEMMA Passes ==
  ASSUME NEW e \in {"invalid", "unsupported"}, NEW ok \in BOOLEAN, ok
  PROVE  Use!Check(e, ok) \in Simple
BY SimpleSteps, Zenon

\* What validation has seen, the connectors need not see again.
LEMMA ChecksPass ==
  ASSUME NEW o, Accepted(o)
  PROVE  /\ Use!Protocol(o) # "freedom" => Use!Server(o) \in Simple
         /\ Use!Protocol(o) = "shadowsocks" =>
              /\ Use!ShadowsocksMethod_parse(o) \in Simple
              /\ Use!shadowsocks_outbound_password(o) \in Simple
         /\ Use!Protocol(o) = "trojan" => Use!Check("invalid", ~Use!Blank(o.password)) \in Simple
         /\ Use!Protocol(o) = "vless" =>
              Use!vless_outbound_user_id(o) \in Simple /\ Use!VlessFlow(o) \in Simple
         /\ Use!Protocol(o) = "vmess" =>
              Use!vmess_outbound_user_id(o) \in Simple /\ Use!vmess_outbound_security(o) \in Simple
         /\ Use!KnownNetwork(o) \in Simple
         /\ o.tls # None => Use!Check("invalid", Use!ValidName(o)) \in Simple
         /\ Use!quic_server_name(o) \in Simple
         /\ Use!validate_quic_transport(o) \in Simple
         /\ Use!quic_packet_security(o) \in Simple
         /\ Use!Network(o) \in {"h2", "http"} => Use!http2_method(o) \in Simple
<1> HIDE DEF Simple
<1>a. Use!validate_outbound_endpoint(o) /\ ~Use!LeftToTheConnector(o)
  BY DEF Accepted, Use!validate_outbound
<1>1. Use!Protocol(o) # "freedom" => Use!Server(o) \in Simple
  <2>1. Use!Protocol(o) # "freedom" => ~Use!Blank(o.address) /\ o.port # None
    BY <1>a, Zenon DEF Use!validate_outbound_endpoint, Use!Protocol
  <2> QED BY <2>1, Passes, Zenon DEF Use!Server
<1>2. Use!Protocol(o) = "shadowsocks" =>
        /\ Use!ShadowsocksMethod_parse(o) \in Simple
        /\ Use!shadowsocks_outbound_password(o) \in Simple
  <2>1. Use!Protocol(o) = "shadowsocks" =>
          Use!is_supported_shadowsocks_cipher(o.method) /\ ~Use!Blank(o.password)
    BY <1>a, Zenon DEF Use!validate_outbound_endpoint, Use!Protocol
  <2>2. Use!is_supported_shadowsocks_cipher(o.method) \in BOOLEAN
    BY DEF Use!is_supported_shadowsocks_cipher
  <2> QED BY <2>1, <2>2, Passes, Zenon
        DEF Use!ShadowsocksMethod_parse, Use!shadowsocks_outbound_password
<1>3. Use!Protocol(o) = "trojan" => Use!Check("invalid", ~Use!Blank(o.password)) \in Simple
  <2>1. Use!Protocol(o) = "trojan" => ~Use!Blank(o.password)
    BY <1>a, Zenon DEF Use!validate_outbound_endpoint, Use!Protocol
  <2> QED BY <2>1, Passes, Zenon
<1>n. o.transport # None => Use!validate_outbound_transport(o, Use!Protocol(o))
  BY <1>a, Zenon DEF Use!validate_outbound_endpoint, Use!Protocol
<1>m. o.transport = None => Use!Network(o) = "tcp"
  BY DEF Use!Network, Use!outbound_transport_network, Use!to_ascii_lowercase, Use!Spellings
<1>4. Use!Protocol(o) = "vless" =>
        Use!vless_outbound_user_id(o) \in Simple /\ Use!VlessFlow(o) \in Simple
  <2>1. Use!Protocol(o) = "vless" => Use!vless_endpoint(o)
    BY <1>a, Zenon DEF Use!validate_outbound_endpoint, Use!Protocol
  <2>2. Use!outbound_transport_network(o) = "tcp" => Use!Network(o) = "tcp"
    BY DEF Use!Network, Use!to_ascii_lowercase, Use!Spellings
  <2>3. Use!Protocol(o) = "vless" =>
          /\ o.username \in Use!SomeUuids
          /\ ~Use!Blank(o.method) => /\ o.method = "xtls-rprx-vision"
                                     /\ o.tls # None
                                     /\ Use!Network(o) = "tcp"
    BY <2>1, <2>2, Zenon DEF Use!vless_endpoint, Use!parse_vless_outbound_uuid
  <2> QED BY <2>3, Passes, Zenon DEF Use!vless_outbound_user_id, Use!VlessFlow
<1>5. Use!Protocol(o) = "vmess" =>
        Use!vmess_outbound_user_id(o) \in Simple /\ Use!vmess_outbound_security(o) \in Simple
  <2>1. Use!Protocol(o) = "vmess" => Use!vmess_endpoint(o)
    BY <1>a, Zenon DEF Use!validate_outbound_endpoint, Use!Protocol
  <2> QED BY <2>1, Passes, Zenon DEF Use!vmess_endpoint, Use!parse_vless_outbound_uuid,
        Use!vmess_outbound_user_id, Use!vmess_outbound_security
<1>6. Use!KnownNetwork(o) \in Simple
  <2>1. Use!Network(o) \in {"tcp", "ws", "httpupgrade", "grpc", "h2", "http", "quic"}
    BY <1>n, <1>m, Zenon DEF Use!validate_outbound_transport, Use!Network
  <2> QED BY <2>1, Passes, Zenon DEF Use!KnownNetwork
<1>7. o.tls # None => Use!ValidName(o)
  BY <1>a, Zenon DEF Use!LeftToTheConnector
<1>8. o.tls # None => Use!Check("invalid", Use!ValidName(o)) \in Simple
  BY <1>7, Passes, Zenon DEF Use!ValidName
<1>9. Use!quic_server_name(o) \in Simple
  BY <1>7, Passes, Zenon DEF Use!quic_server_name
<1>10. o.transport # None =>
         /\ Use!Or(o.transport.quic_security, "none") \in Use!Ciphers \cup {"none"}
         /\ Use!Or(o.transport.quic_security, "none") = "none" => Use!Blank(o.transport.quic_key)
         /\ Use!Or(o.transport.quic_header_type, "none") = "none"
  BY <1>n, Zenon DEF Use!validate_outbound_transport
<1>11. Use!validate_quic_transport(o) \in Simple
  BY <1>10, Passes, Zenon DEF Use!validate_quic_transport
<1>12. Use!quic_packet_security(o) \in Simple
  BY <1>10, Passes, Zenon DEF Use!quic_packet_security
<1>13. Use!Network(o) \in {"h2", "http"} => o.transport.method # "bad method"
  BY <1>a, <1>m, Zenon DEF Use!LeftToTheConnector
<1>14. Use!Network(o) \in {"h2", "http"} => Use!http2_method(o) \in Simple
  BY <1>13, Passes, Zenon DEF Use!http2_method
<1> QED BY <1>1, <1>2, <1>3, <1>4, <1>5, <1>6, <1>8, <1>9, <1>11, <1>12, <1>14, Zenon

\* Short sequences of steps.
LEMMA Tuples ==
  ASSUME NEW S
  PROVE  /\ <<>> \in Seq(S)
         /\ \A a \in S : <<a>> \in Seq(S)
         /\ \A a, b \in S : <<a, b>> \in Seq(S)
         /\ \A a, b, c \in S : <<a, b, c>> \in Seq(S)
         /\ \A a, b, c, d \in S : <<a, b, c, d>> \in Seq(S)
OBVIOUS

\* The two long ones, of the datagrams of SOCKS5 and Shadowsocks.
LEMMA LongTuples ==
  ASSUME NEW S, NEW a \in S, NEW b \in S, NEW c \in S, NEW d \in S, NEW e \in S, NEW f \in S,
         NEW g \in S, NEW h \in S
  PROVE  <<a, b, c, d, e, f, g>> \in Seq(S) /\ <<a, b, c, d, e, f, g, h>> \in Seq(S)
<1>1. ASSUME NEW n \in Nat, NEW t \in [1..n -> S]
      PROVE  t \in Seq(S)
  BY ONLY <1>1
<1>2. <<a, b, c, d, e, f, g>> \in [1..7 -> S]
  OBVIOUS
<1>3. <<a, b, c, d, e, f, g, h>> \in [1..8 -> S]
  OBVIOUS
<1> QED BY <1>1, <1>2, <1>3, SMTT(30)

\* The parts the connectors are put together from.
LEMMA PartsAreHarmless ==
  /\ Use!connect_target \in Seq(Simple)
  /\ Use!connect_websocket_client \in Seq(Simple)
  /\ Use!connect_httpupgrade_client \in Seq(Simple)
  /\ Use!negotiate_socks5 \in Seq(Simple)
  /\ Use!write_trojan_tcp_request \in Seq(Simple)
  /\ \A timed \in BOOLEAN : Use!VlessExchange(timed) \in Seq(Simple)
  /\ Use!local_bridge_for_http2 \in Seq(Simple)
  /\ Use!trojan_local_bridge_for_websocket \in Seq(Simple)
  /\ Use!vless_local_bridge_for_websocket \in Seq(Simple)
  /\ Use!trojan_local_bridge_for_grpc \in Seq(Simple)
  /\ Use!vless_local_bridge_for_grpc \in Seq(Simple)
  /\ Use!relay_plain_to_vless_vision \in Seq(Simple)
  /\ Use!local_bridge_for_vmess \in Seq(Simple)
  /\ Use!local_bridge_for_vmess_tcp \in Seq(Simple)
  /\ Use!relay_plain_to_shadowsocks \in Seq(Simple)
  /\ Use!relay_plain_to_tls \in Seq(Simple)
<1> USE SimpleSteps, Tuples
<1>1. /\ Use!connect_target \in Seq(Simple)
      /\ Use!connect_websocket_client \in Seq(Simple)
      /\ Use!connect_httpupgrade_client \in Seq(Simple)
      /\ Use!write_trojan_tcp_request \in Seq(Simple)
  BY Zenon DEF Use!connect_target, Use!connect_websocket_client, Use!connect_httpupgrade_client,
       Use!validate_client_upgrade_response, Use!validate_httpupgrade_response,
       Use!write_trojan_tcp_request
<1>2. Use!negotiate_socks5 \in Seq(Simple)
  BY Cat, Zenon DEF Use!negotiate_socks5, Use!authenticate_socks5
<1>3. \A timed \in BOOLEAN : Use!VlessExchange(timed) \in Seq(Simple)
  <2>1. \A timed \in BOOLEAN : Use!Hear(timed) \in Simple
    BY Zenon
  <2> QED BY <2>1, Cat, Zenon
        DEF Use!VlessExchange, Use!write_vless_tcp_request, Use!read_vless_response_header
<1>4. /\ Use!local_bridge_for_http2 \in Seq(Simple)
      /\ Use!trojan_local_bridge_for_websocket \in Seq(Simple)
      /\ Use!vless_local_bridge_for_websocket \in Seq(Simple)
      /\ Use!trojan_local_bridge_for_grpc \in Seq(Simple)
      /\ Use!vless_local_bridge_for_grpc \in Seq(Simple)
  BY Zenon DEF Use!local_bridge_for_http2, Use!trojan_local_bridge_for_websocket,
       Use!vless_local_bridge_for_websocket, Use!trojan_local_bridge_for_grpc,
       Use!vless_local_bridge_for_grpc
<1>5. /\ Use!relay_plain_to_vless_vision \in Seq(Simple)
      /\ Use!local_bridge_for_vmess \in Seq(Simple)
      /\ Use!local_bridge_for_vmess_tcp \in Seq(Simple)
      /\ Use!relay_plain_to_shadowsocks \in Seq(Simple)
      /\ Use!relay_plain_to_tls \in Seq(Simple)
  BY Zenon DEF Use!relay_plain_to_vless_vision, Use!local_bridge_for_vmess,
       Use!relay_plain_to_vmess, Use!local_bridge_for_vmess_tcp, Use!relay_plain_to_vmess_tcp,
       Use!relay_plain_to_shadowsocks, Use!relay_plain_to_tls
<1> QED BY <1>1, <1>2, <1>3, <1>4, <1>5, ZenonT(30)

\* The transports of an accepted outbound.
LEMMA TransportsAreHarmless ==
  ASSUME NEW o, Accepted(o)
  PROVE  /\ o.tls # None =>
              /\ Use!connect_trojan_tls_stream(o) \in Seq(Simple)
              /\ Use!connect_vless_tls_stream(o) \in Seq(Simple)
              /\ Use!connect_vmess_tls_stream(o) \in Seq(Simple)
         /\ Use!Network(o) \in {"h2", "http"} => Use!connect_http2_client(o) \in Seq(Harmless)
         /\ Use!connect_grpc_client(o) \in Seq(Harmless)
         /\ Use!connect_quic_client_stream(o) \in Seq(Harmless)
<1> USE SimpleSteps, Tuples, PartsAreHarmless
<1>a. o.tls # None => <<Use!Check("invalid", Use!ValidName(o)), Use!Hear(TRUE)>> \in Seq(Simple)
  BY ChecksPass, Zenon
<1>b. ASSUME NEW s \in Seq(Simple), NEW b \in BOOLEAN
      PROVE  <<Use!Start(s, [idle |-> b]), Use!Await>> \in Seq(Harmless)
  <2>1. Use!Start(s, [idle |-> b]) \in [does : {"start"}, steps : Seq(Simple), idle : BOOLEAN]
    BY <1>b, Zenon DEF Use!Start
  <2> QED BY <2>1, Zenon DEF Harmless
<1>1. o.tls # None =>
        /\ Use!connect_trojan_tls_stream(o) \in Seq(Simple)
        /\ Use!connect_vless_tls_stream(o) \in Seq(Simple)
        /\ Use!connect_vmess_tls_stream(o) \in Seq(Simple)
  BY <1>a, Cat, Zenon DEF Use!connect_trojan_tls_stream, Use!connect_vless_tls_stream,
       Use!connect_vmess_tls_stream, Use!trojan_tls_server_name, Use!vless_tls_server_name,
       Use!vmess_tls_server_name
<1>2. ASSUME Use!Network(o) \in {"h2", "http"}
      PROVE  Use!connect_http2_client(o) \in Seq(Harmless)
  <2>1. Use!run_http2_client_stream(o) \in Seq(Simple)
    BY <1>2, ChecksPass, Zenon DEF Use!run_http2_client_stream
  <2>2. (IF o.tls = None THEN <<>> ELSE <<Use!http2_tls_server_name(o), Use!Hear(TRUE)>>)
          \in Seq(Simple)
    BY <1>a, Zenon DEF Use!http2_tls_server_name
  <2>3. Use!run_http2_client(o) \in Seq(Simple)
    BY <2>1, <2>2, Cat, Zenon DEF Use!run_http2_client
  <2> QED BY <1>b, <2>3, Zenon DEF Use!connect_http2_client, Use!h2_relay
<1>3. Use!connect_grpc_client(o) \in Seq(Harmless)
  <2>1. Use!run_grpc_client_stream \in Seq(Simple)
    BY Zenon DEF Use!run_grpc_client_stream
  <2>2. (IF o.tls = None THEN <<>> ELSE <<Use!grpc_tls_server_name(o), Use!Hear(TRUE)>>)
          \in Seq(Simple)
    BY <1>a, Zenon DEF Use!grpc_tls_server_name
  <2>3. Use!run_grpc_client(o) \in Seq(Simple)
    BY <2>1, <2>2, Cat, Zenon DEF Use!run_grpc_client
  <2> QED BY <1>b, <2>3, Zenon DEF Use!connect_grpc_client, Use!grpc_relay
<1>4. Use!connect_quic_client_stream(o) \in Seq(Harmless)
  <2>1. Use!run_quic_client(o) \in Seq(Simple)
    BY ChecksPass, Cat, Zenon DEF Use!run_quic_client, Use!quic_client_endpoint
  <2>2. /\ Use!Start(Use!run_quic_client(o), Use!relay_local_to_quic) \in Harmless
        /\ Use!validate_quic_transport(o) \in Harmless
        /\ Use!Local \in Harmless /\ Use!Await \in Harmless
    <3>1. Use!Start(Use!run_quic_client(o), Use!relay_local_to_quic)
            \in [does : {"start"}, steps : Seq(Simple), idle : BOOLEAN]
      BY ONLY <2>1 DEF Use!Start, Use!relay_local_to_quic
    <3> QED BY <3>1, ChecksPass, Zenon DEF Harmless
  <2> QED BY <2>2, Zenon DEF Use!connect_quic_client_stream
<1> QED BY <1>1, <1>2, <1>3, <1>4, ZenonT(30)

\* The streams of an accepted outbound that are sockets, or TLS on one.
LEMMA SocketsAreHarmless ==
  ASSUME NEW o, Accepted(o)
  PROVE  /\ (IF o.tls # None THEN Use!connect_trojan_tls_stream(o) ELSE Use!connect_target)
               \in Seq(Harmless)
         /\ (IF o.tls # None THEN Use!connect_vless_tls_stream(o) ELSE Use!connect_target)
               \in Seq(Harmless)
         /\ (IF o.tls # None THEN Use!connect_vmess_tls_stream(o) ELSE Use!connect_target)
               \in Seq(Harmless)
BY TransportsAreHarmless, PartsAreHarmless, SimpleIsHarmless, Zenon

\* What connect_trojan_tcp_outbound does, over every transport.
LEMMA TrojanIsHarmless ==
  ASSUME NEW o, Accepted(o), Use!Protocol(o) = "trojan"
  PROVE  Use!connect_trojan_tcp_outbound(o) \in Seq(Harmless)
<1> USE PartsAreHarmless, SimpleIsHarmless, TransportsAreHarmless, SocketsAreHarmless, Cat
<1>1. <<Use!trojan_outbound_server(o), Use!Check("invalid", ~Use!Blank(o.password)),
        Use!KnownNetwork(o)>> \in Seq(Harmless)
  <2>1. <<Use!trojan_outbound_server(o), Use!Check("invalid", ~Use!Blank(o.password)),
          Use!KnownNetwork(o)>> \in Seq(Simple)
    BY ONLY Accepted(o), Use!Protocol(o) = "trojan", ChecksPass, Tuples, Zenon
      DEF Use!trojan_outbound_server
  <2> QED BY ONLY <2>1, SimpleIsHarmless, Zenon
<1>2. Use!connect_trojan_websocket_tcp_outbound(o) \in Seq(Harmless)
  BY Zenon DEF Use!connect_trojan_websocket_tcp_outbound
<1>3. Use!connect_trojan_httpupgrade_tcp_outbound(o) \in Seq(Harmless)
  BY Zenon DEF Use!connect_trojan_httpupgrade_tcp_outbound
<1>4. Use!connect_trojan_grpc_tcp_outbound(o) \in Seq(Harmless)
  BY Zenon DEF Use!connect_trojan_grpc_tcp_outbound
<1>5. Use!Network(o) \in {"h2", "http"} => Use!connect_trojan_h2_tcp_outbound(o) \in Seq(Harmless)
  BY Zenon DEF Use!connect_trojan_h2_tcp_outbound
<1>6. Use!connect_trojan_quic_tcp_outbound(o) \in Seq(Harmless)
  BY Zenon DEF Use!connect_trojan_quic_tcp_outbound
<1>7. (IF o.tls # None THEN Use!connect_trojan_tls_tcp_outbound(o)
       ELSE Use!connect_target \o Use!write_trojan_tcp_request) \in Seq(Harmless)
  BY Zenon DEF Use!connect_trojan_tls_tcp_outbound
<1> DEFINE rest ==
      CASE Use!Network(o) = "ws" -> Use!connect_trojan_websocket_tcp_outbound(o)
        [] Use!Network(o) = "httpupgrade" -> Use!connect_trojan_httpupgrade_tcp_outbound(o)
        [] Use!Network(o) = "grpc" -> Use!connect_trojan_grpc_tcp_outbound(o)
        [] Use!Network(o) \in {"h2", "http"} -> Use!connect_trojan_h2_tcp_outbound(o)
        [] Use!Network(o) = "quic" -> Use!connect_trojan_quic_tcp_outbound(o)
        [] OTHER -> IF o.tls # None THEN Use!connect_trojan_tls_tcp_outbound(o)
                    ELSE Use!connect_target \o Use!write_trojan_tcp_request
<1>8. rest \in Seq(Harmless)
  BY ONLY <1>2, <1>3, <1>4, <1>5, <1>6, <1>7, SMTT(30)
<1> QED BY ONLY <1>1, <1>8, Cat, ZenonT(30) DEF Use!connect_trojan_tcp_outbound

\* What connect_vless_tcp_outbound does, over every transport.
LEMMA VlessIsHarmless ==
  ASSUME NEW o, Accepted(o), Use!Protocol(o) = "vless"
  PROVE  Use!connect_vless_tcp_outbound(o) \in Seq(Harmless)
<1>a. Use!VlessExchange(TRUE) \in Seq(Harmless) /\ Use!VlessExchange(FALSE) \in Seq(Harmless)
  BY PartsAreHarmless, SimpleIsHarmless, ZenonT(30)
<1> USE PartsAreHarmless, SimpleIsHarmless, TransportsAreHarmless, SocketsAreHarmless, Cat, <1>a
<1>1. <<Use!vless_outbound_server(o), Use!vless_outbound_user_id(o), Use!VlessFlow(o),
        Use!KnownNetwork(o)>> \in Seq(Harmless)
  <2>1. <<Use!vless_outbound_server(o), Use!vless_outbound_user_id(o), Use!VlessFlow(o),
          Use!KnownNetwork(o)>> \in Seq(Simple)
    BY ONLY Accepted(o), Use!Protocol(o) = "vless", ChecksPass, Tuples, Zenon
      DEF Use!vless_outbound_server
  <2> QED BY ONLY <2>1, SimpleIsHarmless, Zenon
<1>2. Use!connect_vless_websocket_tcp_outbound(o) \in Seq(Harmless)
  BY Zenon DEF Use!connect_vless_websocket_tcp_outbound
<1>3. Use!connect_vless_httpupgrade_tcp_outbound(o) \in Seq(Harmless)
  BY Zenon DEF Use!connect_vless_httpupgrade_tcp_outbound
<1>4. Use!connect_vless_grpc_tcp_outbound(o) \in Seq(Harmless)
  BY Zenon DEF Use!connect_vless_grpc_tcp_outbound
<1>5. Use!Network(o) \in {"h2", "http"} => Use!connect_vless_h2_tcp_outbound(o) \in Seq(Harmless)
  BY Zenon DEF Use!connect_vless_h2_tcp_outbound
<1>6. Use!connect_vless_quic_tcp_outbound(o) \in Seq(Harmless)
  BY Zenon DEF Use!connect_vless_quic_tcp_outbound
<1>7. (IF o.tls # None THEN Use!connect_vless_tls_tcp_outbound(o)
       ELSE Use!connect_target \o Use!VlessExchange(TRUE)) \in Seq(Harmless)
  BY Zenon DEF Use!connect_vless_tls_tcp_outbound
<1> DEFINE rest ==
      CASE Use!Network(o) = "ws" -> Use!connect_vless_websocket_tcp_outbound(o)
        [] Use!Network(o) = "httpupgrade" -> Use!connect_vless_httpupgrade_tcp_outbound(o)
        [] Use!Network(o) = "grpc" -> Use!connect_vless_grpc_tcp_outbound(o)
        [] Use!Network(o) \in {"h2", "http"} -> Use!connect_vless_h2_tcp_outbound(o)
        [] Use!Network(o) = "quic" -> Use!connect_vless_quic_tcp_outbound(o)
        [] OTHER -> IF o.tls # None THEN Use!connect_vless_tls_tcp_outbound(o)
                    ELSE Use!connect_target \o Use!VlessExchange(TRUE)
<1>8. rest \in Seq(Harmless)
  BY ONLY <1>2, <1>3, <1>4, <1>5, <1>6, <1>7, ZenonT(30)
<1> QED BY ONLY <1>1, <1>8, Cat, Zenon DEF Use!connect_vless_tcp_outbound

\* What VMess does for a stream and for a datagram, over every transport.
LEMMA VmessIsHarmless ==
  ASSUME NEW o, Accepted(o), Use!Protocol(o) = "vmess"
  PROVE  /\ Use!connect_vmess_tcp_outbound(o) \in Seq(Harmless)
         /\ Use!send_vmess_udp_outbound(o) \in Seq(Harmless)
<1> DEFINE socket == IF o.tls # None THEN Use!connect_vmess_tls_stream(o) ELSE Use!connect_target
<1>a. Use!write_vmess_request(o) \in Seq(Simple)
  BY ChecksPass, SimpleSteps, Tuples, Zenon DEF Use!write_vmess_request
<1>b. Use!write_vmess_request(o) \in Seq(Harmless)
  BY <1>a, SimpleIsHarmless, Zenon
<1>c. /\ Use!send_vmess_udp_over_stream(o, TRUE) \in Seq(Harmless)
      /\ Use!send_vmess_udp_over_stream(o, FALSE) \in Seq(Harmless)
  <2>1. /\ Use!read_vmess_response_header \in Seq(Simple)
        /\ <<Use!Say, Use!Hear(TRUE), Use!Dial>> \in Seq(Simple)
        /\ <<Use!Say, Use!Hear(FALSE), Use!Dial>> \in Seq(Simple)
    BY SimpleSteps, Tuples, Zenon DEF Use!read_vmess_response_header
  <2>2. /\ Use!send_vmess_udp_over_stream(o, TRUE) \in Seq(Simple)
        /\ Use!send_vmess_udp_over_stream(o, FALSE) \in Seq(Simple)
    BY <1>a, <2>1, Cat, Zenon DEF Use!send_vmess_udp_over_stream
  <2> QED BY <2>2, SimpleIsHarmless, Zenon
<1>d. <<Use!vmess_outbound_server(o), Use!KnownNetwork(o)>> \in Seq(Harmless)
  <2>1. <<Use!vmess_outbound_server(o), Use!KnownNetwork(o)>> \in Seq(Simple)
    BY ChecksPass, Tuples, Zenon DEF Use!vmess_outbound_server
  <2> QED BY <2>1, SimpleIsHarmless, Zenon
<1>e. socket \in Seq(Harmless)
  BY SocketsAreHarmless, Zenon
<1>f. /\ Use!connect_websocket_client \in Seq(Harmless)
      /\ Use!connect_httpupgrade_client \in Seq(Harmless)
      /\ Use!local_bridge_for_vmess \in Seq(Harmless)
      /\ Use!local_bridge_for_vmess_tcp \in Seq(Harmless)
  BY PartsAreHarmless, SimpleIsHarmless, Zenon
<1>1. /\ Use!connect_vmess_websocket_tcp_outbound(o) \in Seq(Harmless)
      /\ Use!connect_vmess_httpupgrade_tcp_outbound(o) \in Seq(Harmless)
  BY <1>b, <1>e, <1>f, Cat, Zenon
    DEF Use!connect_vmess_websocket_tcp_outbound, Use!connect_vmess_httpupgrade_tcp_outbound
<1>2. Use!connect_vmess_grpc_tcp_outbound(o) \in Seq(Harmless)
  BY <1>b, <1>f, Cat, TransportsAreHarmless, ZenonT(30) DEF Use!connect_vmess_grpc_tcp_outbound
<1>3. Use!Network(o) \in {"h2", "http"} => Use!connect_vmess_h2_tcp_outbound(o) \in Seq(Harmless)
  BY <1>b, <1>f, Cat, TransportsAreHarmless, ZenonT(30) DEF Use!connect_vmess_h2_tcp_outbound
<1>4. Use!connect_vmess_quic_tcp_outbound(o) \in Seq(Harmless)
  BY <1>b, <1>f, Cat, TransportsAreHarmless, Zenon DEF Use!connect_vmess_quic_tcp_outbound
<1>5. (IF o.tls # None THEN Use!connect_vmess_tls_tcp_outbound(o)
       ELSE Use!connect_target \o Use!write_vmess_request(o) \o Use!local_bridge_for_vmess_tcp)
         \in Seq(Harmless)
  BY <1>b, <1>e, <1>f, Cat, ZenonT(30) DEF Use!connect_vmess_tls_tcp_outbound
<1>6. Use!connect_vmess_tcp_outbound(o) \in Seq(Harmless)
  <2> DEFINE rest ==
        CASE Use!Network(o) = "ws" -> Use!connect_vmess_websocket_tcp_outbound(o)
          [] Use!Network(o) = "httpupgrade" -> Use!connect_vmess_httpupgrade_tcp_outbound(o)
          [] Use!Network(o) = "grpc" -> Use!connect_vmess_grpc_tcp_outbound(o)
          [] Use!Network(o) \in {"h2", "http"} -> Use!connect_vmess_h2_tcp_outbound(o)
          [] Use!Network(o) = "quic" -> Use!connect_vmess_quic_tcp_outbound(o)
          [] OTHER -> IF o.tls # None THEN Use!connect_vmess_tls_tcp_outbound(o)
                      ELSE Use!connect_target \o Use!write_vmess_request(o)
                             \o Use!local_bridge_for_vmess_tcp
  <2>1. rest \in Seq(Harmless)
    BY ONLY <1>1, <1>2, <1>3, <1>4, <1>5, SMTT(30)
  <2> QED BY ONLY <1>d, <2>1, Cat, Zenon DEF Use!connect_vmess_tcp_outbound
<1>7. Use!send_vmess_udp_outbound(o) \in Seq(Harmless)
  <2> DEFINE Over(timed) == Use!send_vmess_udp_over_stream(o, timed)
             rest ==
               CASE Use!Network(o) = "ws" -> socket \o Use!connect_websocket_client \o Over(TRUE)
                 [] Use!Network(o) = "httpupgrade" ->
                      socket \o Use!connect_httpupgrade_client \o Over(TRUE)
                 [] Use!Network(o) = "grpc" -> Use!connect_grpc_client(o) \o Over(FALSE)
                 [] Use!Network(o) \in {"h2", "http"} ->
                      Use!connect_http2_client(o) \o Over(FALSE)
                 [] Use!Network(o) = "quic" -> Use!connect_quic_client_stream(o) \o Over(FALSE)
                 [] OTHER -> socket \o Over(TRUE)
  <2>1. /\ socket \o Use!connect_websocket_client \o Over(TRUE) \in Seq(Harmless)
        /\ socket \o Use!connect_httpupgrade_client \o Over(TRUE) \in Seq(Harmless)
        /\ socket \o Over(TRUE) \in Seq(Harmless)
    BY <1>c, <1>e, <1>f, Cat, Zenon
  <2>2. /\ Use!connect_grpc_client(o) \o Over(FALSE) \in Seq(Harmless)
        /\ Use!connect_quic_client_stream(o) \o Over(FALSE) \in Seq(Harmless)
        /\ Use!Network(o) \in {"h2", "http"} =>
             Use!connect_http2_client(o) \o Over(FALSE) \in Seq(Harmless)
    BY <1>c, Cat, TransportsAreHarmless, ZenonT(30)
  <2>3. rest \in Seq(Harmless)
    BY ONLY <2>1, <2>2, Zenon
  <2> QED BY ONLY <1>d, <2>3, Cat, ZenonT(30) DEF Use!send_vmess_udp_outbound
<1> QED BY <1>6, <1>7

\* The protocols without a transport of their own.
LEMMA ProxiesAreHarmless ==
  ASSUME NEW o, Accepted(o)
  PROVE  /\ Use!Protocol(o) # "freedom" =>
              /\ Use!connect_socks5(o) \in Seq(Simple)
              /\ Use!send_socks5_udp(o) \in Seq(Simple)
              /\ Use!connect_http(o) \in Seq(Simple)
         /\ Use!Protocol(o) = "shadowsocks" =>
              /\ Use!connect_shadowsocks_tcp_outbound(o) \in Seq(Simple)
              /\ Use!send_shadowsocks_udp_outbound(o) \in Seq(Simple)
         /\ Use!send_direct_udp \in Seq(Simple)
<1> USE SimpleSteps, PartsAreHarmless, Tuples, Cat
<1>1. Use!Protocol(o) # "freedom" => Use!connect_proxy(o) \in Seq(Simple)
  BY ChecksPass, Zenon DEF Use!connect_proxy
<1>2. Use!Protocol(o) # "freedom" => Use!connect_socks5(o) \in Seq(Simple)
  BY <1>1, Zenon DEF Use!connect_socks5, Use!drain_socks5_bound_address
<1>3. Use!Protocol(o) # "freedom" => Use!connect_http(o) \in Seq(Simple)
  BY <1>1, Zenon DEF Use!connect_http, Use!read_http_connect_response
<1>4. Use!Protocol(o) # "freedom" => Use!send_socks5_udp(o) \in Seq(Simple)
  <2>1. <<Use!Say, Use!read_socks5_reply_target, Use!relay_socket_addr, Use!Say, Use!Receive,
          Use!parse_socks5_udp_packet, Use!Dial>> \in Seq(Simple)
    BY LongTuples, Zenon DEF Use!read_socks5_reply_target, Use!relay_socket_addr,
         Use!parse_socks5_udp_packet
  <2> QED BY <1>1, <2>1, Zenon DEF Use!send_socks5_udp
<1>5. ASSUME Use!Protocol(o) = "shadowsocks"
      PROVE  /\ Use!connect_shadowsocks_tcp_outbound(o) \in Seq(Simple)
             /\ Use!send_shadowsocks_udp_outbound(o) \in Seq(Simple)
  <2>1. /\ Use!ShadowsocksMethod_parse(o) \in Simple
        /\ Use!shadowsocks_outbound_password(o) \in Simple
        /\ Use!shadowsocks_outbound_server(o) \in Simple
    BY <1>5, ChecksPass, Zenon DEF Use!shadowsocks_outbound_server
  <2>3. Use!send_shadowsocks_udp_outbound(o) \in Seq(Simple)
    BY <2>1, LongTuples, Zenon DEF Use!send_shadowsocks_udp_outbound
  <2>4. Use!connect_shadowsocks_tcp_outbound(o) \in Seq(Simple)
    BY <2>1, Zenon DEF Use!connect_shadowsocks_tcp_outbound
  <2> QED BY <2>3, <2>4, Zenon
<1>6. Use!send_direct_udp \in Seq(Simple)
  BY Zenon DEF Use!send_direct_udp
<1> QED BY <1>2, <1>3, <1>4, <1>5, <1>6, ZenonT(30)

\* Protocols without datagrams.
NoDatagrams == {"http", "trojan", "vless"}

\* No connector of an accepted outbound holds a check that fails, but the one
\* that refuses a datagram the protocol cannot carry.
LEMMA ConnectorsAreHarmless ==
  ASSUME NEW o, Accepted(o)
  PROVE  /\ Use!connect_tcp_outbound(o) \in Seq(Harmless)
         /\ Use!Protocol(o) \notin NoDatagrams => Use!send_udp_outbound(o) \in Seq(Harmless)
         /\ Use!Protocol(o) \in NoDatagrams =>
              Use!send_udp_outbound(o) = <<Use!Check("unsupported", FALSE)>>
<1>1. Use!Protocol(o) \in {"freedom", "socks", "socks5", "http", "shadowsocks", "trojan",
                            "vless", "vmess"}
  BY Zenon DEF Accepted, Use!validate_outbound, Use!Protocol
<1>2. /\ Use!connect_target \in Seq(Harmless) /\ Use!send_direct_udp \in Seq(Harmless)
      /\ Use!Protocol(o) \in {"socks", "socks5", "http"} =>
           /\ Use!connect_socks5(o) \in Seq(Harmless)
           /\ Use!send_socks5_udp(o) \in Seq(Harmless)
           /\ Use!connect_http(o) \in Seq(Harmless)
      /\ Use!Protocol(o) = "shadowsocks" =>
           /\ Use!connect_shadowsocks_tcp_outbound(o) \in Seq(Harmless)
           /\ Use!send_shadowsocks_udp_outbound(o) \in Seq(Harmless)
  BY PartsAreHarmless, ProxiesAreHarmless, SimpleIsHarmless, Zenon
<1>3. /\ Use!Protocol(o) = "trojan" => Use!connect_trojan_tcp_outbound(o) \in Seq(Harmless)
      /\ Use!Protocol(o) = "vless" => Use!connect_vless_tcp_outbound(o) \in Seq(Harmless)
      /\ Use!Protocol(o) = "vmess" =>
           /\ Use!connect_vmess_tcp_outbound(o) \in Seq(Harmless)
           /\ Use!send_vmess_udp_outbound(o) \in Seq(Harmless)
  BY TrojanIsHarmless, VlessIsHarmless, VmessIsHarmless, Zenon
<1>4. Use!connect_tcp_outbound(o) \in Seq(Harmless)
  BY ONLY <1>1, <1>2, <1>3, Zenon DEF Use!connect_tcp_outbound
<1>5. Use!Protocol(o) \notin NoDatagrams => Use!send_udp_outbound(o) \in Seq(Harmless)
  BY ONLY <1>1, <1>2, <1>3, Zenon DEF Use!send_udp_outbound, NoDatagrams
<1>6. Use!Protocol(o) \in NoDatagrams =>
        Use!send_udp_outbound(o) = <<Use!Check("unsupported", FALSE)>>
  BY ONLY TRUE, Zenon DEF Use!send_udp_outbound, NoDatagrams
<1> QED BY <1>4, <1>5, <1>6, Zenon

\* The inductive invariant of one use of an accepted outbound: all that is left
\* to do is harmless, unless a datagram was asked of a protocol that has none.
UseInv ==
  Accepted(outbound) =>
    /\ ready \in {"none", "ok", "error"}
    /\ task \in [state : {"none", "steps", "relays", "over"}, steps : Seq(Simple), idle : BOOLEAN]
    /\ \/ steps \in Seq(Harmless) /\ result \in {"none", "ok", "error"}
       \/ /\ udp /\ Use!Protocol(outbound) \in NoDatagrams
          /\ \/ steps = <<Use!Check("unsupported", FALSE)>> /\ result = "none"
             \/ steps = <<>> /\ result = "unsupported"

\* How a harmless step can end.
LEMMA HarmlessOutcomes ==
  ASSUME ready \in {"none", "ok", "error"}, NEW s \in Harmless
  PROVE  /\ Use!Outcomes(s) \subseteq {"done", "error"}
         /\ s.does = "start" => s.steps \in Seq(Simple) /\ s.idle \in BOOLEAN
<1>1. CASE s \in {Use!Check(e, TRUE) : e \in {"invalid", "unsupported"}}
  BY <1>1 DEF Use!Check, Use!Outcomes
<1>2. CASE s \in {Use!Dial, Use!Say, Use!Hear(TRUE), Use!Hear(FALSE), Use!Receive, Use!Await,
                  Use!Local}
  BY <1>2 DEF Use!Dial, Use!Say, Use!Hear, Use!Receive, Use!Await, Use!Local, Use!Outcomes
<1>3. CASE s \in [does : {"bridge"}, tells : BOOLEAN, header : {"no", "at once", "once used"},
                 timed : BOOLEAN]
  BY <1>3, Zenon DEF Use!Outcomes
<1>4. CASE s \in [does : {"start"}, steps : Seq(Simple), idle : BOOLEAN]
  BY <1>4 DEF Use!Outcomes
<1> QED BY <1>1, <1>2, <1>3, <1>4, ZenonT(30) DEF Harmless, Simple

\* The invariant holds when the connector is called.
LEMMA UseInvInit ==
  ASSUME Use!Init
  PROVE  UseInv
<1> SUFFICES ASSUME Accepted(outbound) PROVE UseInv
  BY ZenonT(30) DEF UseInv
<1>1. Use!NoWorker \in [state : {"none", "steps", "relays", "over"}, steps : Seq(Simple),
                       idle : BOOLEAN]
  BY Tuples DEF Use!NoWorker
<1>2. \/ steps \in Seq(Harmless)
      \/ udp /\ Use!Protocol(outbound) \in NoDatagrams /\ steps = <<Use!Check("unsupported", FALSE)>>
  BY ConnectorsAreHarmless, Zenon DEF Use!Init
<1> QED BY <1>1, <1>2, Zenon DEF Use!Init, UseInv

\* Every step of the caller, its worker and its bridge keeps it.
LEMMA UseInvStep ==
  ASSUME UseInv, [Use!Next]_(Use!vars)
  PROVE  UseInv'
<1>1. outbound' = outbound /\ udp' = udp
  BY Zenon DEF Use!Next, Use!Caller, Use!Worker, Use!Relay, Use!Step, Use!recv_udp_response,
       Use!StartWorker, Use!StartBridge, Use!Return, Use!WorkerStep, Use!write_h2_data,
       Use!read_h2_data, Use!BridgeSet, Use!BridgeUsed, Use!BridgeUp, Use!BridgeHears,
       Use!BridgeDown, Use!BridgeEnds, Use!UserGoes, Use!ServerFails, Use!ServerCloses, Use!vars
<1> SUFFICES ASSUME Accepted(outbound) PROVE UseInv'
  BY <1>1, Zenon DEF UseInv
<1> DEFINE Tasks == [state : {"none", "steps", "relays", "over"}, steps : Seq(Simple),
                     idle : BOOLEAN]
           Left(s, r) ==
             \/ s \in Seq(Harmless) /\ r \in {"none", "ok", "error"}
             \/ /\ udp /\ Use!Protocol(outbound) \in NoDatagrams
                /\ \/ s = <<Use!Check("unsupported", FALSE)>> /\ r = "none"
                   \/ s = <<>> /\ r = "unsupported"
<1>2. ready \in {"none", "ok", "error"} /\ task \in Tasks /\ Left(steps, result)
  BY Zenon DEF UseInv
<1>3. SUFFICES /\ ready' \in {"none", "ok", "error"} /\ task' \in Tasks
               /\ Left(steps', result')
  BY <1>1, <1>3, Zenon DEF UseInv
<1>a. <<>> \in Seq(Harmless)
  BY Tuples, Zenon
<1>b. ASSUME steps \in Seq(Harmless), steps # <<>>
      PROVE  Head(steps) \in Harmless /\ Tail(steps) \in Seq(Harmless)
  BY <1>b
<1>c. ASSUME steps = <<Use!Check("unsupported", FALSE)>>
      PROVE  /\ Head(steps) = Use!Check("unsupported", FALSE)
             /\ Head(steps).does = "check"
             /\ Use!Outcomes(Head(steps)) = {"unsupported"}
  BY <1>c DEF Use!Check, Use!Outcomes
<1>4. CASE Use!Step
  <2>1. PICK outcome \in Use!Outcomes(Head(steps)) : Use!Advance(outcome)
    BY <1>4, Zenon DEF Use!Step
  <2>2. steps # <<>> /\ UNCHANGED <<ready, task>>
    BY <1>4, Zenon DEF Use!Step
  <2>3. CASE steps \in Seq(Harmless) /\ result \in {"none", "ok", "error"}
    <3>1. outcome \in {"done", "error"}
      BY <1>2, <1>b, <2>1, <2>2, <2>3, HarmlessOutcomes, ZenonT(30)
    <3>2. steps' \in Seq(Harmless) /\ result' \in {"none", "ok", "error"}
      BY <1>a, <1>b, <2>1, <2>2, <2>3, <3>1, ZenonT(30) DEF Use!Advance
    <3> QED BY <1>2, <2>2, <3>2, Zenon
  <2>4. CASE steps = <<Use!Check("unsupported", FALSE)>> /\ ~(steps \in Seq(Harmless))
    <3>1. outcome = "unsupported"
      BY <1>c, <2>1, <2>4, Zenon
    <3>2. steps' = <<>> /\ result' = "unsupported"
      BY <2>1, <3>1 DEF Use!Advance
    <3> QED BY <1>2, <2>2, <2>4, <3>2, Zenon
  <2> QED BY <1>2, <2>2, <2>3, <2>4, <1>a, ZenonT(30)
<1>5. CASE Use!recv_udp_response
  <2>1. steps # <<>> /\ Head(steps).does = "receive" /\ UNCHANGED <<ready, task>>
    BY <1>5, Zenon DEF Use!recv_udp_response
  <2>2. steps \in Seq(Harmless) /\ result \in {"none", "ok", "error"}
    BY <1>2, <1>c, <2>1, Zenon
  <2>3. \/ UNCHANGED <<steps, result>>
        \/ \E outcome \in {"done", "error"} : Use!Advance(outcome)
    BY <1>5 DEF Use!recv_udp_response
  <2>4. steps' \in Seq(Harmless) /\ result' \in {"none", "ok", "error"}
    BY <1>a, <1>b, <2>1, <2>2, <2>3, Zenon DEF Use!Advance
  <2> QED BY <1>2, <2>1, <2>4, Zenon
<1>6. CASE Use!StartWorker
  <2>1. steps # <<>> /\ Head(steps).does = "start" /\ Use!Advance("done") /\ UNCHANGED ready
    BY <1>6, Zenon DEF Use!StartWorker
  <2>2. steps \in Seq(Harmless) /\ result \in {"none", "ok", "error"}
    BY <1>2, <1>c, <2>1, Zenon
  <2>3. Head(steps).steps \in Seq(Simple) /\ Head(steps).idle \in BOOLEAN
    BY <1>2, <1>b, <2>1, <2>2, HarmlessOutcomes, ZenonT(30)
  <2>4. task' \in Tasks
    BY <1>6, <2>3, SMTT(30) DEF Use!StartWorker
  <2>5. steps' \in Seq(Harmless) /\ result' \in {"none", "ok", "error"}
    BY <1>b, <2>1, <2>2 DEF Use!Advance
  <2> QED BY <1>2, <2>1, <2>4, <2>5, Zenon
<1>7. CASE Use!StartBridge
  <2>1. /\ steps # <<>> /\ Head(steps).does = "bridge" /\ UNCHANGED <<ready, task>>
        /\ Use!Advance("done") \/ Use!Advance("error")
    BY <1>7, Zenon DEF Use!StartBridge
  <2>2. steps \in Seq(Harmless) /\ result \in {"none", "ok", "error"}
    BY <1>2, <1>c, <2>1, Zenon
  <2>3. steps' \in Seq(Harmless) /\ result' \in {"none", "ok", "error"}
    BY <1>a, <1>b, <2>1, <2>2, Zenon DEF Use!Advance
  <2> QED BY <1>2, <2>1, <2>3, Zenon
<1>8. CASE Use!Return
  <2>1. steps = <<>> /\ result = "none" /\ result' = "ok" /\ UNCHANGED <<steps, ready, task>>
    BY <1>8, Zenon DEF Use!Return
  <2> QED BY <1>2, <1>a, <2>1, Zenon
<1>9. CASE Use!WorkerStep
  <2>1. UNCHANGED <<steps, result>> /\ task.steps \in Seq(Simple)
    BY <1>2, <1>9 DEF Use!WorkerStep
  <2>2. CASE task.steps = <<>>
    <3>1. task' = [task EXCEPT !.state = "relays"] /\ ready' = "ok"
      BY <1>9, <2>2, Zenon DEF Use!WorkerStep
    <3> QED BY <1>2, <2>1, <3>1, Zenon
  <2>3. CASE task.steps # <<>>
    <3>1. Head(task.steps) \in Simple /\ Tail(task.steps) \in Seq(Simple)
      BY <2>1, <2>3
    <3>2. Use!Outcomes(Head(task.steps)) \subseteq {"done", "error"}
      BY <1>2, <3>1, HarmlessOutcomes, Zenon DEF Harmless
    <3>3. \/ task' = [task EXCEPT !.steps = Tail(@)] /\ UNCHANGED ready
          \/ task' = [task EXCEPT !.state = "over", !.steps = <<>>] /\ ready' = "error"
      BY <1>9, <2>3, <3>2, Zenon DEF Use!WorkerStep
    <3>4. task' \in Tasks /\ ready' \in {"none", "ok", "error"}
      BY <1>2, <3>1, <3>3, Tuples, ZenonT(30)
    <3> QED BY <1>2, <2>1, <3>4, Zenon
  <2> QED BY <2>2, <2>3, Zenon
<1>10. CASE Use!read_h2_data
  <2>1. task' = [task EXCEPT !.state = "over"] /\ UNCHANGED <<steps, result, ready>>
    BY <1>10, Zenon DEF Use!read_h2_data
  <2> QED BY <1>2, <2>1, Zenon
<1>11. CASE UNCHANGED <<steps, result, ready, task>>
  BY <1>2, <1>11, Zenon
<1>12. CASE \/ Use!write_h2_data \/ Use!Relay \/ Use!BridgeUsed \/ Use!UserGoes
            \/ Use!ServerFails \/ Use!ServerCloses \/ UNCHANGED Use!vars
  BY <1>11, <1>12, Zenon DEF Use!write_h2_data, Use!Relay, Use!BridgeSet, Use!BridgeUsed, Use!BridgeUp,
       Use!BridgeHears, Use!BridgeDown, Use!BridgeEnds, Use!UserGoes, Use!ServerFails,
       Use!ServerCloses, Use!vars
<1> QED BY <1>4, <1>5, <1>6, <1>7, <1>8, <1>9, <1>10, <1>12, ZenonT(30)
      DEF Use!Next, Use!Caller, Use!Worker

\* AcceptedOutboundsWork (OutboundConfig::validate against the connectors) for
\* every outbound, whatever the server and the worker of the transport do: no
\* use of an accepted outbound is refused for the sake of its configuration.
THEOREM OutboundsWork == Use!Spec => []AcceptedOutboundsWork
<1>1. Use!Init => UseInv
  BY UseInvInit
<1>2. UseInv /\ [Use!Next]_(Use!vars) => UseInv'
  BY UseInvStep
<1>3. UseInv => AcceptedOutboundsWork
  BY Zenon DEF UseInv, Accepted, AcceptedOutboundsWork, Use!AcceptedOutboundsWork, NoDatagrams
<1> QED BY <1>1, <1>2, <1>3, PTL DEF Use!Spec
=============================================================================
