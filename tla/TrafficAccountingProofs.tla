------------------------ MODULE TrafficAccountingProofs ------------------------
(***************************************************************************)
(* Proofs about TrafficAccounting, for any keys, any sharding, any width   *)
(* of the counters and any amounts.                                        *)
(***************************************************************************)
EXTENDS TrafficAccounting, TLAPS

\* One direction of one key adds up: never too much, and exactly what was
\* counted while that fits a counter.
Balanced(o, r, w, c, d) ==
  /\ o + r + w <= c + d
  /\ c + d <= MaxBytes => o + r + w = c + d

Balance ==
  \A k \in Keys :
    /\ Balanced(owed[k].upload, reported[k].upload, written_off[k].upload,
                counted[k].upload, doubled[k].upload)
    /\ Balanced(owed[k].download, reported[k].download, written_off[k].download,
                counted[k].download, doubled[k].download)

\* The batch is empty between exchanges, a drain has only filled it from the
\* shards it has passed, and only records of the batch are put back.
BatchOK ==
  /\ agent = "idle" => batch = Empty
  /\ agent = "draining" => \A k \in Keys : batch[k] # None => ShardOf[k] < shard
  /\ agent = "requeueing" => \A k \in todo : batch[k] # None

IInv == TypeOK /\ BatchOK /\ Balance

-----------------------------------------------------------------------------
(* Arithmetic.                                                             *)

LEMMA Saturates ==
  ASSUME NEW a \in 0..MaxBytes, NEW b \in 0..MaxBytes
  PROVE  /\ saturating_add(a, b) \in 0..MaxBytes
         /\ saturating_add(a, b) <= a + b
         /\ a + b <= MaxBytes => saturating_add(a, b) = a + b
BY BytesAssumption DEF saturating_add

LEMMA BalancedCount ==
  ASSUME NEW o \in Nat, NEW r \in Nat, NEW w \in Nat, NEW c \in Nat, NEW d \in Nat,
         Balanced(o, r, w, c, d), NEW a \in Nat, NEW o1 \in Nat,
         o1 <= o + a, o + a <= MaxBytes => o1 = o + a
  PROVE  Balanced(o1, r, w, c + a, d)
BY BytesAssumption DEF Balanced

LEMMA BalancedMiss ==
  ASSUME NEW o \in Nat, NEW r \in Nat, NEW w \in Nat, NEW c \in Nat, NEW d \in Nat,
         Balanced(o, r, w, c, d), NEW a \in Nat
  PROVE  Balanced(o, r, w + a, c + a, d)
BY BytesAssumption DEF Balanced

LEMMA BalancedDouble ==
  ASSUME NEW o \in Nat, NEW r \in Nat, NEW w \in Nat, NEW c \in Nat, NEW d \in Nat,
         Balanced(o, r, w, c, d), NEW a \in Nat
  PROVE  Balanced(o + a, r, w, c, d + a)
BY BytesAssumption DEF Balanced

LEMMA BalancedMerge ==
  ASSUME NEW o \in Nat, NEW r \in Nat, NEW w \in Nat, NEW c \in Nat, NEW d \in Nat,
         Balanced(o, r, w, c, d), NEW o1 \in Nat, o1 <= o, o <= MaxBytes => o1 = o
  PROVE  Balanced(o1, r, w, c, d)
BY BytesAssumption DEF Balanced

LEMMA BalancedSettle ==
  ASSUME NEW o \in Nat, NEW r \in Nat, NEW w \in Nat, NEW c \in Nat, NEW d \in Nat,
         NEW a \in Nat, Balanced(o + a, r, w, c, d)
  PROVE  Balanced(o, r + a, w, c, d) /\ Balanced(o, r, w + a, c, d)
BY BytesAssumption DEF Balanced

-----------------------------------------------------------------------------
(* Records and tables.                                                     *)

LEMMA AmountsOfRecord ==
  ASSUME NEW r \in TrafficDelta \cup {None}
  PROVE  Upload(r) \in 0..MaxBytes /\ Download(r) \in 0..MaxBytes
BY BytesAssumption DEF Upload, Download, TrafficDelta

LEMMA AddDelta ==
  ASSUME NEW e \in TrafficDelta \cup {None}, NEW r \in TrafficDelta
  PROVE  /\ add_delta(e, r) \in TrafficDelta
         /\ Upload(add_delta(e, r)) = saturating_add(Upload(e), r.upload)
         /\ Download(add_delta(e, r)) = saturating_add(Download(e), r.download)
<1>1. /\ Upload(e) \in 0..MaxBytes /\ Download(e) \in 0..MaxBytes
      /\ r.upload \in 0..MaxBytes /\ r.download \in 0..MaxBytes
  BY AmountsOfRecord DEF TrafficDelta
<1>2. add_delta(e, r) \in TrafficDelta
  BY <1>1, Saturates DEF add_delta, TrafficDelta
<1>3. add_delta(e, r) # None
  BY <1>2, NoneAssumption DEF TrafficDelta
<1> QED
  BY <1>2, <1>3 DEF Upload, Download, add_delta

LEMMA PlusAmounts ==
  ASSUME NEW a \in [upload : Nat, download : Nat], NEW r \in TrafficDelta \cup {None}
  PROVE  /\ Plus(a, r) \in [upload : Nat, download : Nat]
         /\ Plus(a, r).upload = a.upload + Upload(r)
         /\ Plus(a, r).download = a.download + Download(r)
BY AmountsOfRecord, BytesAssumption DEF Plus

LEMMA PlusAllAmounts ==
  ASSUME NEW book \in [Keys -> [upload : Nat, download : Nat]],
         NEW records \in [Keys -> TrafficDelta \cup {None}]
  PROVE  /\ PlusAll(book, records) \in [Keys -> [upload : Nat, download : Nat]]
         /\ \A k \in Keys :
              /\ PlusAll(book, records)[k].upload = book[k].upload + Upload(records[k])
              /\ PlusAll(book, records)[k].download = book[k].download + Download(records[k])
BY PlusAmounts DEF PlusAll

LEMMA UnsettledType ==
  ASSUME TypeOK, NEW k \in Keys
  PROVE  Unsettled(k) \in TrafficDelta \cup {None}
BY DEF TypeOK, Unsettled

\* What is owed is the sum of the three places.
OwedIsSum ==
  \A k \in Keys :
    /\ owed[k].upload = Upload(svc[k]) + Upload(rt[k]) + Upload(Unsettled(k))
    /\ owed[k].download = Download(svc[k]) + Download(rt[k]) + Download(Unsettled(k))
    /\ {Upload(svc[k]), Upload(rt[k]), Upload(Unsettled(k))} \subseteq 0..MaxBytes
    /\ {Download(svc[k]), Download(rt[k]), Download(Unsettled(k))} \subseteq 0..MaxBytes

LEMMA OwedAmounts == TypeOK => OwedIsSum
<1> SUFFICES ASSUME TypeOK, NEW k \in Keys
             PROVE  /\ owed[k].upload = Upload(svc[k]) + Upload(rt[k]) + Upload(Unsettled(k))
                    /\ owed[k].download
                         = Download(svc[k]) + Download(rt[k]) + Download(Unsettled(k))
                    /\ {Upload(svc[k]), Upload(rt[k]), Upload(Unsettled(k))}
                         \subseteq 0..MaxBytes
                    /\ {Download(svc[k]), Download(rt[k]), Download(Unsettled(k))}
                         \subseteq 0..MaxBytes
  BY ZenonT(30) DEF OwedIsSum
<1>1. /\ svc[k] \in TrafficDelta \cup {None} /\ rt[k] \in TrafficDelta \cup {None}
      /\ Unsettled(k) \in TrafficDelta \cup {None}
  BY UnsettledType DEF TypeOK
<1>2. /\ Upload(svc[k]) \in 0..MaxBytes /\ Upload(rt[k]) \in 0..MaxBytes
      /\ Upload(Unsettled(k)) \in 0..MaxBytes /\ Download(svc[k]) \in 0..MaxBytes
      /\ Download(rt[k]) \in 0..MaxBytes /\ Download(Unsettled(k)) \in 0..MaxBytes
  BY <1>1, AmountsOfRecord
<1>3. owed[k] = Plus(Plus(Plus(Zero, svc[k]), rt[k]), Unsettled(k))
  BY DEF owed
<1>4. /\ owed[k].upload = Upload(svc[k]) + Upload(rt[k]) + Upload(Unsettled(k))
      /\ owed[k].download = Download(svc[k]) + Download(rt[k]) + Download(Unsettled(k))
  BY <1>2, <1>3, BytesAssumption DEF Plus, Zero
<1> QED
  BY <1>2, <1>4

LEMMA OwedAmountsNext == (TypeOK => OwedIsSum)'
BY OwedAmounts, PTL
-----------------------------------------------------------------------------
(* How the steps move bytes.                                               *)

Amount == [upload : Nat, download : Nat]

LEMMA BooksType ==
  ASSUME TypeOK, NEW k \in Keys
  PROVE  /\ counted[k].upload \in Nat /\ counted[k].download \in Nat
         /\ doubled[k].upload \in Nat /\ doubled[k].download \in Nat
         /\ reported[k].upload \in Nat /\ reported[k].download \in Nat
         /\ written_off[k].upload \in Nat /\ written_off[k].download \in Nat
         /\ owed[k].upload \in Nat /\ owed[k].download \in Nat
<1>1. /\ counted[k] \in Amount /\ doubled[k] \in Amount
      /\ reported[k] \in Amount /\ written_off[k] \in Amount
  BY DEF TypeOK, Amount
<1>2. OwedIsSum
  BY OwedAmounts
<1>3. owed[k].upload \in Nat /\ owed[k].download \in Nat
  BY <1>2, BytesAssumption DEF OwedIsSum
<1> HIDE DEF owed
<1> QED
  BY <1>1, <1>3 DEF Amount

\* A step that leaves the books alone and moves records between the places.
LEMMA OwedKept ==
  ASSUME IInv, TypeOK', UNCHANGED books,
         \A k \in Keys :
           /\ (Upload(svc[k]) + Upload(rt[k]) + Upload(Unsettled(k)))'
                = Upload(svc[k]) + Upload(rt[k]) + Upload(Unsettled(k))
           /\ (Download(svc[k]) + Download(rt[k]) + Download(Unsettled(k)))'
                = Download(svc[k]) + Download(rt[k]) + Download(Unsettled(k))
  PROVE  Balance'
<1>1. OwedIsSum /\ OwedIsSum'
  BY OwedAmounts, OwedAmountsNext DEF IInv
<1>2. \A k \in Keys : owed'[k].upload = owed[k].upload /\ owed'[k].download = owed[k].download
  <2> HIDE DEF owed
  <2> QED
    BY <1>1, Zenon DEF OwedIsSum
<1> HIDE DEF owed
<1> QED
  BY <1>2 DEF IInv, Balance, books

\* A step that takes amounts out of what is owed and books them as reported
\* or written off.
LEMMA OwedSettled ==
  ASSUME IInv, TypeOK', NEW records \in [Keys -> TrafficDelta \cup {None}],
         UNCHANGED <<counted, doubled>>,
         \/ reported' = PlusAll(reported, records) /\ UNCHANGED written_off
         \/ written_off' = PlusAll(written_off, records) /\ UNCHANGED reported,
         \A k \in Keys :
           /\ (Upload(svc[k]) + Upload(rt[k]) + Upload(Unsettled(k)))' + Upload(records[k])
                = Upload(svc[k]) + Upload(rt[k]) + Upload(Unsettled(k))
           /\ (Download(svc[k]) + Download(rt[k]) + Download(Unsettled(k)))'
                + Download(records[k])
                = Download(svc[k]) + Download(rt[k]) + Download(Unsettled(k))
  PROVE  Balance'
<1>1. OwedIsSum /\ OwedIsSum'
  BY OwedAmounts, OwedAmountsNext DEF IInv
<1> SUFFICES ASSUME NEW k \in Keys
             PROVE  /\ Balanced(owed'[k].upload, reported'[k].upload, written_off'[k].upload,
                                counted[k].upload, doubled[k].upload)
                    /\ Balanced(owed'[k].download, reported'[k].download,
                                written_off'[k].download, counted[k].download,
                                doubled[k].download)
  BY DEF Balance
<1> DEFINE u == Upload(records[k])
           d == Download(records[k])
<1>2. u \in Nat /\ d \in Nat
  BY AmountsOfRecord, BytesAssumption
<1>3. /\ owed'[k].upload \in Nat /\ owed'[k].download \in Nat
      /\ owed[k].upload = owed'[k].upload + u
      /\ owed[k].download = owed'[k].download + d
  <2> HIDE DEF owed, u, d
  <2>1. /\ owed'[k].upload + u = owed[k].upload /\ owed'[k].download + d = owed[k].download
    BY <1>1 DEF OwedIsSum, u, d
  <2>2. owed'[k].upload \in Nat /\ owed'[k].download \in Nat
    BY <1>1, BytesAssumption DEF OwedIsSum
  <2> QED
    BY <2>1, <2>2
<1>4. /\ Balanced(owed[k].upload, reported[k].upload, written_off[k].upload,
                  counted[k].upload, doubled[k].upload)
      /\ Balanced(owed[k].download, reported[k].download, written_off[k].download,
                  counted[k].download, doubled[k].download)
  BY DEF IInv, Balance
<1>5. /\ counted[k].upload \in Nat /\ counted[k].download \in Nat
      /\ doubled[k].upload \in Nat /\ doubled[k].download \in Nat
      /\ reported[k].upload \in Nat /\ reported[k].download \in Nat
      /\ written_off[k].upload \in Nat /\ written_off[k].download \in Nat
  BY BooksType DEF IInv
<1>6. /\ reported \in [Keys -> Amount] /\ written_off \in [Keys -> Amount]
  BY DEF IInv, TypeOK, Amount
<1>7. \/ /\ reported'[k].upload = reported[k].upload + u
         /\ reported'[k].download = reported[k].download + d
         /\ written_off' = written_off
      \/ /\ written_off'[k].upload = written_off[k].upload + u
         /\ written_off'[k].download = written_off[k].download + d
         /\ reported' = reported
  BY <1>6, PlusAllAmounts DEF Amount
<1>8. /\ Balanced(owed'[k].upload + u, reported[k].upload, written_off[k].upload,
                  counted[k].upload, doubled[k].upload)
      /\ Balanced(owed'[k].download + d, reported[k].download, written_off[k].download,
                  counted[k].download, doubled[k].download)
  <2> HIDE DEF owed, u, d
  <2> QED
    BY <1>3, <1>4
<1> HIDE DEF owed, u, d
<1>9. /\ Balanced(owed'[k].upload, reported[k].upload + u, written_off[k].upload,
                  counted[k].upload, doubled[k].upload)
      /\ Balanced(owed'[k].upload, reported[k].upload, written_off[k].upload + u,
                  counted[k].upload, doubled[k].upload)
  BY <1>2, <1>3, <1>5, <1>8, BalancedSettle, ZenonT(30)
<1>10. /\ Balanced(owed'[k].download, reported[k].download + d, written_off[k].download,
                   counted[k].download, doubled[k].download)
       /\ Balanced(owed'[k].download, reported[k].download, written_off[k].download + d,
                   counted[k].download, doubled[k].download)
  BY <1>2, <1>3, <1>5, <1>8, BalancedSettle, ZenonT(30)
<1> QED
  BY <1>7, <1>9, <1>10
-----------------------------------------------------------------------------
(* The inductive invariant.                                                *)

LEMMA InitIInv == Init => IInv
<1> SUFFICES ASSUME Init PROVE IInv
  OBVIOUS
<1>1. TypeOK
  <2>1. [k \in Keys |-> Zero] \in [Keys -> [upload : Nat, download : Nat]]
    BY DEF Zero
  <2>2. Empty \in [Keys -> TrafficDelta \cup {None}]
    BY DEF Empty
  <2>3. 1 \in 1..Shards + 1
    BY KeysAssumption
  <2> QED
    BY <2>1, <2>2, <2>3, ZenonT(30) DEF Init, TypeOK
<1>2. BatchOK
  BY DEF Init, BatchOK
<1>3. OwedIsSum
  BY <1>1, OwedAmounts
<1>4. ASSUME NEW k \in Keys
      PROVE  /\ Balanced(owed[k].upload, reported[k].upload, written_off[k].upload,
                         counted[k].upload, doubled[k].upload)
             /\ Balanced(owed[k].download, reported[k].download, written_off[k].download,
                         counted[k].download, doubled[k].download)
  <2>1. svc[k] = None /\ rt[k] = None /\ Unsettled(k) = None
    BY DEF Init, Empty, Unsettled
  <2>2. /\ Upload(svc[k]) = 0 /\ Upload(rt[k]) = 0 /\ Upload(Unsettled(k)) = 0
        /\ Download(svc[k]) = 0 /\ Download(rt[k]) = 0 /\ Download(Unsettled(k)) = 0
    BY <2>1 DEF Upload, Download
  <2> HIDE DEF owed
  <2>3. owed[k].upload = 0 /\ owed[k].download = 0
    BY <1>3, <2>2 DEF OwedIsSum
  <2>4. counted[k] = Zero /\ doubled[k] = Zero /\ reported[k] = Zero /\ written_off[k] = Zero
    BY DEF Init
  <2> QED
    BY <2>3, <2>4 DEF Balanced, Zero
<1>5. Balance
  <2> HIDE DEF owed
  <2> QED
    BY <1>4, ZenonT(30) DEF Balance
<1> QED
  BY <1>1, <1>2, <1>5 DEF IInv

\* A relay counts bytes of a running service.
LEMMA CountIInv ==
  ASSUME IInv, NEW k \in Keys, NEW r \in TrafficDelta, add_with_user_id(k, r)
  PROVE  IInv'
<1>1. /\ svc' = [svc EXCEPT ![k] = add_delta(svc[k], r)]
      /\ counted' = [counted EXCEPT ![k] = Plus(counted[k], r)]
      /\ UNCHANGED <<service, orphans, rt, agent, shard, minimum, batch, todo, repeats,
                     doubled, reported, written_off>>
  BY DEF add_with_user_id, exchange
<1>2. /\ svc \in [Keys -> TrafficDelta \cup {None}] /\ counted \in [Keys -> Amount]
  BY DEF IInv, TypeOK, Amount
<1>3. r # None /\ r.upload \in 0..MaxBytes /\ r.download \in 0..MaxBytes
  BY NoneAssumption, Zenon DEF TrafficDelta
<1>4. /\ add_delta(svc[k], r) \in TrafficDelta
      /\ Upload(add_delta(svc[k], r)) = saturating_add(Upload(svc[k]), r.upload)
      /\ Download(add_delta(svc[k], r)) = saturating_add(Download(svc[k]), r.download)
  BY <1>2, AddDelta
<1>5. /\ Plus(counted[k], r) \in Amount
      /\ Plus(counted[k], r).upload = counted[k].upload + r.upload
      /\ Plus(counted[k], r).download = counted[k].download + r.download
  BY <1>2, <1>3, PlusAmounts DEF Upload, Download, Amount
<1>6. TypeOK'
  <2>1. svc' \in [Keys -> TrafficDelta \cup {None}]
    BY <1>1, <1>2, <1>4
  <2>2. counted' \in [Keys -> Amount]
    BY <1>1, <1>2, <1>5, ZenonT(30)
  <2> QED
    BY <1>1, <2>1, <2>2 DEF IInv, TypeOK, Amount
<1>7. BatchOK'
  BY <1>1 DEF IInv, BatchOK
<1>8. OwedIsSum /\ OwedIsSum'
  BY <1>6, OwedAmounts, OwedAmountsNext, ZenonT(30) DEF IInv
<1>9. \A x \in Keys : /\ Unsettled(x)' = Unsettled(x) /\ rt'[x] = rt[x]
                      /\ x # k => svc'[x] = svc[x] /\ counted'[x] = counted[x]
  BY <1>1, <1>2 DEF Unsettled
<1>10. /\ svc'[k] = add_delta(svc[k], r)
       /\ counted'[k].upload = counted[k].upload + r.upload
       /\ counted'[k].download = counted[k].download + r.download
  BY <1>1, <1>2, <1>5
<1>11. ASSUME NEW x \in Keys, x # k
       PROVE  /\ Balanced(owed'[x].upload, reported'[x].upload, written_off'[x].upload,
                          counted'[x].upload, doubled'[x].upload)
              /\ Balanced(owed'[x].download, reported'[x].download, written_off'[x].download,
                          counted'[x].download, doubled'[x].download)
  <2> HIDE DEF owed
  <2>1. owed'[x].upload = owed[x].upload /\ owed'[x].download = owed[x].download
    BY <1>8, <1>9, <1>11, Zenon DEF OwedIsSum
  <2> QED
    BY <1>1, <1>9, <1>11, <2>1, ZenonT(30) DEF IInv, Balance
<1>12. /\ Balanced(owed'[k].upload, reported'[k].upload, written_off'[k].upload,
                   counted'[k].upload, doubled'[k].upload)
       /\ Balanced(owed'[k].download, reported'[k].download, written_off'[k].download,
                   counted'[k].download, doubled'[k].download)
  <2> DEFINE su == Upload(svc[k])
             sd == Download(svc[k])
  <2>1. /\ su \in 0..MaxBytes /\ sd \in 0..MaxBytes
        /\ Upload(svc'[k]) = saturating_add(su, r.upload)
        /\ Download(svc'[k]) = saturating_add(sd, r.download)
    BY <1>4, <1>8, <1>10, Zenon DEF OwedIsSum
  <2>2. /\ saturating_add(su, r.upload) \in 0..MaxBytes
        /\ saturating_add(su, r.upload) <= su + r.upload
        /\ su + r.upload <= MaxBytes => saturating_add(su, r.upload) = su + r.upload
        /\ saturating_add(sd, r.download) \in 0..MaxBytes
        /\ saturating_add(sd, r.download) <= sd + r.download
        /\ sd + r.download <= MaxBytes => saturating_add(sd, r.download) = sd + r.download
    BY <1>3, <2>1, Saturates, Zenon
  <2> DEFINE tu == saturating_add(su, r.upload)
             td == saturating_add(sd, r.download)
  <2> HIDE DEF owed
  <2>3. /\ owed[k].upload = su + Upload(rt[k]) + Upload(Unsettled(k))
        /\ owed'[k].upload = tu + Upload(rt[k]) + Upload(Unsettled(k))
        /\ owed[k].download = sd + Download(rt[k]) + Download(Unsettled(k))
        /\ owed'[k].download = td + Download(rt[k]) + Download(Unsettled(k))
        /\ Upload(rt[k]) \in 0..MaxBytes /\ Upload(Unsettled(k)) \in 0..MaxBytes
        /\ Download(rt[k]) \in 0..MaxBytes /\ Download(Unsettled(k)) \in 0..MaxBytes
    BY <1>8, <1>9, <2>1, Zenon DEF OwedIsSum
  <2> HIDE DEF su, sd, tu, td
  <2>4. /\ owed'[k].upload \in Nat /\ owed'[k].upload <= owed[k].upload + r.upload
        /\ owed[k].upload + r.upload <= MaxBytes =>
             owed'[k].upload = owed[k].upload + r.upload
    BY <1>3, <2>1, <2>2, <2>3, BytesAssumption DEF tu
  <2>5. /\ owed'[k].download \in Nat /\ owed'[k].download <= owed[k].download + r.download
        /\ owed[k].download + r.download <= MaxBytes =>
             owed'[k].download = owed[k].download + r.download
    BY <1>3, <2>1, <2>2, <2>3, BytesAssumption DEF td
  <2>6. /\ counted[k].upload \in Nat /\ counted[k].download \in Nat
        /\ doubled[k].upload \in Nat /\ doubled[k].download \in Nat
        /\ reported[k].upload \in Nat /\ reported[k].download \in Nat
        /\ written_off[k].upload \in Nat /\ written_off[k].download \in Nat
        /\ owed[k].upload \in Nat /\ owed[k].download \in Nat
        /\ r.upload \in Nat /\ r.download \in Nat
    BY <1>3, BooksType, BytesAssumption DEF IInv
  <2>7. /\ Balanced(owed[k].upload, reported[k].upload, written_off[k].upload,
                    counted[k].upload, doubled[k].upload)
        /\ Balanced(owed[k].download, reported[k].download, written_off[k].download,
                    counted[k].download, doubled[k].download)
    BY DEF IInv, Balance
  <2>8. Balanced(owed'[k].upload, reported[k].upload, written_off[k].upload,
                 counted[k].upload + r.upload, doubled[k].upload)
    BY <2>4, <2>6, <2>7, BalancedCount, ZenonT(30)
  <2>9. Balanced(owed'[k].download, reported[k].download, written_off[k].download,
                 counted[k].download + r.download, doubled[k].download)
    BY <2>5, <2>6, <2>7, BalancedCount, ZenonT(30)
  <2> QED
    BY <1>1, <1>10, <2>8, <2>9, Zenon
<1>13. Balance'
  <2> HIDE DEF owed
  <2> QED
    BY <1>11, <1>12, Zenon DEF Balance
<1> QED
  BY <1>6, <1>7, <1>13 DEF IInv
\* A connection without a service counts bytes that nobody will drain.
LEMMA OrphanIInv ==
  ASSUME IInv, NEW k \in Keys, NEW r \in TrafficDelta, add_orphaned(k, r)
  PROVE  IInv'
<1>1. /\ counted' = [counted EXCEPT ![k] = Plus(counted[k], r)]
      /\ written_off' = [written_off EXCEPT ![k] = Plus(written_off[k], r)]
      /\ UNCHANGED <<service, orphans, svc, rt, agent, shard, minimum, batch, todo, repeats,
                     doubled, reported>>
  BY DEF add_orphaned, exchange, registries
<1>2. counted \in [Keys -> Amount] /\ written_off \in [Keys -> Amount]
  BY DEF IInv, TypeOK, Amount
<1>3. r # None /\ r.upload \in Nat /\ r.download \in Nat
  BY NoneAssumption, BytesAssumption DEF TrafficDelta
<1>4. \A a \in Amount : /\ Plus(a, r) \in Amount
                        /\ Plus(a, r).upload = a.upload + r.upload
                        /\ Plus(a, r).download = a.download + r.download
  BY <1>3, PlusAmounts DEF Upload, Download, Amount
<1>5. TypeOK'
  <2>1. counted' \in [Keys -> Amount] /\ written_off' \in [Keys -> Amount]
    BY <1>1, <1>2, <1>4
  <2> QED
    BY <1>1, <2>1 DEF IInv, TypeOK, Amount
<1>6. BatchOK'
  BY <1>1 DEF IInv, BatchOK
<1>7. owed' = owed
  BY <1>1 DEF owed, Unsettled
<1> SUFFICES ASSUME NEW x \in Keys
             PROVE  /\ Balanced(owed'[x].upload, reported'[x].upload, written_off'[x].upload,
                                counted'[x].upload, doubled'[x].upload)
                    /\ Balanced(owed'[x].download, reported'[x].download,
                                written_off'[x].download, counted'[x].download,
                                doubled'[x].download)
  BY <1>5, <1>6, ZenonT(30) DEF IInv, Balance
<1>8. /\ Balanced(owed[x].upload, reported[x].upload, written_off[x].upload,
                  counted[x].upload, doubled[x].upload)
      /\ Balanced(owed[x].download, reported[x].download, written_off[x].download,
                  counted[x].download, doubled[x].download)
  BY ZenonT(30) DEF IInv, Balance
<1>9. CASE x # k
  <2>1. counted'[x] = counted[x] /\ written_off'[x] = written_off[x]
    BY <1>1, <1>2, <1>9, ZenonT(30)
  <2> HIDE DEF owed
  <2> QED
    BY <1>1, <1>7, <1>8, <2>1
<1>10. CASE x = k
  <2>1. /\ counted'[x].upload = counted[x].upload + r.upload
        /\ counted'[x].download = counted[x].download + r.download
        /\ written_off'[x].upload = written_off[x].upload + r.upload
        /\ written_off'[x].download = written_off[x].download + r.download
    BY <1>1, <1>2, <1>4, <1>10
  <2>2. /\ counted[x].upload \in Nat /\ counted[x].download \in Nat
        /\ doubled[x].upload \in Nat /\ doubled[x].download \in Nat
        /\ reported[x].upload \in Nat /\ reported[x].download \in Nat
        /\ written_off[x].upload \in Nat /\ written_off[x].download \in Nat
        /\ owed[x].upload \in Nat /\ owed[x].download \in Nat
    BY BooksType DEF IInv
  <2> HIDE DEF owed
  <2>3. Balanced(owed[x].upload, reported[x].upload, written_off[x].upload + r.upload,
                 counted[x].upload + r.upload, doubled[x].upload)
    BY <1>3, <1>8, <2>2, BalancedMiss, ZenonT(30)
  <2>4. Balanced(owed[x].download, reported[x].download, written_off[x].download + r.download,
                 counted[x].download + r.download, doubled[x].download)
    BY <1>3, <1>8, <2>2, BalancedMiss, ZenonT(30)
  <2> QED
    BY <1>1, <1>7, <2>1, <2>3, <2>4
<1> QED
  BY <1>9, <1>10

\* One shard of a drain.
LEMMA DrainIInv ==
  ASSUME IInv, drain_minimum
  PROVE  IInv'
<1> DEFINE registry == IF service THEN svc ELSE rt
           taken == {k \in Keys : ShardOf[k] = shard /\ Drainable(registry[k])}
<1>1. /\ agent = "draining" /\ shard <= Shards
      /\ batch' = [k \in Keys |-> IF k \in taken THEN registry[k] ELSE batch[k]]
      /\ service => /\ svc' = [k \in Keys |-> IF k \in taken THEN None ELSE svc[k]]
                    /\ rt' = rt
      /\ ~ service => /\ rt' = [k \in Keys |-> IF k \in taken THEN None ELSE rt[k]]
                      /\ svc' = svc
      /\ shard' = shard + 1
      /\ agent' \in {"draining", "answered"}
      /\ UNCHANGED <<service, orphans, minimum, todo, repeats, books>>
  BY DEF drain_minimum
<1>2. \A k \in taken : k \in Keys /\ ShardOf[k] = shard
  OBVIOUS
<1>3. /\ svc \in [Keys -> TrafficDelta \cup {None}] /\ rt \in [Keys -> TrafficDelta \cup {None}]
      /\ batch \in [Keys -> TrafficDelta \cup {None}] /\ service \in BOOLEAN
      /\ shard \in 1..Shards + 1
      /\ \A k \in Keys : ShardOf[k] \in 1..Shards
  BY KeysAssumption, Zenon DEF IInv, TypeOK
<1> HIDE DEF taken
<1>4. TypeOK'
  <2>1. /\ svc' \in [Keys -> TrafficDelta \cup {None}]
        /\ rt' \in [Keys -> TrafficDelta \cup {None}]
        /\ batch' \in [Keys -> TrafficDelta \cup {None}]
    BY <1>1, <1>3
  <2>2. shard' \in 1..Shards + 1
    BY <1>1, <1>3, KeysAssumption
  <2> QED
    BY <1>1, <2>1, <2>2 DEF IInv, TypeOK, books
<1>5. \A k \in Keys : batch[k] # None => ShardOf[k] < shard
  BY <1>1 DEF IInv, BatchOK
<1>6. BatchOK'
  <2>1. \A k \in Keys : batch'[k] # None => ShardOf[k] < shard'
    <3> SUFFICES ASSUME NEW k \in Keys, batch'[k] # None PROVE ShardOf[k] < shard + 1
      BY <1>1
    <3>1. CASE k \in taken
      BY <1>2, <1>3, <3>1
    <3>2. CASE k \notin taken
      BY <1>1, <1>3, <1>5, <3>2
    <3> QED
      BY <3>1, <3>2
  <2> QED
    BY <1>1, <2>1 DEF BatchOK
<1>7. ASSUME NEW k \in Keys
      PROVE  /\ (Upload(svc[k]) + Upload(rt[k]) + Upload(Unsettled(k)))'
                  = Upload(svc[k]) + Upload(rt[k]) + Upload(Unsettled(k))
             /\ (Download(svc[k]) + Download(rt[k]) + Download(Unsettled(k)))'
                  = Download(svc[k]) + Download(rt[k]) + Download(Unsettled(k))
  <2>1. Unsettled(k) = batch[k] /\ Unsettled(k)' = batch'[k]
    BY <1>1, ZenonT(30) DEF Unsettled
  <2>2. CASE k \notin taken
    <3>1. svc'[k] = svc[k] /\ rt'[k] = rt[k] /\ batch'[k] = batch[k]
      BY <1>1, <1>3, <2>2, Zenon
    <3> QED
      BY <2>1, <3>1
  <2>3. CASE k \in taken
    <3>1. batch[k] = None /\ batch'[k] = registry[k]
      BY <1>1, <1>2, <1>3, <1>5, <2>3
    <3>2. \/ svc'[k] = None /\ rt'[k] = rt[k] /\ registry[k] = svc[k]
          \/ svc'[k] = svc[k] /\ rt'[k] = None /\ registry[k] = rt[k]
      BY <1>1, <1>3, <2>3
    <3>3. /\ Upload(None) = 0 /\ Download(None) = 0
          /\ Upload(svc[k]) \in 0..MaxBytes /\ Download(svc[k]) \in 0..MaxBytes
          /\ Upload(rt[k]) \in 0..MaxBytes /\ Download(rt[k]) \in 0..MaxBytes
      BY <1>3, AmountsOfRecord, Zenon DEF Upload, Download
    <3> HIDE DEF registry
    <3>4. Upload(svc'[k]) + Upload(rt'[k]) + Upload(batch'[k])
             = Upload(svc[k]) + Upload(rt[k]) + Upload(batch[k])
      BY <3>1, <3>2, <3>3, BytesAssumption
    <3>5. Download(svc'[k]) + Download(rt'[k]) + Download(batch'[k])
             = Download(svc[k]) + Download(rt[k]) + Download(batch[k])
      BY <3>1, <3>2, <3>3, BytesAssumption
    <3> QED
      BY <2>1, <3>4, <3>5, Zenon
  <2> QED
    BY <2>2, <2>3
<1>8. Balance'
  BY <1>1, <1>4, <1>7, OwedKept, ZenonT(30)
<1> QED
  BY <1>4, <1>6, <1>8, Zenon DEF IInv
\* One record is put back.
LEMMA RequeueIInv ==
  ASSUME IInv, NEW k \in Keys, add_deltas(k)
  PROVE  IInv'
<1>1. /\ agent = "requeueing" /\ k \in todo
      /\ service => svc' = [svc EXCEPT ![k] = add_delta(svc[k], batch[k])] /\ rt' = rt
      /\ ~ service => rt' = [rt EXCEPT ![k] = add_delta(rt[k], batch[k])] /\ svc' = svc
      /\ todo' = todo \ {k}
      /\ UNCHANGED <<service, orphans, agent, shard, minimum, batch, repeats,
                     counted, doubled, reported, written_off>>
  BY DEF add_deltas, books
<1>2. /\ svc \in [Keys -> TrafficDelta \cup {None}] /\ rt \in [Keys -> TrafficDelta \cup {None}]
      /\ batch \in [Keys -> TrafficDelta \cup {None}] /\ service \in BOOLEAN
  BY DEF IInv, TypeOK
<1>3. batch[k] \in TrafficDelta
  BY <1>1, <1>2 DEF IInv, BatchOK
<1>4. /\ add_delta(svc[k], batch[k]) \in TrafficDelta
      /\ add_delta(rt[k], batch[k]) \in TrafficDelta
  BY <1>2, <1>3, AddDelta, ZenonT(30)
<1>5. TypeOK'
  <2>1. /\ svc' \in [Keys -> TrafficDelta \cup {None}]
        /\ rt' \in [Keys -> TrafficDelta \cup {None}]
    BY <1>1, <1>2, <1>4, ZenonT(30)
  <2> QED
    BY <1>1, <2>1 DEF IInv, TypeOK
<1>6. BatchOK'
  BY <1>1 DEF IInv, BatchOK
<1>7. OwedIsSum /\ OwedIsSum'
  BY <1>5, OwedAmounts, OwedAmountsNext DEF IInv
<1>8. \A x \in Keys : x # k => /\ svc'[x] = svc[x] /\ rt'[x] = rt[x]
                               /\ Unsettled(x)' = Unsettled(x)
  BY <1>1, <1>2 DEF Unsettled
<1>9. Unsettled(k) = batch[k] /\ Unsettled(k)' = None
  BY <1>1, ZenonT(30) DEF Unsettled
<1> SUFFICES ASSUME NEW x \in Keys
             PROVE  /\ Balanced(owed'[x].upload, reported[x].upload, written_off[x].upload,
                                counted[x].upload, doubled[x].upload)
                    /\ Balanced(owed'[x].download, reported[x].download,
                                written_off[x].download, counted[x].download,
                                doubled[x].download)
  <2> HIDE DEF owed
  <2> QED
    BY <1>1, <1>5, <1>6, ZenonT(30) DEF IInv, Balance
<1>10. /\ Balanced(owed[x].upload, reported[x].upload, written_off[x].upload,
                   counted[x].upload, doubled[x].upload)
       /\ Balanced(owed[x].download, reported[x].download, written_off[x].download,
                   counted[x].download, doubled[x].download)
  BY ZenonT(30) DEF IInv, Balance
<1>11. CASE x # k
  <2> HIDE DEF owed
  <2>1. owed'[x].upload = owed[x].upload /\ owed'[x].download = owed[x].download
    BY <1>7, <1>8, <1>11, ZenonT(30) DEF OwedIsSum
  <2> QED
    BY <1>10, <2>1
<1>12. CASE x = k
  <2>1. PICK e \in {svc[k], rt[k]}, o \in {svc[k], rt[k]} :
          /\ Upload(svc[k]) + Upload(rt[k]) = Upload(e) + Upload(o)
          /\ Download(svc[k]) + Download(rt[k]) = Download(e) + Download(o)
          /\ (Upload(svc[k]) + Upload(rt[k]))' = Upload(add_delta(e, batch[k])) + Upload(o)
          /\ (Download(svc[k]) + Download(rt[k]))'
               = Download(add_delta(e, batch[k])) + Download(o)
    <3>1. /\ Upload(svc[k]) \in Nat /\ Upload(rt[k]) \in Nat
          /\ Download(svc[k]) \in Nat /\ Download(rt[k]) \in Nat
          /\ Upload(add_delta(rt[k], batch[k])) \in Nat
          /\ Download(add_delta(rt[k], batch[k])) \in Nat
      BY <1>2, <1>4, AmountsOfRecord, BytesAssumption
    <3>2. CASE service
      <4>1. svc'[k] = add_delta(svc[k], batch[k]) /\ rt'[k] = rt[k]
        BY <1>1, <1>2, <3>2, ZenonT(30)
      <4> QED
        BY <4>1
    <3>3. CASE ~ service
      <4>1. rt'[k] = add_delta(rt[k], batch[k]) /\ svc'[k] = svc[k]
        BY <1>1, <1>2, <3>3, ZenonT(30)
      <4>2. /\ Upload(svc[k]) + Upload(rt[k]) = Upload(rt[k]) + Upload(svc[k])
            /\ Download(svc[k]) + Download(rt[k]) = Download(rt[k]) + Download(svc[k])
            /\ Upload(svc[k]) + Upload(add_delta(rt[k], batch[k]))
                 = Upload(add_delta(rt[k], batch[k])) + Upload(svc[k])
            /\ Download(svc[k]) + Download(add_delta(rt[k], batch[k]))
                 = Download(add_delta(rt[k], batch[k])) + Download(svc[k])
        BY <3>1
      <4> QED
        BY <4>1, <4>2
    <3> QED
      BY <3>2, <3>3
  <2> DEFINE eu == Upload(e)
             ed == Download(e)
             ou == Upload(o)
             od == Download(o)
             bu == Upload(batch[k])
             bd == Download(batch[k])
  <2>2. /\ eu \in 0..MaxBytes /\ ed \in 0..MaxBytes /\ ou \in 0..MaxBytes
        /\ od \in 0..MaxBytes /\ bu \in 0..MaxBytes /\ bd \in 0..MaxBytes
    BY <1>2, AmountsOfRecord
  <2>3. bu = batch[k].upload /\ bd = batch[k].download
    BY <1>3, NoneAssumption, Zenon DEF Upload, Download, TrafficDelta
  <2>4. /\ Upload(add_delta(e, batch[k])) = saturating_add(eu, bu)
        /\ Download(add_delta(e, batch[k])) = saturating_add(ed, bd)
    BY <1>2, <1>3, <2>3, AddDelta
  <2>5. Upload(None) = 0 /\ Download(None) = 0
    BY ZenonT(30) DEF Upload, Download
  <2> HIDE DEF owed
  <2>6. /\ owed[k].upload = eu + ou + bu /\ owed[k].download = ed + od + bd
        /\ owed'[k].upload = saturating_add(eu, bu) + ou + 0
        /\ owed'[k].download = saturating_add(ed, bd) + od + 0
    BY <1>7, <1>9, <2>1, <2>4, <2>5 DEF OwedIsSum
  <2> HIDE DEF eu, ed, ou, od, bu, bd
  <2>7. /\ saturating_add(eu, bu) \in 0..MaxBytes /\ saturating_add(eu, bu) <= eu + bu
        /\ eu + bu <= MaxBytes => saturating_add(eu, bu) = eu + bu
        /\ saturating_add(ed, bd) \in 0..MaxBytes /\ saturating_add(ed, bd) <= ed + bd
        /\ ed + bd <= MaxBytes => saturating_add(ed, bd) = ed + bd
    BY <2>2, Saturates, ZenonT(30)
  <2>8. /\ owed'[k].upload \in Nat /\ owed'[k].upload <= owed[k].upload
        /\ owed[k].upload <= MaxBytes => owed'[k].upload = owed[k].upload
    BY <2>2, <2>6, <2>7, BytesAssumption
  <2>9. /\ owed'[k].download \in Nat /\ owed'[k].download <= owed[k].download
        /\ owed[k].download <= MaxBytes => owed'[k].download = owed[k].download
    BY <2>2, <2>6, <2>7, BytesAssumption
  <2>10. /\ counted[k].upload \in Nat /\ counted[k].download \in Nat
         /\ doubled[k].upload \in Nat /\ doubled[k].download \in Nat
         /\ reported[k].upload \in Nat /\ reported[k].download \in Nat
         /\ written_off[k].upload \in Nat /\ written_off[k].download \in Nat
         /\ owed[k].upload \in Nat /\ owed[k].download \in Nat
    BY BooksType, ZenonT(30) DEF IInv
  <2>11. Balanced(owed'[k].upload, reported[k].upload, written_off[k].upload,
                  counted[k].upload, doubled[k].upload)
    BY <1>10, <1>12, <2>8, <2>10, BalancedMerge, ZenonT(30)
  <2>12. Balanced(owed'[k].download, reported[k].download, written_off[k].download,
                  counted[k].download, doubled[k].download)
    BY <1>10, <1>12, <2>9, <2>10, BalancedMerge, ZenonT(30)
  <2> QED
    BY <1>12, <2>11, <2>12, ZenonT(30)
<1> QED
  BY <1>11, <1>12, Zenon

\* The service and its registry go, with or without a successor.
LEMMA ReplaceIInv ==
  ASSUME IInv, start \/ stop
  PROVE  IInv'
<1>1. /\ svc' = Empty /\ written_off' = PlusAll(written_off, svc)
      /\ service' \in BOOLEAN /\ orphans' \in BOOLEAN
      /\ UNCHANGED <<rt, agent, shard, minimum, batch, todo, repeats,
                     counted, doubled, reported>>
  BY ZenonT(30) DEF start, stop, exchange, IInv, TypeOK
<1>2. /\ svc \in [Keys -> TrafficDelta \cup {None}]
      /\ written_off \in [Keys -> [upload : Nat, download : Nat]]
  BY Zenon DEF IInv, TypeOK
<1>3. TypeOK'
  <2>1. written_off' \in [Keys -> [upload : Nat, download : Nat]]
    BY <1>1, <1>2, PlusAllAmounts
  <2>2. svc' \in [Keys -> TrafficDelta \cup {None}]
    BY <1>1, Zenon DEF Empty
  <2> QED
    BY <1>1, <2>1, <2>2 DEF IInv, TypeOK
<1>4. BatchOK'
  BY <1>1 DEF IInv, BatchOK
<1>5. OwedIsSum
  BY OwedAmounts, ZenonT(30) DEF IInv
<1>6. ASSUME NEW k \in Keys
      PROVE  /\ (Upload(svc[k]) + Upload(rt[k]) + Upload(Unsettled(k)))' + Upload(svc[k])
                  = Upload(svc[k]) + Upload(rt[k]) + Upload(Unsettled(k))
             /\ (Download(svc[k]) + Download(rt[k]) + Download(Unsettled(k)))'
                  + Download(svc[k])
                  = Download(svc[k]) + Download(rt[k]) + Download(Unsettled(k))
  <2>1. /\ svc'[k] = None /\ rt'[k] = rt[k] /\ Unsettled(k)' = Unsettled(k)
        /\ Upload(None) = 0 /\ Download(None) = 0
    BY <1>1 DEF Empty, Unsettled, Upload, Download
  <2>2. /\ Upload(svc[k]) \in 0..MaxBytes /\ Upload(rt[k]) \in 0..MaxBytes
        /\ Upload(Unsettled(k)) \in 0..MaxBytes /\ Download(svc[k]) \in 0..MaxBytes
        /\ Download(rt[k]) \in 0..MaxBytes /\ Download(Unsettled(k)) \in 0..MaxBytes
    BY <1>5, ZenonT(30) DEF OwedIsSum
  <2> QED
    BY <2>1, <2>2, BytesAssumption
<1>7. Balance'
  BY <1>1, <1>2, <1>3, <1>6, OwedSettled, SMTT(30)
<1> QED
  BY <1>3, <1>4, <1>7 DEF IInv
\* The agent settles its batch: it reports it or loses it.
LEMMA SettleIInv ==
  ASSUME IInv, LoseTraffic \/ ReportTraffic
  PROVE  IInv'
<1>1. /\ agent \in {"answered", "holding"} /\ agent' = "idle" /\ batch' = Empty
      /\ \/ reported' = PlusAll(reported, batch) /\ UNCHANGED written_off
         \/ written_off' = PlusAll(written_off, batch) /\ UNCHANGED reported
      /\ UNCHANGED <<service, orphans, svc, rt, shard, minimum, todo, repeats,
                     counted, doubled>>
  BY DEF LoseTraffic, ReportTraffic, registries
<1>2. /\ batch \in [Keys -> TrafficDelta \cup {None}]
      /\ written_off \in [Keys -> [upload : Nat, download : Nat]]
      /\ reported \in [Keys -> [upload : Nat, download : Nat]]
  BY ZenonT(30) DEF IInv, TypeOK
<1>3. TypeOK'
  <2>1. /\ written_off' \in [Keys -> [upload : Nat, download : Nat]]
        /\ reported' \in [Keys -> [upload : Nat, download : Nat]]
    BY <1>1, <1>2, PlusAllAmounts
  <2>2. batch' \in [Keys -> TrafficDelta \cup {None}]
    BY <1>1 DEF Empty
  <2> QED
    BY <1>1, <2>1, <2>2 DEF IInv, TypeOK
<1>4. BatchOK'
  BY <1>1, ZenonT(30) DEF BatchOK
<1>5. OwedIsSum
  BY OwedAmounts, Zenon DEF IInv
<1>6. ASSUME NEW k \in Keys
      PROVE  /\ (Upload(svc[k]) + Upload(rt[k]) + Upload(Unsettled(k)))' + Upload(batch[k])
                  = Upload(svc[k]) + Upload(rt[k]) + Upload(Unsettled(k))
             /\ (Download(svc[k]) + Download(rt[k]) + Download(Unsettled(k)))'
                  + Download(batch[k])
                  = Download(svc[k]) + Download(rt[k]) + Download(Unsettled(k))
  <2>1. /\ svc'[k] = svc[k] /\ rt'[k] = rt[k]
        /\ Unsettled(k)' = None /\ Unsettled(k) = batch[k]
        /\ Upload(None) = 0 /\ Download(None) = 0
    BY <1>1, ZenonT(30) DEF Empty, Unsettled, Upload, Download
  <2>2. /\ Upload(svc[k]) \in 0..MaxBytes /\ Upload(rt[k]) \in 0..MaxBytes
        /\ Upload(Unsettled(k)) \in 0..MaxBytes /\ Download(svc[k]) \in 0..MaxBytes
        /\ Download(rt[k]) \in 0..MaxBytes /\ Download(Unsettled(k)) \in 0..MaxBytes
    BY <1>5, Zenon DEF OwedIsSum
  <2> QED
    BY <2>1, <2>2, BytesAssumption
<1>7. Balance'
  BY <1>1, <1>2, <1>3, <1>6, OwedSettled, SMTT(30)
<1> QED
  BY <1>3, <1>4, <1>7 DEF IInv

\* A batch that is back in the core is held a second time.
LEMMA RepeatIInv ==
  ASSUME IInv, RequeueUnanswered
  PROVE  IInv'
<1>1. /\ agent = "requeued" /\ agent' = "holding" /\ repeats' = repeats + 1
      /\ doubled' = PlusAll(doubled, batch)
      /\ UNCHANGED <<service, orphans, svc, rt, shard, minimum, batch, todo,
                     counted, reported, written_off>>
  BY DEF RequeueUnanswered, registries
<1>2. /\ batch \in [Keys -> TrafficDelta \cup {None}]
      /\ doubled \in [Keys -> [upload : Nat, download : Nat]]
  BY Zenon DEF IInv, TypeOK
<1>3. TypeOK'
  <2>1. doubled' \in [Keys -> [upload : Nat, download : Nat]]
    BY <1>1, <1>2, PlusAllAmounts, ZenonT(30)
  <2> QED
    BY <1>1, <2>1 DEF IInv, TypeOK
<1>4. BatchOK'
  BY <1>1 DEF BatchOK
<1>5. OwedIsSum /\ OwedIsSum'
  BY <1>3, OwedAmounts, OwedAmountsNext, ZenonT(30) DEF IInv
<1> SUFFICES ASSUME NEW k \in Keys
             PROVE  /\ Balanced(owed'[k].upload, reported[k].upload, written_off[k].upload,
                                counted[k].upload, doubled'[k].upload)
                    /\ Balanced(owed'[k].download, reported[k].download,
                                written_off[k].download, counted[k].download,
                                doubled'[k].download)
  <2> HIDE DEF owed
  <2> QED
    BY <1>1, <1>3, <1>4, Zenon DEF IInv, Balance
<1> DEFINE u == Upload(batch[k])
           d == Download(batch[k])
<1>6. /\ u \in Nat /\ d \in Nat
      /\ doubled'[k].upload = doubled[k].upload + u
      /\ doubled'[k].download = doubled[k].download + d
  BY <1>1, <1>2, AmountsOfRecord, PlusAllAmounts, BytesAssumption
<1>7. /\ svc'[k] = svc[k] /\ rt'[k] = rt[k]
      /\ Unsettled(k)' = batch[k] /\ Unsettled(k) = None
      /\ Upload(None) = 0 /\ Download(None) = 0
  BY <1>1, ZenonT(30) DEF Unsettled, Upload, Download
<1>8. /\ Balanced(owed[k].upload, reported[k].upload, written_off[k].upload,
                  counted[k].upload, doubled[k].upload)
      /\ Balanced(owed[k].download, reported[k].download, written_off[k].download,
                  counted[k].download, doubled[k].download)
  BY DEF IInv, Balance
<1>9. /\ counted[k].upload \in Nat /\ counted[k].download \in Nat
      /\ doubled[k].upload \in Nat /\ doubled[k].download \in Nat
      /\ reported[k].upload \in Nat /\ reported[k].download \in Nat
      /\ written_off[k].upload \in Nat /\ written_off[k].download \in Nat
      /\ owed[k].upload \in Nat /\ owed[k].download \in Nat
  BY BooksType, ZenonT(30) DEF IInv
<1> HIDE DEF owed
<1>10. /\ owed'[k].upload = owed[k].upload + u
       /\ owed'[k].download = owed[k].download + d
  BY <1>5, <1>7, BytesAssumption DEF OwedIsSum
<1> HIDE DEF u, d
<1>11. Balanced(owed[k].upload + u, reported[k].upload, written_off[k].upload,
                counted[k].upload, doubled[k].upload + u)
  BY <1>6, <1>8, <1>9, BalancedDouble, ZenonT(30)
<1>12. Balanced(owed[k].download + d, reported[k].download, written_off[k].download,
                counted[k].download, doubled[k].download + d)
  BY <1>6, <1>8, <1>9, BalancedDouble, ZenonT(30)
<1> QED
  BY <1>6, <1>10, <1>11, <1>12, ZenonT(30)

\* The steps of an exchange that move no record.
LEMMA ExchangeIInv ==
  ASSUME IInv,
         \/ \E m \in Minimums : DrainTraffic(m)
         \/ ReceiveTraffic
         \/ RequeueTraffic
         \/ TrafficRequeued
         \/ RequeueAnswered
  PROVE  IInv'
<1>1. UNCHANGED <<service, orphans, svc, rt, repeats, counted, doubled, reported, written_off>>
  BY DEF DrainTraffic, ReceiveTraffic, RequeueTraffic, TrafficRequeued, RequeueAnswered,
         registries, books
<1>2. /\ TypeOK' /\ BatchOK'
      /\ \A k \in Keys : Unsettled(k)' = Unsettled(k)
  <2>1. ASSUME NEW m \in Minimums, DrainTraffic(m)
        PROVE  /\ TypeOK' /\ BatchOK'
               /\ \A k \in Keys : Unsettled(k)' = Unsettled(k)
    <3>1. 1 \in 1..Shards + 1 /\ m \in Nat
      BY KeysAssumption, BytesAssumption
    <3>2. TypeOK'
      BY <1>1, <2>1, <3>1, Zenon DEF DrainTraffic, IInv, TypeOK
    <3>3. batch' = Empty
      BY <2>1, Zenon DEF DrainTraffic, IInv, BatchOK
    <3> QED
      BY <2>1, <3>2, <3>3 DEF DrainTraffic, BatchOK, Unsettled, Empty
  <2>2. CASE ReceiveTraffic
    BY <1>1, <2>2 DEF ReceiveTraffic, IInv, TypeOK, BatchOK, Unsettled
  <2>3. CASE RequeueTraffic
    BY <1>1, <2>3, ZenonT(30) DEF RequeueTraffic, IInv, TypeOK, BatchOK, Unsettled
  <2>4. CASE TrafficRequeued
    BY <1>1, <2>4, Zenon DEF TrafficRequeued, IInv, TypeOK, BatchOK, Unsettled
  <2>5. CASE RequeueAnswered
    <3>1. batch' = Empty /\ Empty \in [Keys -> TrafficDelta \cup {None}]
      BY <2>5, ZenonT(30) DEF RequeueAnswered, Empty
    <3>2. TypeOK'
      BY <1>1, <2>5, <3>1, ZenonT(30) DEF RequeueAnswered, IInv, TypeOK
    <3> QED
      BY <2>5, <3>2 DEF RequeueAnswered, BatchOK, Unsettled, Empty
  <2> QED
    BY <2>1, <2>2, <2>3, <2>4, <2>5, Zenon
<1>3. \A k \in Keys :
        /\ (Upload(svc[k]) + Upload(rt[k]) + Upload(Unsettled(k)))'
             = Upload(svc[k]) + Upload(rt[k]) + Upload(Unsettled(k))
        /\ (Download(svc[k]) + Download(rt[k]) + Download(Unsettled(k)))'
             = Download(svc[k]) + Download(rt[k]) + Download(Unsettled(k))
  BY <1>1, <1>2, ZenonT(30)
<1>4. Balance'
  BY <1>1, <1>2, <1>3, OwedKept, SMTT(30) DEF books
<1> QED
  BY <1>2, <1>4, Zenon DEF IInv

LEMMA StutterIInv ==
  ASSUME IInv, UNCHANGED vars
  PROVE  IInv'
<1>1. TypeOK' /\ BatchOK'
  BY Zenon DEF IInv, TypeOK, BatchOK, vars
<1>2. owed' = owed
  BY DEF owed, Unsettled, vars
<1> HIDE DEF owed
<1> QED
  BY <1>1, <1>2, ZenonT(30) DEF IInv, Balance, vars

LEMMA NextIInv == IInv /\ [Next]_vars => IInv'
<1> SUFFICES ASSUME IInv, [Next]_vars PROVE IInv'
  OBVIOUS
<1>1. ASSUME NEW k \in Keys, NEW up \in Amounts, NEW down \in Amounts,
             \/ add_with_user_id(k, [upload |-> up, download |-> down])
             \/ add_orphaned(k, [upload |-> up, download |-> down])
      PROVE  IInv'
  <2>1. [upload |-> up, download |-> down] \in TrafficDelta
    BY BytesAssumption DEF TrafficDelta
  <2> QED
    BY <1>1, <2>1, CountIInv, OrphanIInv
<1> QED
  BY <1>1, DrainIInv, SettleIInv, RequeueIInv, RepeatIInv, ReplaceIInv, ExchangeIInv,
     StutterIInv, ZenonT(30) DEF Next

LEMMA Invariance == Spec => []IInv
BY InitIInv, NextIInv, PTL DEF Spec

-----------------------------------------------------------------------------
\* The variables always hold values of their types.
THEOREM TypeCorrect == Spec => []TypeOK
<1>1. IInv => TypeOK
  BY DEF IInv
<1> QED
  BY <1>1, Invariance, PTL

\* No byte is lost or invented while the counters do not overflow, for any
\* sharding and any interleaving of relays, drains and requeues.
THEOREM TrafficConserved == Spec => []Conserved
<1>1. IInv => Conserved
  <2> HIDE DEF owed
  <2> QED
    BY ZenonT(30) DEF IInv, Balance, Balanced, Conserved
<1> QED
  BY <1>1, Invariance, PTL

\* Nobody is charged for more than was counted, whatever overflows.
THEOREM NobodyOvercharged == Spec => []NeverOvercharged
<1>1. IInv => NeverOvercharged
  <2> SUFFICES ASSUME IInv, NEW k \in Keys
               PROVE  /\ reported[k].upload <= counted[k].upload + doubled[k].upload
                      /\ reported[k].download <= counted[k].download + doubled[k].download
    BY ZenonT(30) DEF NeverOvercharged
  <2>1. /\ Balanced(owed[k].upload, reported[k].upload, written_off[k].upload,
                    counted[k].upload, doubled[k].upload)
        /\ Balanced(owed[k].download, reported[k].download, written_off[k].download,
                    counted[k].download, doubled[k].download)
    BY Zenon DEF IInv, Balance
  <2>2. /\ counted[k].upload \in Nat /\ counted[k].download \in Nat
        /\ doubled[k].upload \in Nat /\ doubled[k].download \in Nat
        /\ reported[k].upload \in Nat /\ reported[k].download \in Nat
        /\ written_off[k].upload \in Nat /\ written_off[k].download \in Nat
        /\ owed[k].upload \in Nat /\ owed[k].download \in Nat
    BY BooksType DEF IInv
  <2> HIDE DEF owed
  <2> QED
    BY <2>1, <2>2 DEF Balanced
<1> QED
  BY <1>1, Invariance, PTL

\* The books balance: what is owed, reported and written off adds up, and no
\* user is charged for more than was counted.
THEOREM BooksAlwaysBalance == Spec => []BooksBalance
BY TrafficConserved, NobodyOvercharged, PTL DEF BooksBalance
-----------------------------------------------------------------------------
(* The ledger.                                                             *)

Monotone(a, b) == \A k \in Keys : a[k].upload <= b[k].upload /\ a[k].download <= b[k].download

\* Each step changes at most one book, or two together, and only upwards.
BooksStep ==
  \/ Monotone(counted, counted') /\ UNCHANGED <<doubled, reported, written_off>>
  \/ Monotone(doubled, doubled') /\ UNCHANGED <<counted, reported, written_off>>
  \/ Monotone(reported, reported') /\ UNCHANGED <<counted, doubled, written_off>>
  \/ Monotone(written_off, written_off') /\ UNCHANGED <<counted, doubled, reported>>
  \/ /\ Monotone(written_off, written_off') /\ owed' = owed
     /\ UNCHANGED <<doubled, reported>>

LEMMA MonotonePlus ==
  ASSUME NEW book \in [Keys -> Amount], NEW k \in Keys, NEW r \in TrafficDelta \cup {None}
  PROVE  Monotone(book, [book EXCEPT ![k] = Plus(book[k], r)])
<1> DEFINE after == [book EXCEPT ![k] = Plus(book[k], r)]
<1>1. /\ Plus(book[k], r).upload = book[k].upload + Upload(r)
      /\ Plus(book[k], r).download = book[k].download + Download(r)
      /\ Upload(r) \in Nat /\ Download(r) \in Nat
  BY PlusAmounts, AmountsOfRecord, BytesAssumption DEF Amount
<1> SUFFICES ASSUME NEW x \in Keys
             PROVE  book[x].upload <= after[x].upload /\ book[x].download <= after[x].download
  BY DEF Monotone
<1>2. book[x].upload \in Nat /\ book[x].download \in Nat
  BY Zenon DEF Amount
<1>3. CASE x = k
  BY <1>1, <1>2, <1>3
<1>4. CASE x # k
  <2>1. after[x] = book[x]
    BY <1>4, Zenon
  <2> QED
    BY <1>2, <2>1
<1> QED
  BY <1>3, <1>4, Zenon

LEMMA MonotonePlusAll ==
  ASSUME NEW book \in [Keys -> Amount], NEW records \in [Keys -> TrafficDelta \cup {None}]
  PROVE  Monotone(book, PlusAll(book, records))
<1> SUFFICES ASSUME NEW x \in Keys
             PROVE  /\ book[x].upload <= PlusAll(book, records)[x].upload
                    /\ book[x].download <= PlusAll(book, records)[x].download
  BY Zenon DEF Monotone
<1>1. /\ PlusAll(book, records)[x].upload = book[x].upload + Upload(records[x])
      /\ PlusAll(book, records)[x].download = book[x].download + Download(records[x])
  BY PlusAllAmounts DEF Amount
<1>2. /\ Upload(records[x]) \in Nat /\ Download(records[x]) \in Nat
      /\ book[x].upload \in Nat /\ book[x].download \in Nat
  BY AmountsOfRecord, BytesAssumption DEF Amount
<1> QED
  BY <1>1, <1>2

LEMMA EveryStepBooks == IInv /\ [Next]_vars => BooksStep
<1> SUFFICES ASSUME IInv, [Next]_vars PROVE BooksStep
  BY Zenon
<1>1. /\ counted \in [Keys -> Amount] /\ doubled \in [Keys -> Amount]
      /\ reported \in [Keys -> Amount] /\ written_off \in [Keys -> Amount]
      /\ svc \in [Keys -> TrafficDelta \cup {None}]
      /\ batch \in [Keys -> TrafficDelta \cup {None}]
  BY DEF IInv, TypeOK, Amount
<1>2. ASSUME NEW k \in Keys, NEW r \in TrafficDelta, add_with_user_id(k, r)
      PROVE  BooksStep
  BY <1>1, <1>2, MonotonePlus, ZenonT(30) DEF add_with_user_id, BooksStep
<1>3. ASSUME NEW k \in Keys, NEW r \in TrafficDelta, add_orphaned(k, r)
      PROVE  BooksStep
  <2>1. owed' = owed
    BY <1>3, Zenon DEF add_orphaned, exchange, registries, owed, Unsettled
  <2> HIDE DEF owed
  <2> QED
    BY <1>1, <1>3, <2>1, MonotonePlus, ZenonT(30) DEF add_orphaned, BooksStep
<1>4. CASE LoseTraffic
  BY <1>1, <1>4, MonotonePlusAll, Zenon DEF LoseTraffic, BooksStep
<1>5. CASE ReportTraffic
  BY <1>1, <1>5, MonotonePlusAll, Zenon DEF ReportTraffic, BooksStep
<1>6. CASE RequeueUnanswered
  BY <1>1, <1>6, MonotonePlusAll, Zenon DEF RequeueUnanswered, BooksStep
<1>7. CASE start \/ stop
  BY <1>1, <1>7, MonotonePlusAll, Zenon DEF start, stop, BooksStep
<1>8. CASE UNCHANGED books
  <2>1. \A k \in Keys : counted[k].upload \in Nat /\ counted[k].download \in Nat
    BY <1>1 DEF Amount
  <2>2. Monotone(counted, counted')
    BY <1>8, <2>1 DEF Monotone, books
  <2> QED
    BY <1>8, <2>2 DEF BooksStep, books
<1>9. \A up \in Amounts, down \in Amounts :
        [upload |-> up, download |-> down] \in TrafficDelta
  BY BytesAssumption, Zenon DEF TrafficDelta
<1> QED
  BY <1>2, <1>3, <1>4, <1>5, <1>6, <1>7, <1>8, <1>9, ZenonT(30)
  DEF Next, DrainTraffic, drain_minimum, ReceiveTraffic, RequeueTraffic, add_deltas,
      TrafficRequeued, RequeueAnswered, vars, books

\* What balances before and after a step differs by what one book gained.
LEMMA Gains ==
  ASSUME NEW o \in Nat, NEW r \in Nat, NEW w \in Nat, NEW c \in Nat, NEW d \in Nat,
         NEW o1 \in Nat, NEW r1 \in Nat, NEW w1 \in Nat, NEW c1 \in Nat, NEW d1 \in Nat,
         o + r + w = c + d, o1 + r1 + w1 = c1 + d1
  PROVE  /\ d1 = d /\ r1 = r /\ w1 = w => c1 + o = c + o1
         /\ c1 = c /\ r1 = r /\ w1 = w => d1 + o = d + o1
         /\ c1 = c /\ d1 = d /\ w1 = w => r1 + o1 = r + o
         /\ c1 = c /\ d1 = d /\ r1 = r => w1 + o1 = w + o
         /\ o1 = o /\ d1 = d /\ r1 = r => w1 + c = w + c1
OBVIOUS

\* While nothing overflows the books balance exactly, so what one of them
\* gains the debt gains or loses: a step of the ledger.
LEMMA LedgerStep ==
  ASSUME IInv, IInv', Ledger!Fits, Ledger!Fits', BooksStep
  PROVE  Ledger!Next
<1> DEFINE Sums(k) ==
      /\ owed[k].upload + reported[k].upload + written_off[k].upload
           = counted[k].upload + doubled[k].upload
      /\ owed[k].download + reported[k].download + written_off[k].download
           = counted[k].download + doubled[k].download
      /\ owed'[k].upload + reported'[k].upload + written_off'[k].upload
           = counted'[k].upload + doubled'[k].upload
      /\ owed'[k].download + reported'[k].download + written_off'[k].download
           = counted'[k].download + doubled'[k].download
<1> DEFINE Nats(k) ==
      /\ counted[k].upload \in Nat /\ counted[k].download \in Nat
      /\ doubled[k].upload \in Nat /\ doubled[k].download \in Nat
      /\ reported[k].upload \in Nat /\ reported[k].download \in Nat
      /\ written_off[k].upload \in Nat /\ written_off[k].download \in Nat
      /\ owed[k].upload \in Nat /\ owed[k].download \in Nat
<1> DEFINE NatsNext(k) ==
      /\ counted'[k].upload \in Nat /\ counted'[k].download \in Nat
      /\ doubled'[k].upload \in Nat /\ doubled'[k].download \in Nat
      /\ reported'[k].upload \in Nat /\ reported'[k].download \in Nat
      /\ written_off'[k].upload \in Nat /\ written_off'[k].download \in Nat
      /\ owed'[k].upload \in Nat /\ owed'[k].download \in Nat
<1>1. ASSUME NEW k \in Keys PROVE Sums(k)
  <2> HIDE DEF owed
  <2> QED
    BY SMTT(30) DEF IInv, Balance, Balanced, Ledger!Fits
<1>2. ASSUME NEW k \in Keys PROVE Nats(k)
  BY BooksType, ZenonT(30) DEF IInv
<1>3. ASSUME NEW k \in Keys PROVE NatsNext(k)
  <2>1. /\ counted' \in [Keys -> Amount] /\ doubled' \in [Keys -> Amount]
        /\ reported' \in [Keys -> Amount] /\ written_off' \in [Keys -> Amount]
    BY DEF IInv, TypeOK, Amount
  <2>2. OwedIsSum'
    BY OwedAmountsNext, ZenonT(30) DEF IInv
  <2>3. owed'[k].upload \in Nat /\ owed'[k].download \in Nat
    <3> HIDE DEF owed
    <3> QED
      BY <2>2, BytesAssumption DEF OwedIsSum
  <2> HIDE DEF owed
  <2> QED
    BY <2>1, <2>3, ZenonT(30) DEF Amount
<1> HIDE DEF owed, Sums, Nats, NatsNext
<1>4. CASE Monotone(counted, counted') /\ UNCHANGED <<doubled, reported, written_off>>
  <2>1. \A k \in Keys :
          /\ counted'[k].upload + owed[k].upload = counted[k].upload + owed'[k].upload
          /\ counted'[k].download + owed[k].download = counted[k].download + owed'[k].download
    <3> TAKE k \in Keys
    <3>1. UNCHANGED <<doubled, reported, written_off>>
      BY <1>4
    <3>2. Sums(k)
      BY <1>1
    <3>3. Nats(k)
      BY <1>2, ZenonT(30)
    <3>4. NatsNext(k)
      BY <1>3
    <3> QED
      BY <3>1, <3>2, <3>3, <3>4, Gains DEF Sums, Nats, NatsNext
  <2> QED
    BY <1>4, <2>1, ZenonT(30) DEF Ledger!Next, Ledger!Count, Ledger!GrowAlike, Ledger!AtMost, Monotone
<1>5. CASE Monotone(doubled, doubled') /\ UNCHANGED <<counted, reported, written_off>>
  <2>1. \A k \in Keys :
          /\ doubled'[k].upload + owed[k].upload = doubled[k].upload + owed'[k].upload
          /\ doubled'[k].download + owed[k].download = doubled[k].download + owed'[k].download
    <3> TAKE k \in Keys
    <3>1. UNCHANGED <<counted, reported, written_off>>
      BY <1>5
    <3>2. Sums(k)
      BY <1>1
    <3>3. Nats(k)
      BY <1>2
    <3>4. NatsNext(k)
      BY <1>3
    <3> QED
      BY <3>1, <3>2, <3>3, <3>4, Gains, SMTT(30) DEF Sums, Nats, NatsNext
  <2> QED
    BY <1>5, <2>1, ZenonT(30) DEF Ledger!Next, Ledger!Double, Ledger!GrowAlike, Ledger!AtMost, Monotone
<1>6. CASE Monotone(reported, reported') /\ UNCHANGED <<counted, doubled, written_off>>
  <2>1. \A k \in Keys :
          /\ reported'[k].upload + owed'[k].upload = reported[k].upload + owed[k].upload
          /\ reported'[k].download + owed'[k].download
               = reported[k].download + owed[k].download
    <3> TAKE k \in Keys
    <3>1. UNCHANGED <<counted, doubled, written_off>>
      BY <1>6
    <3>2. Sums(k)
      BY <1>1
    <3>3. Nats(k)
      BY <1>2
    <3>4. NatsNext(k)
      BY <1>3
    <3> QED
      BY <3>1, <3>2, <3>3, <3>4, Gains DEF Sums, Nats, NatsNext
  <2> QED
    BY <1>6, <2>1, ZenonT(30) DEF Ledger!Next, Ledger!Report, Ledger!GrowAlike, Ledger!AtMost, Monotone
<1>7. CASE Monotone(written_off, written_off') /\ UNCHANGED <<counted, doubled, reported>>
  <2>1. \A k \in Keys :
          /\ written_off'[k].upload + owed'[k].upload = written_off[k].upload + owed[k].upload
          /\ written_off'[k].download + owed'[k].download
               = written_off[k].download + owed[k].download
    <3> TAKE k \in Keys
    <3>1. UNCHANGED <<counted, doubled, reported>>
      BY <1>7
    <3>2. Sums(k)
      BY <1>1
    <3>3. Nats(k)
      BY <1>2
    <3>4. NatsNext(k)
      BY <1>3
    <3> QED
      BY <3>1, <3>2, <3>3, <3>4, Gains DEF Sums, Nats, NatsNext
  <2> QED
    BY <1>7, <2>1, ZenonT(30) DEF Ledger!Next, Ledger!WriteOff, Ledger!GrowAlike, Ledger!AtMost, Monotone
<1>8. CASE /\ Monotone(written_off, written_off') /\ owed' = owed
           /\ UNCHANGED <<doubled, reported>>
  <2>1. \A k \in Keys :
          /\ written_off'[k].upload + counted[k].upload
               = written_off[k].upload + counted'[k].upload
          /\ written_off'[k].download + counted[k].download
               = written_off[k].download + counted'[k].download
    <3> TAKE k \in Keys
    <3>1. owed' = owed /\ UNCHANGED <<doubled, reported>>
      BY <1>8
    <3>2. Sums(k)
      BY <1>1
    <3>3. Nats(k)
      BY <1>2
    <3>4. NatsNext(k)
      BY <1>3
    <3> QED
      BY <3>1, <3>2, <3>3, <3>4, Gains DEF Sums, Nats, NatsNext
  <2> QED
    BY <1>8, <2>1, ZenonT(30) DEF Ledger!Next, Ledger!Miss, Ledger!GrowAlike, Ledger!AtMost, Monotone
<1> QED
  BY <1>4, <1>5, <1>6, <1>7, <1>8, ZenonT(30) DEF BooksStep

\* The sharded registries with their exchange protocol implement the abstract
\* ledger (traffic.rs 36-204, control.rs 327-339).
THEOREM ImplementsLedger == Spec => LedgerSpec
<1>1. Init => Ledger!Init
  <2> SUFFICES ASSUME Init PROVE Ledger!Init
    OBVIOUS
  <2>1. \A k \in Keys : Plus(Plus(Plus(Zero, svc[k]), rt[k]), Unsettled(k)) = Zero
    <3>1. Plus(Zero, None) = Zero
      BY DEF Plus, Upload, Download, Zero
    <3>2. \A k \in Keys : svc[k] = None /\ rt[k] = None /\ Unsettled(k) = None
      BY ZenonT(30) DEF Init, Empty, Unsettled
    <3> QED
      BY <3>1, <3>2, ZenonT(30)
  <2>2. owed = [k \in Keys |-> Zero]
    BY <2>1 DEF owed
  <2>3. Ledger!Zero = Zero
    BY DEF Ledger!Zero, Zero
  <2> HIDE DEF owed
  <2> QED
    BY <2>2, <2>3 DEF Init, Ledger!Init
<1>2. IInv /\ IInv' /\ [Next]_vars => [Ledger!Next]_(Ledger!vars)
  <2> SUFFICES ASSUME IInv, IInv', [Next]_vars PROVE [Ledger!Next]_(Ledger!vars)
    OBVIOUS
  <2>1. CASE Ledger!Fits /\ Ledger!Fits'
    BY <2>1, EveryStepBooks, LedgerStep
  <2>2. CASE ~ (Ledger!Fits /\ Ledger!Fits')
    BY <2>2 DEF Ledger!Next, Ledger!Beyond
  <2> QED
    BY <2>1, <2>2
<1> QED
  BY <1>1, <1>2, Invariance, PTL DEF Spec, LedgerSpec, Ledger!Spec
===============================================================================
