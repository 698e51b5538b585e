-------------------------- MODULE UdpSessionsProofs --------------------------
(***************************************************************************)
(* Permits, table and sessions agree, for any number of ids, sessions and  *)
(* permits. To be inductive the invariant must say who refers to what: a   *)
(* session is alive while the table, a task or its receiver hold it; a     *)
(* task that makes a session has room in the table and holds the permit    *)
(* from its bind on; and there is an object left for it. Good is that      *)
(* invariant of the state a step describes, before what it no longer       *)
(* refers to is dropped; LeavesGood is the drop, and the lemmas after it   *)
(* are about the changes steps are made of.                                *)
(***************************************************************************)
EXTENDS UdpSessions, FiniteSetTheorems, TLAPS

Ats == {"read", "resolve", "bind", "held", "flush", "wait", "over"}
Work == [at : Ats, id : Ids \cup {None}, session : Objects \cup {None}]

Alive(ss) == {o \in Objects : ss[o] # None}
Free(ss) == {o \in Objects : ss[o] = None}
Binding(wk) == {t \in Tasks : wk[t].at = "bind"}
Makers(wk) == {t \in Tasks : wk[t].at \in {"resolve", "bind"} /\ wk[t].session = None}

Types(tb, wk, ss) ==
  /\ tb \in [Ids -> Objects \cup {None}]
  /\ wk \in [Workers -> Work]
  /\ ss \in [Objects -> Session \cup {None}]

\* What is referred to is alive.
Refers(tb, wk, ss) ==
  /\ \A i \in Ids : tb[i] # None => ss[tb[i]] # None
  /\ \A w \in Workers : wk[w].session # None => ss[wk[w].session] # None

\* A receiver holds its session until it ends; a task holds the one it uses, and
\* one that makes a session has its id.
Shape(wk) ==
  /\ \A o \in Objects :
       \/ wk[o].at \in {"wait", "flush"} /\ wk[o].session = o
       \/ wk[o].at = "over" /\ wk[o].session = None
  /\ \A t \in Tasks :
       /\ wk[t].at # "wait"
       /\ wk[t].at \in {"held", "flush"} => wk[t].session # None
       /\ wk[t].at = "bind" => wk[t].session = None /\ wk[t].id # None
       /\ wk[t].at = "resolve" =>
            (hy2 \/ wk[t].session = None) /\ (wk[t].session = None => wk[t].id # None)

\* The permits, and the room that was made before a session is.
Permits(tb, wk, ss, ac) ==
  hy2 => /\ ac = Cardinality(Alive(ss)) + Cardinality(Binding(wk))
         /\ ac <= PermitLimit
         /\ Cardinality(InTable(tb)) <= MaxSessions
         /\ Makers(wk) # {} => Cardinality(InTable(tb)) < MaxSessions

\* Whoever makes a session will find an object for it.
Room(wk, ss) == ~hy2 => Cardinality(Makers(wk)) <= Cardinality(Free(ss))

One(tb, wk, ss) ==
  (\E t \in Tasks : wk[t].at # "over") =>
    \A o \in Objects :
      ss[o] # None /\ ~ss[o].closed /\ wk[o].session = o => tb[ss[o].id] = o

Good(tb, wk, ss, ac) ==
  /\ Types(tb, wk, ss)
  /\ Refers(tb, wk, ss)
  /\ Shape(wk)
  /\ Permits(tb, wk, ss, ac)
  /\ Room(wk, ss)
  /\ One(tb, wk, ss)

IInv == Good(table, worker, session, active)

-----------------------------------------------------------------------------
(* Sets and their sizes.                                                   *)

LEMMA ObjectsFinite ==
  ASSUME NEW S \in SUBSET Objects
  PROVE  IsFiniteSet(S) /\ Cardinality(S) \in Nat
<1>1. IsFiniteSet(S)
  BY FS_Subset, SessionsAssumption
<1> QED
  BY <1>1, FS_CardinalityType

LEMMA TasksFinite ==
  ASSUME NEW S \in SUBSET AllTasks
  PROVE  IsFiniteSet(S) /\ Cardinality(S) \in Nat
<1>1. IsFiniteSet({"datagrams"}) /\ IsFiniteSet({"streams"})
  BY FS_Singleton, ZenonT(30)
<1>2. IsFiniteSet(AllTasks)
  <2>1. AllTasks = {"datagrams"} \cup {"streams"}
    BY DEF AllTasks
  <2> QED
    BY <1>1, <2>1, FS_Union, ZenonT(30)
<1>3. IsFiniteSet(S)
  BY <1>2, FS_Subset
<1> QED
  BY <1>3, FS_CardinalityType

LEMMA TasksType == Tasks \subseteq AllTasks /\ Tasks \subseteq Workers /\ Objects \subseteq Workers
                   /\ Objects \cap AllTasks = {}
BY SessionsAssumption DEF Tasks, AllTasks, Workers

\* Neither an object nor a session is None.
LEMMA NotNone == /\ \A o \in Objects : o # None
                 /\ \A i \in Ids : i # None
                 /\ \A s \in Session : s # None
BY SessionsAssumption

LEMMA SizesOf ==
  ASSUME NEW tb, NEW wk, NEW ss, tb \in [Ids -> Objects \cup {None}]
  PROVE  /\ InTable(tb) \in SUBSET Objects
         /\ IsFiniteSet(InTable(tb)) /\ Cardinality(InTable(tb)) \in Nat
         /\ IsFiniteSet(Alive(ss)) /\ Cardinality(Alive(ss)) \in Nat
         /\ IsFiniteSet(Free(ss)) /\ Cardinality(Free(ss)) \in Nat
         /\ IsFiniteSet(Binding(wk)) /\ Cardinality(Binding(wk)) \in Nat
         /\ IsFiniteSet(Makers(wk)) /\ Cardinality(Makers(wk)) \in Nat
<1>1. InTable(tb) \in SUBSET Objects
  BY DEF InTable
<1>2. Alive(ss) \in SUBSET Objects /\ Free(ss) \in SUBSET Objects
  BY DEF Alive, Free
<1>3. Binding(wk) \in SUBSET AllTasks /\ Makers(wk) \in SUBSET AllTasks
  BY TasksType DEF Binding, Makers
<1> QED
  BY <1>1, <1>2, <1>3, ObjectsFinite, TasksFinite

-----------------------------------------------------------------------------
\* The table is dropped with its last holder, and a session with its last
\* reference: what is left is as good as what the step described.
LEMMA LeavesGood ==
  ASSUME NEW tb, NEW wk, NEW ss, NEW ac, NEW ow, Good(tb, wk, ss, ac), kind' = kind,
         Leaves(tb, wk, ss, ac, ow)
  PROVE  IInv'
<1> DEFINE kept == IF TableHeld(wk) THEN tb ELSE Empty
           gone == Unreferenced(kept, wk, ss)
<1>1. /\ table' = kept /\ worker' = wk
      /\ session' = [o \in Objects |-> IF o \in gone THEN None ELSE ss[o]]
      /\ active' = IF hy2 THEN ac - Cardinality(gone) ELSE ac
  BY DEF Leaves
<1>2. /\ (hy2' <=> hy2) /\ Tasks' = Tasks
  BY DEF hy2, Tasks
<1>3. /\ tb \in [Ids -> Objects \cup {None}] /\ wk \in [Workers -> Work]
      /\ ss \in [Objects -> Session \cup {None}]
  BY DEF Good, Types
<1>4. kept \in [Ids -> Objects \cup {None}] /\ gone \in SUBSET Objects
  BY <1>3 DEF Empty, Unreferenced
<1>5. /\ \A i \in Ids : kept[i] # None => kept[i] = tb[i]
      /\ (\E t \in Tasks : wk[t].at # "over") => kept = tb
  BY <1>3, Zenon DEF Empty, TableHeld
<1>6. /\ \A o \in gone : ss[o] # None
      /\ \A i \in Ids : kept[i] \notin gone
      /\ \A w \in Workers : wk[w].session \notin gone
  <2>1. \A i \in Ids : kept[i] # None => kept[i] \in InTable(kept)
    BY DEF InTable
  <2>2. \A o \in gone : o # None
    BY <1>4, NotNone, Zenon
  <2> QED
    BY <2>1, <2>2 DEF Unreferenced
<1> HIDE DEF kept, gone
<1>7. Types(table, worker, session)'
  BY <1>1, <1>3, <1>4, Zenon DEF Types, Workers
<1>8. Refers(table, worker, session)'
  <2>1. \A o \in Objects : o \notin gone => session'[o] = ss[o]
    BY <1>1
  <2>2. \A i \in Ids : kept[i] # None => kept[i] \in Objects /\ ss[kept[i]] # None
    BY <1>3, <1>5, Zenon DEF Good, Refers
  <2>3. \A w \in Workers : wk[w].session # None => wk[w].session \in Objects /\ ss[wk[w].session] # None
    BY <1>3, Zenon DEF Good, Refers, Work
  <2> QED
    BY <1>1, <1>6, <2>1, <2>2, <2>3, Zenon DEF Refers
<1>9. Shape(worker)'
  BY <1>1, <1>2, Zenon DEF Good, Shape
<1>10. One(table, worker, session)'
  <2> SUFFICES ASSUME \E t \in Tasks : wk[t].at # "over", NEW o \in Objects,
                      session'[o] # None, ~session'[o].closed, wk[o].session = o
               PROVE  table'[session'[o].id] = o
    BY <1>1, <1>2 DEF One
  <2>1. session'[o] = ss[o]
    BY <1>1
  <2> QED
    BY <1>1, <1>5, <2>1, Zenon DEF Good, One
<1>11. Alive(session)' = Alive(ss) \ gone /\ gone \subseteq Alive(ss)
       /\ Free(ss) \subseteq Free(session)'
  BY <1>1, <1>4, <1>6 DEF Alive, Free
<1>12. Binding(worker)' = Binding(wk) /\ Makers(worker)' = Makers(wk)
  BY <1>1, <1>2, Zenon DEF Binding, Makers
<1>13. InTable(table)' \subseteq InTable(tb)
  BY <1>1, <1>5 DEF InTable
<1>14. Room(worker, session)'
  <2>1. Cardinality(Free(ss)) <= Cardinality(Free(session)')
    BY <1>11, FS_Subset, ObjectsFinite, Zenon DEF Free
  <2>2. Cardinality(Makers(wk)) \in Nat /\ Cardinality(Free(ss)) \in Nat
    BY <1>3, SizesOf, Zenon
  <2>3. Cardinality(Free(session)') \in Nat
    BY ObjectsFinite DEF Free
  <2> QED
    BY <1>2, <1>12, <2>1, <2>2, <2>3 DEF Good, Room
<1>15. Permits(table, worker, session, active)'
  <2> SUFFICES ASSUME hy2 PROVE Permits(table, worker, session, active)'
    BY <1>2 DEF Permits
  <2>1. /\ IsFiniteSet(Alive(ss)) /\ Cardinality(Alive(ss)) \in Nat /\ Cardinality(Binding(wk)) \in Nat
        /\ IsFiniteSet(InTable(tb)) /\ Cardinality(InTable(tb)) \in Nat
    BY <1>3, SizesOf
  <2>2. IsFiniteSet(gone) /\ Cardinality(gone) \in Nat
    BY <1>4, ObjectsFinite
  <2>3. Cardinality(Alive(session)') = Cardinality(Alive(ss)) - Cardinality(gone)
    <3>1. Cardinality(Alive(ss) \ gone) = Cardinality(Alive(ss)) - Cardinality(Alive(ss) \cap gone)
      BY <2>1, FS_Difference, ZenonT(30)
    <3>2. Alive(ss) \cap gone = gone
      BY <1>11, Zenon
    <3> QED
      BY <1>11, <3>1, <3>2
  <2>4. Cardinality(InTable(table)') <= Cardinality(InTable(tb)) /\ Cardinality(InTable(table)') \in Nat
    <3>1. IsFiniteSet(InTable(table)') /\ Cardinality(InTable(table)') <= Cardinality(InTable(tb))
      BY <1>13, <2>1, FS_Subset, Zenon
    <3> QED
      BY <3>1, FS_CardinalityType, Zenon
  <2>5. /\ ac = Cardinality(Alive(ss)) + Cardinality(Binding(wk)) /\ ac <= PermitLimit
        /\ Cardinality(InTable(tb)) <= MaxSessions
        /\ Makers(wk) # {} => Cardinality(InTable(tb)) < MaxSessions
    BY DEF Good, Permits
  <2>6. PermitLimit \in Nat /\ MaxSessions \in Nat
    <3>1. Cardinality(Objects) \in Nat
      BY ObjectsFinite
    <3> QED
      BY <3>1, SessionsAssumption
  <2>7. active' = ac - Cardinality(gone)
    BY <1>1, Zenon
  <2>8. active' = Cardinality(Alive(session)') + Cardinality(Binding(wk)) /\ active' <= PermitLimit
    BY <2>1, <2>2, <2>3, <2>5, <2>6, <2>7
  <2>9. /\ Cardinality(InTable(table)') <= MaxSessions
        /\ Makers(wk) # {} => Cardinality(InTable(table)') < MaxSessions
    BY <2>1, <2>4, <2>5, <2>6
  <2> QED
    BY <1>12, <2>8, <2>9, Zenon DEF Permits
<1> QED
  BY <1>7, <1>8, <1>9, <1>10, <1>14, <1>15, Zenon DEF IInv, Good

-----------------------------------------------------------------------------
(* The parts a step is made of, each from good to good.                    *)

\* The sessions ss2 are those of ss, touched, counted for or closed.
Alike(ss, ss2) ==
  /\ ss2 \in [Objects -> Session \cup {None}]
  /\ \A o \in Objects :
       /\ ss2[o] = None <=> ss[o] = None
       /\ ss2[o] # None => ss2[o].id = ss[o].id /\ (ss[o].closed => ss2[o].closed)

\* Sessions are used or closed, and only closed ones leave the table.
LEMMA ShrinkGood ==
  ASSUME NEW tb, NEW wk, NEW ss, NEW ac, NEW tb2, NEW ss2,
         Good(tb, wk, ss, ac), Alike(ss, ss2),
         tb2 \in [Ids -> Objects \cup {None}],
         \A i \in Ids : \/ tb2[i] = tb[i]
                        \/ tb2[i] = None /\ tb[i] # None /\ ss2[tb[i]].closed
  PROVE  Good(tb2, wk, ss2, ac)
<1>1. /\ tb \in [Ids -> Objects \cup {None}] /\ wk \in [Workers -> Work]
      /\ ss \in [Objects -> Session \cup {None}] /\ ss2 \in [Objects -> Session \cup {None}]
  BY DEF Good, Types, Alike
<1>2. Types(tb2, wk, ss2)
  BY <1>1, Zenon DEF Types
<1>3. Refers(tb2, wk, ss2)
  <2>1. \A i \in Ids : tb2[i] # None => tb2[i] \in Objects /\ ss[tb2[i]] # None
    BY DEF Good, Refers
  <2>2. \A w \in Workers : wk[w].session # None => wk[w].session \in Objects /\ ss[wk[w].session] # None
    BY <1>1, Zenon DEF Good, Refers, Work
  <2> QED
    BY <2>1, <2>2, Zenon DEF Refers, Alike
<1>4. Alive(ss2) = Alive(ss) /\ Free(ss2) = Free(ss)
  BY DEF Alive, Free, Alike
<1>5. InTable(tb2) \subseteq InTable(tb)
  BY DEF InTable
<1>6. Cardinality(InTable(tb2)) <= Cardinality(InTable(tb))
  BY <1>1, <1>5, SizesOf, FS_Subset, Zenon
<1>7. Cardinality(InTable(tb2)) \in Nat /\ Cardinality(InTable(tb)) \in Nat /\ MaxSessions \in Nat
  BY <1>1, SizesOf, SessionsAssumption, Zenon
<1>8. Permits(tb2, wk, ss2, ac)
  <2>1. Permits(tb, wk, ss, ac)
    BY Zenon DEF Good
  <2> QED
    BY <2>1, <1>4, <1>6, <1>7 DEF Permits
<1>9. Room(wk, ss2)
  BY <1>4, Zenon DEF Good, Room
<1>10. One(tb2, wk, ss2)
  <2> SUFFICES ASSUME \E t \in Tasks : wk[t].at # "over", NEW o \in Objects,
                      ss2[o] # None, ~ss2[o].closed, wk[o].session = o
               PROVE  tb2[ss2[o].id] = o
    BY Zenon DEF One
  <2>1. ss[o] # None /\ ~ss[o].closed /\ ss2[o].id = ss[o].id /\ ss[o].id \in Ids
    BY <1>1, Zenon DEF Alike, Session
  <2>2. tb[ss[o].id] = o
    BY <2>1 DEF Good, One
  <2> QED
    BY <2>1, <2>2, Zenon
<1> QED
  BY <1>2, <1>3, <1>8, <1>9, <1>10, Zenon DEF Good

\* In Hysteria2 one task reads packets.
LEMMA OneTask ==
  ASSUME hy2, NEW wk
  PROVE  Cardinality(Binding(wk)) = IF wk["datagrams"].at = "bind" THEN 1 ELSE 0
<1>1. Tasks = {"datagrams"}
  BY DEF Tasks
<1>2. CASE wk["datagrams"].at = "bind"
  <2>1. Binding(wk) = {"datagrams"}
    BY <1>1, <1>2, Zenon DEF Binding
  <2> QED
    BY <2>1, <1>2, FS_Singleton
<1>3. CASE wk["datagrams"].at # "bind"
  <2>1. Binding(wk) = {}
    BY <1>1, <1>3 DEF Binding
  <2> QED
    BY <2>1, <1>3, FS_EmptySet, Zenon
<1> QED
  BY <1>2, <1>3

-----------------------------------------------------------------------------
(* What a new session leaves good.                                         *)

\* The task t makes the session o, of the id i.
Makes(tb, wk, ss, tb2, wk2, ss2, t, o, i) ==
  /\ t \in Tasks /\ o \in Objects /\ i \in Ids
  /\ tb2[i] = o /\ \A j \in Ids : j # i => tb2[j] = tb[j]
  /\ ss2[o] # None /\ ss2[o].id = i /\ \A p \in Objects : p # o => ss2[p] = ss[p]
  /\ wk2[t].at = "held" /\ wk2[t].session = o
  /\ wk2[o].at = "wait" /\ wk2[o].session = o
  /\ \A w \in Workers : w \notin {t, o} => wk2[w] = wk[w]

LEMMA NewRefers ==
  ASSUME NEW tb, NEW wk, NEW ss, NEW tb2, NEW wk2, NEW ss2, NEW t, NEW o, NEW i,
         Makes(tb, wk, ss, tb2, wk2, ss2, t, o, i), Types(tb, wk, ss), Refers(tb, wk, ss)
  PROVE  Refers(tb2, wk2, ss2)
<1>1. \A p \in Objects : ss[p] # None => ss2[p] # None
  BY DEF Makes
<1>2. \A j \in Ids : tb[j] # None => tb[j] \in Objects /\ ss[tb[j]] # None
  BY DEF Types, Refers
<1>3. \A w \in Workers : wk[w].session # None =>
        wk[w].session \in Objects /\ ss[wk[w].session] # None
  BY DEF Types, Refers, Work
<1>4. \A j \in Ids : tb2[j] # None => ss2[tb2[j]] # None
  BY <1>1, <1>2, Zenon DEF Makes
<1>5. \A w \in Workers : wk2[w].session # None => ss2[wk2[w].session] # None
  BY <1>1, <1>3 DEF Makes
<1> QED
  BY <1>4, <1>5, Zenon DEF Refers

LEMMA NewShape ==
  ASSUME NEW tb, NEW wk, NEW ss, NEW tb2, NEW wk2, NEW ss2, NEW t, NEW o, NEW i,
         Makes(tb, wk, ss, tb2, wk2, ss2, t, o, i), Shape(wk)
  PROVE  Shape(wk2)
<1>1. /\ \A p \in Objects : p # o => wk2[p] = wk[p]
      /\ \A u \in Tasks : u # t => wk2[u] = wk[u]
  BY TasksType, Zenon DEF Makes
<1>2. \A p \in Objects : \/ wk2[p].at \in {"wait", "flush"} /\ wk2[p].session = p
                         \/ wk2[p].at = "over" /\ wk2[p].session = None
  BY <1>1 DEF Makes, Shape
<1>3. \A u \in Tasks :
        /\ wk2[u].at # "wait"
        /\ wk2[u].at \in {"held", "flush"} => wk2[u].session # None
        /\ wk2[u].at = "bind" => wk2[u].session = None /\ wk2[u].id # None
        /\ wk2[u].at = "resolve" =>
             (hy2 \/ wk2[u].session = None) /\ (wk2[u].session = None => wk2[u].id # None)
  <2> TAKE u \in Tasks
  <2>1. CASE u = t
    BY <2>1, NotNone DEF Makes
  <2>2. CASE u # t
    <3>1. wk2[u] = wk[u]
      BY <1>1, <2>2, Zenon
    <3> QED
      BY <3>1, Zenon DEF Shape
  <2> QED
    BY <2>1, <2>2, Zenon
<1> QED
  BY <1>2, <1>3, Zenon DEF Shape

LEMMA NewPermits ==
  ASSUME NEW tb, NEW wk, NEW ss, NEW ac, NEW tb2, NEW wk2, NEW ss2, NEW t, NEW o, NEW i, hy2,
         Makes(tb, wk, ss, tb2, wk2, ss2, t, o, i), ss[o] = None,
         tb \in [Ids -> Objects \cup {None}], tb2 \in [Ids -> Objects \cup {None}],
         ac = Cardinality(Alive(ss)) + 1, ac <= PermitLimit,
         Cardinality(InTable(tb)) < MaxSessions
  PROVE  Permits(tb2, wk2, ss2, ac)
<1>1. t = "datagrams" /\ Tasks = {"datagrams"}
  BY Zenon DEF Makes, Tasks
<1>2. Cardinality(Binding(wk2)) = 0
  <2>1. wk2["datagrams"].at # "bind"
    BY <1>1, Zenon DEF Makes
  <2> QED
    BY <2>1, OneTask, Zenon
<1>3. Makers(wk2) = {}
  BY <1>1, Zenon DEF Makes, Makers
<1>4. /\ IsFiniteSet(Alive(ss)) /\ Cardinality(Alive(ss)) \in Nat
      /\ IsFiniteSet(InTable(tb)) /\ Cardinality(InTable(tb)) \in Nat
      /\ Cardinality(InTable(tb2)) \in Nat /\ MaxSessions \in Nat
  BY SizesOf, SessionsAssumption, Zenon
<1>5. Alive(ss2) = Alive(ss) \cup {o} /\ o \notin Alive(ss)
  BY DEF Makes, Alive
<1>6. Cardinality(Alive(ss2)) = Cardinality(Alive(ss)) + 1
  BY <1>4, <1>5, FS_AddElement, Zenon
<1>7. InTable(tb2) \subseteq InTable(tb) \cup {o}
  BY DEF Makes, InTable
<1>8. /\ IsFiniteSet(InTable(tb) \cup {o})
      /\ Cardinality(InTable(tb) \cup {o}) =
           IF o \in InTable(tb) THEN Cardinality(InTable(tb)) ELSE Cardinality(InTable(tb)) + 1
  BY <1>4, FS_AddElement, Zenon
<1>9. Cardinality(InTable(tb2)) <= Cardinality(InTable(tb) \cup {o})
  BY <1>7, <1>8, FS_Subset, Zenon
<1>10. Cardinality(InTable(tb2)) <= MaxSessions
  BY <1>4, <1>8, <1>9
<1>11. ac = Cardinality(Alive(ss2)) + Cardinality(Binding(wk2))
  BY <1>2, <1>4, <1>6
<1> QED
  BY <1>3, <1>10, <1>11, Zenon DEF Permits

LEMMA NewOne ==
  ASSUME NEW tb, NEW wk, NEW ss, NEW tb2, NEW wk2, NEW ss2, NEW t, NEW o, NEW i,
         Makes(tb, wk, ss, tb2, wk2, ss2, t, o, i), Types(tb, wk, ss), One(tb, wk, ss),
         wk[t].at # "over", tb[i] # None => ss[tb[i]].closed
  PROVE  One(tb2, wk2, ss2)
<1> SUFFICES ASSUME NEW p \in Objects, ss2[p] # None, ~ss2[p].closed, wk2[p].session = p
             PROVE  tb2[ss2[p].id] = p
  BY DEF One
<1>1. CASE p = o
  BY <1>1, Zenon DEF Makes
<1>2. CASE p # o
  <2>1. ss2[p] = ss[p] /\ wk2[p] = wk[p]
    BY <1>2, TasksType, Zenon DEF Makes
  <2>2. tb[ss[p].id] = p
    BY <2>1, Zenon DEF One, Makes
  <2>3. ss[p].id \in Ids /\ p # None
    BY <2>1, NotNone DEF Types, Session
  <2>4. ss[p].id # i
    BY <2>1, <2>2, <2>3, Zenon
  <2> QED
    BY <2>1, <2>2, <2>3, <2>4, Zenon DEF Makes
<1> QED
  BY <1>1, <1>2, Zenon

-----------------------------------------------------------------------------
Maker(e) == e.at \in {"resolve", "bind"} /\ e.session = None

\* A state a task can be in.
FitsTask(e) ==
  /\ e \in Work
  /\ e.at # "wait"
  /\ e.at \in {"held", "flush"} => e.session # None
  /\ e.at = "bind" => e.session = None /\ e.id # None
  /\ e.at = "resolve" => (hy2 \/ e.session = None) /\ (e.session = None => e.id # None)

\* A task moves; it makes a session if it did, or if there is room for one.
LEMMA TaskGood ==
  ASSUME NEW tb, NEW wk, NEW ss, NEW ac, NEW t \in Tasks, NEW e, NEW ac2,
         Good(tb, wk, ss, ac), FitsTask(e), wk[t].at # "over",
         e.session # None => ss[e.session] # None,
         Maker(e) => \/ t \in Makers(wk)
                     \/ /\ hy2 => Cardinality(InTable(tb)) < MaxSessions
                        /\ ~hy2 => Cardinality(Makers(wk)) < Cardinality(Free(ss)),
         hy2 => /\ ac2 = Cardinality(Alive(ss)) + IF e.at = "bind" THEN 1 ELSE 0
                /\ ac2 <= PermitLimit
  PROVE  Good(tb, [wk EXCEPT ![t] = e], ss, ac2)
<1> DEFINE wk2 == [wk EXCEPT ![t] = e]
<1>1. /\ tb \in [Ids -> Objects \cup {None}] /\ wk \in [Workers -> Work]
      /\ ss \in [Objects -> Session \cup {None}]
  BY Zenon DEF Good, Types
<1>2. t \in Workers /\ t \notin Objects
  BY TasksType, Zenon
<1>3. wk2 \in [Workers -> Work] /\ wk2[t] = e /\ \A w \in Workers : w # t => wk2[w] = wk[w]
  BY <1>1, <1>2, Zenon DEF FitsTask
<1> HIDE DEF wk2
<1>4. Types(tb, wk2, ss)
  BY <1>1, <1>3, Zenon DEF Types
<1>5. Refers(tb, wk2, ss)
  BY <1>3, Zenon DEF Good, Refers
<1>6. Shape(wk2)
  <2>1. \A o \in Objects : wk2[o] = wk[o]
    BY <1>2, <1>3, TasksType, Zenon
  <2>2. \A u \in Tasks : wk2[u] = e \/ wk2[u] = wk[u]
    BY <1>3, TasksType, Zenon
  <2> QED
    BY <2>1, <2>2, Zenon DEF Good, Shape, FitsTask
<1>7. Makers(wk2) \subseteq Makers(wk) \cup {t} /\ (t \in Makers(wk2) => Maker(e))
  BY <1>3, TasksType, Zenon DEF Makers, Maker
<1>8. Permits(tb, wk2, ss, ac2)
  <2> SUFFICES ASSUME hy2 PROVE Permits(tb, wk2, ss, ac2)
    BY Zenon DEF Permits
  <2>1. Tasks = {"datagrams"} /\ t = "datagrams"
    BY Zenon DEF Tasks
  <2>2. Cardinality(Binding(wk2)) = IF e.at = "bind" THEN 1 ELSE 0
    BY <1>3, <2>1, OneTask, Zenon
  <2>3. Makers(wk2) # {} => Cardinality(InTable(tb)) < MaxSessions
    <3>1. Makers(wk2) # {} => t \in Makers(wk2)
      BY <2>1, Zenon DEF Makers
    <3> QED
      BY <3>1, <1>7, Zenon DEF Good, Permits
  <2> QED
    BY <2>2, <2>3, Zenon DEF Permits, Good
<1>9. Room(wk2, ss)
  <2> SUFFICES ASSUME ~hy2 PROVE Cardinality(Makers(wk2)) <= Cardinality(Free(ss))
    BY Zenon DEF Room
  <2>1. Cardinality(Makers(wk)) <= Cardinality(Free(ss))
    BY Zenon DEF Good, Room
  <2>2. /\ IsFiniteSet(Makers(wk)) /\ Cardinality(Makers(wk)) \in Nat
        /\ Cardinality(Makers(wk2)) \in Nat /\ Cardinality(Free(ss)) \in Nat
    BY <1>1, SizesOf, Zenon
  <2>3. CASE t \notin Makers(wk2) \/ t \in Makers(wk)
    <3>1. Makers(wk2) \subseteq Makers(wk)
      BY <1>7, <2>3, Zenon
    <3>2. Cardinality(Makers(wk2)) <= Cardinality(Makers(wk))
      BY <3>1, <2>2, FS_Subset, Zenon
    <3> QED
      BY <3>2, <2>1, <2>2
  <2>4. CASE t \in Makers(wk2) /\ t \notin Makers(wk)
    <3>1. Cardinality(Makers(wk)) < Cardinality(Free(ss))
      BY <1>7, <2>4, Zenon
    <3>2. IsFiniteSet(Makers(wk) \cup {t}) /\ Cardinality(Makers(wk) \cup {t}) = Cardinality(Makers(wk)) + 1
      BY <2>2, <2>4, FS_AddElement, Zenon
    <3>3. Cardinality(Makers(wk2)) <= Cardinality(Makers(wk) \cup {t})
      BY <1>7, <3>2, FS_Subset, Zenon
    <3> QED
      BY <3>1, <3>2, <3>3, <2>2
  <2> QED
    BY <2>3, <2>4, Zenon
<1>10. One(tb, wk2, ss)
  <2>1. \A o \in Objects : wk2[o] = wk[o]
    BY <1>2, <1>3, TasksType
  <2> QED
    BY <2>1, Zenon DEF Good, One
<1> QED
  BY <1>4, <1>5, <1>6, <1>8, <1>9, <1>10, Zenon DEF Good, wk2

\* A receiver goes on or ends.
LEMMA ReceiverGood ==
  ASSUME NEW tb, NEW wk, NEW ss, NEW ac, NEW o \in Objects, NEW e \in Work,
         Good(tb, wk, ss, ac), wk[o].at # "over",
         \/ e.at \in {"wait", "flush"} /\ e.session = o
         \/ e.at = "over" /\ e.session = None
  PROVE  Good(tb, [wk EXCEPT ![o] = e], ss, ac)
<1> DEFINE wk2 == [wk EXCEPT ![o] = e]
<1>1. /\ tb \in [Ids -> Objects \cup {None}] /\ wk \in [Workers -> Work]
      /\ ss \in [Objects -> Session \cup {None}]
  BY Zenon DEF Good, Types
<1>2. wk2 \in [Workers -> Work] /\ wk2[o] = e /\ \A w \in Workers : w # o => wk2[w] = wk[w]
  BY <1>1, TasksType, Zenon
<1>3. wk[o].session = o /\ ss[o] # None
  <2>1. wk[o].session = o
    BY Zenon DEF Good, Shape
  <2> QED
    BY <2>1, NotNone, TasksType, Zenon DEF Good, Refers
<1> HIDE DEF wk2
<1>4. \A t \in Tasks : wk2[t] = wk[t]
  BY <1>2, TasksType, Zenon
<1>5. Types(tb, wk2, ss)
  BY <1>1, <1>2, Zenon DEF Types
<1>6. Refers(tb, wk2, ss)
  BY <1>2, <1>3, Zenon DEF Good, Refers
<1>7. Shape(wk2)
  <2>1. \A p \in Objects : p # o => wk2[p] = wk[p]
    BY <1>2, TasksType, Zenon
  <2> QED
    BY <1>2, <1>4, <2>1 DEF Good, Shape
<1>8. Binding(wk2) = Binding(wk) /\ Makers(wk2) = Makers(wk)
  BY <1>4, Zenon DEF Binding, Makers
<1>9. Permits(tb, wk2, ss, ac) /\ Room(wk2, ss)
  BY <1>8, Zenon DEF Good, Permits, Room
<1>10. One(tb, wk2, ss)
  <2>1. \A p \in Objects : wk2[p].session = p => wk[p].session = p
    BY <1>2, <1>3, TasksType, Zenon
  <2> QED
    BY <1>4, <2>1, Zenon DEF Good, One
<1> QED
  BY <1>5, <1>6, <1>7, <1>9, <1>10, Zenon DEF Good, wk2

-----------------------------------------------------------------------------
(* The tasks that read packets.                                            *)

LEMMA StepGood ==
  ASSUME NEW tb, NEW wk, NEW ss, NEW ac, NEW ow, Good(tb, wk, ss, ac), Step(tb, wk, ss, ac, ow)
  PROVE  IInv'
<1>1. kind' = kind /\ Leaves(tb, wk, ss, ac, ow)
  BY DEF Step, setting
<1> QED
  BY <1>1, LeavesGood

LEMMA States ==
  ASSUME NEW at \in Ats
  PROVE  /\ Rest(at) \in Work /\ Rest(at).at = at /\ Rest(at).id = None /\ Rest(at).session = None
         /\ \A o \in Objects : /\ Holding(at, o) \in Work /\ Holding(at, o).at = at
                               /\ Holding(at, o).id = None /\ Holding(at, o).session = o
         /\ \A i \in Ids : LET e == [Rest(at) EXCEPT !.id = i]
                           IN  e \in Work /\ e.at = at /\ e.id = i /\ e.session = None
BY DEF Rest, Holding, Work

LEMMA IInvTypes ==
  ASSUME IInv
  PROVE  /\ table \in [Ids -> Objects \cup {None}] /\ worker \in [Workers -> Work]
         /\ session \in [Objects -> Session \cup {None}]
BY DEF IInv, Good, Types

LEMMA IdleRests ==
  AfterError \in {"read", "over"} /\ AfterError \in Ats /\ {"read", "over"} \subseteq Ats
BY DEF AfterError, Ats

\* A task that is done with a packet, or ends, leaves what it held.
LEMMA LeaveGood ==
  ASSUME IInv, NEW ss, NEW ac, Good(table, worker, ss, ac), NEW t \in Tasks, worker[t].at # "over",
         NEW at \in {"read", "over"}, NEW ac2,
         hy2 => ac2 = Cardinality(Alive(ss)) /\ ac2 <= PermitLimit
  PROVE  Good(table, Leave(t, at), ss, ac2)
<1> DEFINE e == Rest(at)
<1>1. e \in Work /\ e.at = at /\ e.session = None /\ e.id = None
  BY IdleRests, States, Zenon
<1> HIDE DEF e
<1>2. FitsTask(e) /\ ~Maker(e) /\ e.at # "bind"
  BY <1>1, Zenon DEF FitsTask, Maker
<1>3. Cardinality(Alive(ss)) \in Nat
  BY IInvTypes, SizesOf, Zenon
<1>4. hy2 => /\ ac2 = Cardinality(Alive(ss)) + IF e.at = "bind" THEN 1 ELSE 0
             /\ ac2 <= PermitLimit
  BY <1>2, <1>3
<1>5. Good(table, [worker EXCEPT ![t] = e], ss, ac2)
  BY <1>1, <1>2, <1>4, TaskGood, Zenon
<1> QED
  BY <1>5 DEF Leave, e

\* A task that does not bind holds no permit of its own.
LEMMA NoPermit ==
  ASSUME IInv, NEW t \in Tasks, worker[t].at # "bind"
  PROVE  hy2 => active = Cardinality(Alive(session)) /\ active <= PermitLimit
<1> SUFFICES ASSUME hy2 PROVE active = Cardinality(Alive(session)) /\ active <= PermitLimit
  BY Zenon
<1>1. t = "datagrams"
  BY Zenon DEF Tasks
<1>2. Cardinality(Binding(worker)) = 0
  BY <1>1, OneTask, Zenon
<1>3. Cardinality(Alive(session)) \in Nat
  BY IInvTypes, SizesOf, Zenon
<1> QED
  BY <1>2, <1>3 DEF IInv, Good, Permits

LEMMA QuitStep ==
  ASSUME IInv, NEW t \in Tasks, worker[t].at # "over", worker[t].at # "bind",
         NEW at \in {"read", "over"}, Moves(Leave(t, at))
  PROVE  IInv'
<1>1. Good(table, worker, session, active)
  BY Zenon DEF IInv
<1>2. Good(table, Leave(t, at), session, active)
  BY <1>1, NoPermit, LeaveGood, Zenon
<1> QED
  BY <1>2, StepGood, Zenon DEF Moves

LEMMA ReadFailsStep ==
  ASSUME IInv, NEW t \in Tasks, ReadFails(t) PROVE IInv'
BY QuitStep, Zenon DEF ReadFails

LEMMA StopStep ==
  ASSUME IInv, NEW t \in Tasks, Stop(t) PROVE IInv'
BY QuitStep, Zenon DEF Stop

\* close() and the table.
LEMMA ClosedGood ==
  ASSUME IInv, NEW os \in SUBSET InTable(table)
  PROVE  /\ Good(Without(os), worker, Closed(os), active)
         /\ InTable(Without(os)) \subseteq InTable(table) \ os
         /\ Alive(Closed(os)) = Alive(session) /\ Free(Closed(os)) = Free(session)
<1>1. /\ table \in [Ids -> Objects \cup {None}] /\ session \in [Objects -> Session \cup {None}]
  BY IInvTypes, Zenon
<1>2. os \subseteq Objects /\ \A o \in os : session[o] # None /\ session[o] \in Session
  <2>1. \A o \in os : \E i \in Ids : table[i] = o /\ o # None
    BY SMTT(30) DEF InTable
  <2> QED
    BY <1>1, <2>1 DEF IInv, Good, Refers
<1>3. \A o \in os : /\ Closed(os)[o] \in Session /\ Closed(os)[o].closed
                    /\ Closed(os)[o].id = session[o].id
  BY <1>2, ZenonT(30) DEF Closed, Session
<1>4. \A o \in Objects \ os : Closed(os)[o] = session[o]
  BY Zenon DEF Closed
<1>5. Closed(os) \in [Objects -> Session \cup {None}]
  <2>1. \A o \in Objects : Closed(os)[o] \in Session \cup {None}
    BY <1>1, <1>3, <1>4, Zenon
  <2>2. Closed(os) = [o \in Objects |-> Closed(os)[o]]
    BY Zenon DEF Closed
  <2> QED
    BY <2>1, <2>2, Zenon
<1>6. Alike(session, Closed(os))
  BY <1>2, <1>3, <1>4, <1>5, NotNone, Zenon DEF Alike
<1>7. /\ Without(os) \in [Ids -> Objects \cup {None}]
      /\ \A i \in Ids : \/ Without(os)[i] = table[i] /\ table[i] \notin os
                        \/ Without(os)[i] = None /\ table[i] \in os
  BY <1>1, Zenon DEF Without
<1>8. \A i \in Ids : \/ Without(os)[i] = table[i]
                     \/ Without(os)[i] = None /\ table[i] # None /\ Closed(os)[table[i]].closed
  BY <1>2, <1>3, <1>7, NotNone, Zenon
<1>9. Good(Without(os), worker, Closed(os), active)
  BY <1>6, <1>7, <1>8, ShrinkGood, Zenon DEF IInv
<1>10. InTable(Without(os)) \subseteq InTable(table) \ os
  BY <1>7, Zenon DEF InTable
<1>11. Alive(Closed(os)) = Alive(session) /\ Free(Closed(os)) = Free(session)
  BY <1>6, Zenon DEF Alive, Free, Alike
<1> QED
  BY <1>9, <1>10, <1>11, Zenon

LEMMA PruneStep ==
  ASSUME IInv, NEW t \in Tasks, Prune(t) PROVE IInv'
<1>1. Idle \in SUBSET InTable(table)
  BY Zenon DEF Idle
<1>2. Good(Without(Idle), worker, Closed(Idle), active)
  BY <1>1, ClosedGood, Zenon
<1> QED
  BY <1>2, StepGood, Zenon DEF Prune

\* make_room_for_udp_session leaves room for a session.
LEMMA RoomIsMade ==
  ASSUME IInv, hy2, NEW os \in make_room
  PROVE  os \in SUBSET InTable(table) /\ Cardinality(InTable(Without(os))) < MaxSessions
<1> DEFINE all == InTable(table)
           busy == all \ Idle
<1>1. Idle \subseteq all
  BY Zenon DEF Idle
<1>2. /\ IsFiniteSet(all) /\ Cardinality(all) \in Nat /\ MaxSessions \in Nat
      /\ Cardinality(all) <= MaxSessions
  BY IInvTypes, SizesOf, SessionsAssumption, Zenon DEF IInv, Good, Permits
<1>3. IsFiniteSet(busy) /\ Cardinality(busy) <= Cardinality(all) /\ Cardinality(busy) \in Nat
  <2>1. IsFiniteSet(busy) /\ Cardinality(busy) <= Cardinality(all)
    BY <1>2, FS_Subset, Zenon
  <2> QED
    BY <2>1, FS_CardinalityType, Zenon
<1>4. os \subseteq all /\ \E left \in SUBSET all : /\ all \ os = left
                                                    /\ Cardinality(left) < MaxSessions
  <2>1. CASE Cardinality(all) < MaxSessions
    <3>1. os = {}
      BY <2>1 DEF make_room
    <3>2. all \ os = all
      BY <3>1
    <3> QED
      BY <2>1, <3>1, <3>2, Zenon
  <2>2. CASE ~(Cardinality(all) < MaxSessions) /\ Cardinality(busy) < MaxSessions
    <3>1. os = Idle
      BY <2>2, Zenon DEF make_room
    <3> QED
      BY <2>2, <3>1, <1>1, Zenon
  <2>3. CASE ~(Cardinality(all) < MaxSessions) /\ ~(Cardinality(busy) < MaxSessions)
    <3>1. PICK o \in Oldest(busy) : os = Idle \cup {o}
      BY <2>3, Zenon DEF make_room
    <3>2. o \in busy
      BY DEF Oldest
    <3>3. all \ os = busy \ {o} /\ os \subseteq all
      BY <3>1, <3>2, <1>1, Zenon
    <3>4. Cardinality(busy \ {o}) = Cardinality(busy) - 1
      BY <1>3, <3>2, FS_RemoveElement, Zenon
    <3> QED
      BY <1>2, <1>3, <3>3, <3>4
  <2> QED
    BY <2>1, <2>2, <2>3, Zenon
<1>5. PICK left \in SUBSET all : all \ os = left /\ Cardinality(left) < MaxSessions
  BY <1>4, Zenon
<1>6. InTable(Without(os)) \subseteq left
  BY <1>4, <1>5, ClosedGood, Zenon
<1>7. IsFiniteSet(left) /\ Cardinality(left) \in Nat
  BY <1>2, FS_Subset, FS_CardinalityType, Zenon
<1>8. Cardinality(InTable(Without(os))) <= Cardinality(left) /\ IsFiniteSet(InTable(Without(os)))
  BY <1>6, <1>7, FS_Subset, Zenon
<1>9. Cardinality(InTable(Without(os))) \in Nat
  BY <1>8, FS_CardinalityType, Zenon
<1> QED
  BY <1>2, <1>4, <1>5, <1>7, <1>8, <1>9

\* One session is touched, counted for or closed.
LEMMA UsedGood ==
  ASSUME IInv, NEW o \in Objects, session[o] # None, NEW s \in Session, s.id = session[o].id,
         session[o].closed => s.closed
  PROVE  LET ss == [session EXCEPT ![o] = s]
         IN  /\ Good(table, worker, ss, active)
             /\ Alive(ss) = Alive(session) /\ Free(ss) = Free(session)
<1> DEFINE ss == [session EXCEPT ![o] = s]
<1>1. session \in [Objects -> Session \cup {None}] /\ table \in [Ids -> Objects \cup {None}]
  BY IInvTypes, Zenon
<1>2. /\ ss \in [Objects -> Session \cup {None}] /\ ss[o] = s
      /\ \A p \in Objects : p # o => ss[p] = session[p]
  BY <1>1, Zenon
<1> HIDE DEF ss
<1>3. Alike(session, ss)
  BY <1>2, NotNone, Zenon DEF Alike
<1>4. Good(table, worker, ss, active)
  BY <1>1, <1>3, ShrinkGood, Zenon DEF IInv
<1>5. Alive(ss) = Alive(session) /\ Free(ss) = Free(session)
  BY <1>3, Zenon DEF Alive, Free, Alike
<1> QED
  BY <1>4, <1>5, Zenon DEF ss

LEMMA TouchGood ==
  ASSUME IInv, NEW o \in Objects, session[o] # None
  PROVE  /\ Good(table, worker, touch(session, o), active)
         /\ Alive(touch(session, o)) = Alive(session) /\ Free(touch(session, o)) = Free(session)
<1> DEFINE s == [session[o] EXCEPT !.idle = 0]
<1>1. session[o] \in Session
  BY IInvTypes
<1>2. s \in Session /\ s.id = session[o].id /\ (session[o].closed => s.closed)
  BY <1>1 DEF Session
<1>3. touch(session, o) = [session EXCEPT ![o] = s]
  BY IInvTypes, Zenon DEF touch
<1> HIDE DEF s
<1>4. LET ss == [session EXCEPT ![o] = s]
      IN  /\ Good(table, worker, ss, active)
          /\ Alive(ss) = Alive(session) /\ Free(ss) = Free(session)
  BY <1>2, UsedGood, Zenon
<1> QED
  BY <1>3, <1>4, Zenon

\* A session the table names is alive.
LEMMA Named ==
  ASSUME IInv, NEW i \in Ids, table[i] # None
  PROVE  table[i] \in Objects /\ session[table[i]] # None
BY IInvTypes, Zenon DEF IInv, Good, Refers

LEMMA ReadKnownStep ==
  ASSUME IInv, NEW t \in Tasks, NEW i \in Ids, ReadKnown(t, i) PROVE IInv'
<1> DEFINE o == table[i]
           ss == touch(session, o)
<1>1. hy2 /\ worker[t].at = "read" /\ o \in Objects /\ session[o] # None
  BY Named DEF ReadKnown
<1>2. PICK at \in {"held", "resolve"} :
        Step(table, [worker EXCEPT ![t] = Holding(at, o)], ss, active, owed)
  BY ZenonT(30) DEF ReadKnown
<1> DEFINE e == Holding(at, o)
<1>3. Good(table, worker, ss, active) /\ Alive(ss) = Alive(session)
  BY <1>1, TouchGood, Zenon
<1>4. ss[o] # None
  BY <1>1, <1>3, Zenon DEF Alive
<1>5. e \in Work /\ e.at = at /\ e.session = o
  BY <1>1, States DEF Ats
<1>6. o # None
  BY <1>1, NotNone, Zenon
<1>7. active = Cardinality(Alive(session)) /\ active <= PermitLimit
  BY <1>1, NoPermit, Zenon
<1>8. Cardinality(Alive(session)) \in Nat
  BY IInvTypes, SizesOf, Zenon
<1> HIDE DEF o, ss, e
<1>9. FitsTask(e) /\ ~Maker(e) /\ e.at # "bind"
  BY <1>1, <1>5, <1>6, Zenon DEF FitsTask, Maker
<1>10. /\ active = Cardinality(Alive(ss)) + IF e.at = "bind" THEN 1 ELSE 0
       /\ active <= PermitLimit
  BY <1>3, <1>7, <1>8, <1>9
<1>11. e.session # None => ss[e.session] # None
  BY <1>4, <1>5, Zenon
<1>12. worker[t].at # "over"
  BY <1>1
<1>13. Good(table, [worker EXCEPT ![t] = e], ss, active)
  BY <1>3, <1>9, <1>10, <1>11, <1>12, TaskGood, Zenon
<1> QED
  BY <1>2, <1>13, StepGood, Zenon DEF e

LEMMA ReadNewStep ==
  ASSUME IInv, NEW t \in Tasks, NEW i \in Ids, ReadNew(t, i) PROVE IInv'
<1> DEFINE e == [Rest("resolve") EXCEPT !.id = i]
<1>1. worker[t].at = "read" /\ worker[t].at # "over" /\ worker[t].at # "bind" /\ CanMake
  BY DEF ReadNew
<1>2. e \in Work /\ e.at = "resolve" /\ e.id = i /\ e.session = None
  BY States DEF Ats
<1>3. hy2 => active = Cardinality(Alive(session)) /\ active <= PermitLimit
  BY <1>1, NoPermit, Zenon
<1>4. Cardinality(Alive(session)) \in Nat
  BY IInvTypes, SizesOf
<1>5. /\ hy2 => \E os \in make_room :
           Step(Without(os), [worker EXCEPT ![t] = e], Closed(os), active, flush_traffic(owed, os, session))
      /\ ~hy2 => Moves([worker EXCEPT ![t] = e])
  BY ZenonT(30) DEF ReadNew
<1> HIDE DEF e
<1>6. FitsTask(e) /\ e.at # "bind"
  BY <1>2, NotNone, Zenon DEF FitsTask
<1>7. hy2 => /\ active = Cardinality(Alive(session)) + IF e.at = "bind" THEN 1 ELSE 0
             /\ active <= PermitLimit
  BY <1>3, <1>4, <1>6
<1>8. CASE hy2
  <2>1. PICK os \in make_room :
          Step(Without(os), [worker EXCEPT ![t] = e], Closed(os), active, flush_traffic(owed, os, session))
    BY <1>5, <1>8, ZenonT(30)
  <2>2. os \in SUBSET InTable(table) /\ Cardinality(InTable(Without(os))) < MaxSessions
    BY <1>8, RoomIsMade, Zenon
  <2>3. Good(Without(os), worker, Closed(os), active) /\ Alive(Closed(os)) = Alive(session)
    BY <2>2, ClosedGood, Zenon
  <2>4. hy2 => /\ active = Cardinality(Alive(Closed(os))) + IF e.at = "bind" THEN 1 ELSE 0
               /\ active <= PermitLimit
    BY <1>7, <2>3, Zenon
  <2>5. /\ hy2 => Cardinality(InTable(Without(os))) < MaxSessions
        /\ ~hy2 => Cardinality(Makers(worker)) < Cardinality(Free(Closed(os)))
    BY <1>8, <2>2
  <2>6. Good(Without(os), [worker EXCEPT ![t] = e], Closed(os), active)
    BY <1>1, <1>2, <1>6, <2>3, <2>4, <2>5, TaskGood, Zenon
  <2> QED
    BY <2>1, <2>6, StepGood, Zenon
<1>9. CASE ~hy2
  <2>1. Cardinality(Makers(worker)) < Cardinality(Free(session))
    BY <1>1, <1>9, Zenon DEF CanMake, Making, Makers, Free
  <2>2. /\ hy2 => Cardinality(InTable(table)) < MaxSessions
        /\ ~hy2 => Cardinality(Makers(worker)) < Cardinality(Free(session))
    BY <1>9, <2>1, Zenon
  <2>3. Good(table, worker, session, active)
    BY DEF IInv
  <2>4. Good(table, [worker EXCEPT ![t] = e], session, active)
    BY <1>1, <1>2, <1>6, <1>7, <2>2, <2>3, TaskGood, Zenon
  <2> QED
    BY <1>5, <1>9, <2>4, StepGood, Zenon DEF Moves
<1> QED
  BY <1>8, <1>9

LEMMA DissociateStep ==
  ASSUME IInv, NEW t \in Tasks, NEW i \in Ids, Dissociate(t, i) PROVE IInv'
<1> DEFINE o == table[i]
           s == [session[o] EXCEPT !.closed = TRUE]
           tb == [table EXCEPT ![i] = None]
           ss == [session EXCEPT ![o].closed = TRUE]
<1>1. o \in Objects /\ session[o] # None /\ o # None
  BY Named DEF Dissociate
<1>2. Step(tb, worker, ss, active, owed)
  BY DEF Dissociate
<1>3. s \in Session /\ s.id = session[o].id /\ s.closed
  BY <1>1, IInvTypes, ZenonT(30) DEF Session
<1>4. ss = [session EXCEPT ![o] = s]
  BY <1>1, IInvTypes, Zenon
<1>5. /\ tb \in [Ids -> Objects \cup {None}] /\ tb[i] = None
      /\ \A j \in Ids : j # i => tb[j] = table[j]
  BY IInvTypes
<1>6. ss \in [Objects -> Session \cup {None}] /\ ss[o] = s /\ \A p \in Objects : p # o => ss[p] = session[p]
  BY <1>1, <1>3, <1>4, IInvTypes, Zenon
<1>7. table[i] = o
  BY Zenon
<1> HIDE DEF o, s, tb, ss
<1>8. Alike(session, ss)
  BY <1>1, <1>3, <1>6, NotNone, ZenonT(30) DEF Alike
<1>9. Good(tb, worker, ss, active)
  BY <1>1, <1>3, <1>5, <1>6, <1>7, <1>8, ShrinkGood DEF IInv
<1> QED
  BY <1>2, <1>9, StepGood

\* A task goes on with the session it holds, ...
LEMMA GoGood ==
  ASSUME IInv, NEW ss, NEW ac, Good(table, worker, ss, ac), NEW t \in Tasks,
         worker[t].at # "over", worker[t].session # None,
         NEW at \in {"held", "flush"}, NEW ac2,
         hy2 => ac2 = Cardinality(Alive(ss)) /\ ac2 <= PermitLimit
  PROVE  Good(table, Go(t, at), ss, ac2)
<1> DEFINE e == [worker[t] EXCEPT !.at = at]
<1>1. t \in Workers /\ worker[t] \in Work
  BY TasksType, IInvTypes
<1>2. e \in Work /\ e.at = at /\ e.session = worker[t].session
  BY <1>1 DEF Work, Ats
<1>3. Go(t, at) = [worker EXCEPT ![t] = e]
  BY <1>1, IInvTypes, Zenon DEF Go
<1>4. ss[worker[t].session] # None
  BY <1>1, Zenon DEF Good, Refers
<1>5. Cardinality(Alive(ss)) \in Nat
  BY IInvTypes, SizesOf, Zenon
<1> HIDE DEF e
<1>6. FitsTask(e) /\ ~Maker(e) /\ e.at # "bind"
  BY <1>2, Zenon DEF FitsTask, Maker
<1>7. hy2 => /\ ac2 = Cardinality(Alive(ss)) + IF e.at = "bind" THEN 1 ELSE 0
             /\ ac2 <= PermitLimit
  BY <1>5, <1>6
<1>8. e.session # None => ss[e.session] # None
  BY <1>2, <1>4
<1>9. Good(table, [worker EXCEPT ![t] = e], ss, ac2)
  BY <1>6, <1>7, <1>8, TaskGood, Zenon
<1> QED
  BY <1>3, <1>9, Zenon

\* ... or with one it has found.
LEMMA HoldGood ==
  ASSUME IInv, NEW ss, NEW ac, Good(table, worker, ss, ac), NEW t \in Tasks,
         worker[t].at # "over", NEW o \in Objects, ss[o] # None, NEW ac2,
         hy2 => ac2 = Cardinality(Alive(ss)) /\ ac2 <= PermitLimit
  PROVE  Good(table, [worker EXCEPT ![t] = Holding("held", o)], ss, ac2)
<1> DEFINE e == Holding("held", o)
<1>1. e \in Work /\ e.at = "held" /\ e.session = o /\ o # None
  BY States, NotNone DEF Ats
<1>2. Cardinality(Alive(ss)) \in Nat
  BY IInvTypes, SizesOf, Zenon
<1> HIDE DEF e
<1>3. FitsTask(e) /\ ~Maker(e) /\ e.at # "bind"
  BY <1>1, Zenon DEF FitsTask, Maker
<1>4. hy2 => /\ ac2 = Cardinality(Alive(ss)) + IF e.at = "bind" THEN 1 ELSE 0
             /\ ac2 <= PermitLimit
  BY <1>2, <1>3
<1>5. e.session # None => ss[e.session] # None
  BY <1>1
<1>6. Good(table, [worker EXCEPT ![t] = e], ss, ac2)
  BY <1>3, <1>4, <1>5, TaskGood, Zenon
<1> QED
  BY <1>6 DEF e

\* A task that binds holds one permit.
LEMMA OnePermit ==
  ASSUME IInv, hy2, NEW t \in Tasks, worker[t].at = "bind"
  PROVE  /\ active = Cardinality(Alive(session)) + 1 /\ active <= PermitLimit
         /\ PermitDropped = Cardinality(Alive(session)) /\ PermitDropped <= PermitLimit
<1>1. t = "datagrams"
  BY Zenon DEF Tasks
<1>2. Cardinality(Binding(worker)) = 1
  BY <1>1, OneTask, Zenon
<1>3. Cardinality(Alive(session)) \in Nat /\ PermitLimit \in Nat
  BY IInvTypes, SizesOf, ObjectsFinite, SessionsAssumption
<1>4. active = Cardinality(Alive(session)) + 1 /\ active <= PermitLimit
  BY <1>2, Zenon DEF IInv, Good, Permits
<1>5. PermitDropped = active - 1
  BY Zenon DEF PermitDropped
<1> QED
  BY <1>3, <1>4, <1>5

LEMMA ResolveStep ==
  ASSUME IInv, NEW t \in Tasks, Resolve(t) PROVE IInv'
<1> DEFINE i == worker[t].id
           e == [worker[t] EXCEPT !.at = "bind"]
<1>1. worker[t].at = "resolve" /\ worker[t].at # "over" /\ worker[t].at # "bind"
  BY Zenon DEF Resolve
<1>2. t \in Workers /\ worker[t] \in Work
  BY TasksType, IInvTypes, Zenon
<1>3. Good(table, worker, session, active)
  BY DEF IInv
<1>4. hy2 => active = Cardinality(Alive(session)) /\ active <= PermitLimit
  BY <1>1, NoPermit, Zenon
<1>5. Cardinality(Alive(session)) \in Nat /\ PermitLimit \in Nat
  BY IInvTypes, SizesOf, ObjectsFinite, SessionsAssumption, SMTT(30)
<1>6. worker[t].session = None => i \in Ids /\ i # None /\ t \in Makers(worker)
  BY <1>1, <1>2, ZenonT(30) DEF IInv, Good, Shape, Work, Makers
<1>7. ~hy2 => worker[t].session = None
  BY <1>1 DEF IInv, Good, Shape
<1>8. /\ worker[t].session = None => FitsTask(e)
      /\ e.at = "bind" /\ e.session = worker[t].session /\ Go(t, "bind") = [worker EXCEPT ![t] = e]
  BY <1>2, <1>6, IInvTypes, Zenon DEF FitsTask, Work, Ats, Go
<1> HIDE DEF e
<1>9. CASE Moves(Leave(t, AfterError))
  BY <1>1, <1>9, IdleRests, QuitStep, Zenon
<1>10. CASE worker[t].session # None /\ Moves(Go(t, "held"))
  <2>1. Good(table, Go(t, "held"), session, active)
    BY <1>1, <1>3, <1>4, <1>10, GoGood, Zenon
  <2> QED
    BY <1>10, <2>1, StepGood, Zenon DEF Moves
<1>11. CASE ~hy2 /\ Found(i) /\ Moves([worker EXCEPT ![t] = Holding("held", table[i])])
  <2>1. table[i] \in Objects /\ session[table[i]] # None
    BY <1>6, <1>7, <1>11, Named, Zenon DEF Found
  <2>2. Good(table, [worker EXCEPT ![t] = Holding("held", table[i])], session, active)
    BY <1>1, <1>3, <1>11, <2>1, HoldGood, Zenon
  <2> QED
    BY <1>11, <2>2, StepGood, Zenon DEF Moves
<1>12. CASE ~hy2 /\ Moves(Go(t, "bind"))
  <2>1. FitsTask(e) /\ t \in Makers(worker) /\ e.session = None
    BY <1>6, <1>7, <1>8, <1>12, Zenon
  <2>2. hy2 => /\ active = Cardinality(Alive(session)) + IF e.at = "bind" THEN 1 ELSE 0
               /\ active <= PermitLimit
    BY <1>12
  <2>3. Good(table, [worker EXCEPT ![t] = e], session, active)
    BY <1>1, <1>3, <2>1, <2>2, TaskGood, Zenon
  <2> QED
    BY <1>8, <1>12, <2>3, StepGood, ZenonT(30) DEF Moves
<1>13. CASE hy2 /\ worker[t].session = None /\ active < PermitLimit
            /\ Step(table, Go(t, "bind"), session, active + 1, owed)
  <2>1. FitsTask(e) /\ t \in Makers(worker) /\ e.session = None
    BY <1>6, <1>8, <1>13, Zenon
  <2>2. hy2 => /\ active + 1 = Cardinality(Alive(session)) + IF e.at = "bind" THEN 1 ELSE 0
               /\ active + 1 <= PermitLimit
    BY <1>4, <1>5, <1>8, <1>13
  <2>3. Good(table, [worker EXCEPT ![t] = e], session, active + 1)
    BY <1>1, <1>3, <2>1, <2>2, TaskGood, Zenon
  <2> QED
    BY <1>8, <1>13, <2>3, StepGood, ZenonT(30)
<1> QED
  BY <1>9, <1>10, <1>11, <1>12, <1>13, Zenon DEF Resolve

LEMMA BindFailsStep ==
  ASSUME IInv, NEW t \in Tasks, BindFails(t) PROVE IInv'
<1>1. worker[t].at = "bind" /\ Step(table, Leave(t, AfterError), session, PermitDropped, owed)
  BY Zenon DEF BindFails
<1>2. Good(table, worker, session, active)
  BY DEF IInv
<1>3. hy2 => PermitDropped = Cardinality(Alive(session)) /\ PermitDropped <= PermitLimit
  BY <1>1, OnePermit, Zenon
<1>4. worker[t].at # "over" /\ AfterError \in {"read", "over"}
  BY <1>1, IdleRests, Zenon
<1>5. Good(table, Leave(t, AfterError), session, PermitDropped)
  BY <1>2, <1>3, <1>4, LeaveGood, Zenon
<1> QED
  BY <1>1, <1>5, StepGood, Zenon

\* A task that binds finds an object for its session.
LEMMA FreshIsFree ==
  ASSUME IInv, NEW t \in Tasks, worker[t].at = "bind"
  PROVE  Fresh \in Objects /\ session[Fresh] = None
<1>1. /\ IsFiniteSet(Alive(session)) /\ Cardinality(Alive(session)) \in Nat
      /\ IsFiniteSet(Free(session)) /\ Cardinality(Free(session)) \in Nat
      /\ IsFiniteSet(Makers(worker)) /\ Cardinality(Makers(worker)) \in Nat
  BY IInvTypes, SizesOf, Zenon
<1>2. CASE hy2
  <2>1. Cardinality(Alive(session)) + 1 <= PermitLimit
    BY <1>2, OnePermit, Zenon
  <2>2. PermitLimit \in Nat /\ PermitLimit <= Cardinality(Objects) /\ Cardinality(Objects) \in Nat
    BY ObjectsFinite, SessionsAssumption
  <2>3. Alive(session) # Objects
    BY <1>1, <2>1, <2>2
  <2>4. \E o \in Objects : session[o] = None
    BY <2>3, Zenon DEF Alive
  <2> QED
    BY <2>4, Zenon DEF Fresh
<1>3. CASE ~hy2
  <2>1. t \in Makers(worker)
    BY Zenon DEF IInv, Good, Shape, Makers
  <2>2. Cardinality(Makers(worker)) # 0
    BY <1>1, <2>1, FS_EmptySet, ZenonT(30)
  <2>3. Cardinality(Free(session)) # 0
    BY <1>1, <1>3, <2>2 DEF IInv, Good, Room
  <2>4. Free(session) # {}
    BY <2>3, FS_EmptySet, Zenon
  <2>5. \E o \in Objects : session[o] = None
    BY <2>4, Zenon DEF Free
  <2> QED
    BY <2>5 DEF Fresh
<1> QED
  BY <1>2, <1>3, Zenon

\* A session of its id that is not found makes way for a new one.
LEMMA NewGood ==
  ASSUME IInv, NEW t \in Tasks, worker[t].at = "bind", NEW o \in Objects, session[o] = None,
         NEW i \in Ids, i = worker[t].id, ~Found(i)
  PROVE  Good([table EXCEPT ![i] = o],
              [[worker EXCEPT ![t] = Holding("held", o)] EXCEPT ![o] = Holding("wait", o)],
              [session EXCEPT ![o] = UdpRelaySession(i)], active)
<1> DEFINE tb == [table EXCEPT ![i] = o]
           wk == [[worker EXCEPT ![t] = Holding("held", o)] EXCEPT ![o] = Holding("wait", o)]
           s == UdpRelaySession(i)
           ss == [session EXCEPT ![o] = s]
<1>1. /\ table \in [Ids -> Objects \cup {None}] /\ worker \in [Workers -> Work]
      /\ session \in [Objects -> Session \cup {None}]
  BY IInvTypes, Zenon
<1>2. t \in Workers /\ o \in Workers /\ t # o /\ o # None
  BY TasksType, NotNone, Zenon
<1>3. s \in Session /\ s.id = i /\ s # None
  <2>1. s \in Session /\ s.id = i
    BY Zenon DEF UdpRelaySession, Session
  <2> QED
    BY <2>1, NotNone, Zenon
<1>4. /\ tb \in [Ids -> Objects \cup {None}] /\ tb[i] = o /\ \A j \in Ids : j # i => tb[j] = table[j]
  BY <1>1, Zenon
<1>5. /\ Holding("held", o) \in Work /\ Holding("held", o).at = "held" /\ Holding("held", o).session = o
      /\ Holding("wait", o) \in Work /\ Holding("wait", o).at = "wait" /\ Holding("wait", o).session = o
  BY States DEF Ats
<1>6. /\ wk \in [Workers -> Work] /\ wk[t] = Holding("held", o) /\ wk[o] = Holding("wait", o)
      /\ \A w \in Workers : w \notin {t, o} => wk[w] = worker[w]
  BY <1>1, <1>2, <1>5, Zenon
<1>7. /\ ss \in [Objects -> Session \cup {None}] /\ ss[o] = s /\ \A p \in Objects : p # o => ss[p] = session[p]
  BY <1>1, <1>3, Zenon
<1> HIDE DEF tb, wk, s, ss
<1>8. Types(tb, wk, ss)
  BY <1>4, <1>6, <1>7, Zenon DEF Types
<1>9. /\ Refers(table, worker, session) /\ Shape(worker) /\ One(table, worker, session)
      /\ Permits(table, worker, session, active) /\ Room(worker, session)
      /\ Types(table, worker, session)
  BY Zenon DEF IInv, Good
<1>10. Makes(table, worker, session, tb, wk, ss, t, o, i)
  <2>1. ss[o] # None /\ ss[o].id = i
    BY <1>3, <1>7, Zenon
  <2>2. /\ wk[t].at = "held" /\ wk[t].session = o
        /\ wk[o].at = "wait" /\ wk[o].session = o
    BY <1>5, <1>6, Zenon
  <2> QED
    BY ONLY t \in Tasks, o \in Objects, i \in Ids, <1>4, <1>6, <1>7, <2>1, <2>2, ZenonT(30) DEF Makes
<1>11. Refers(tb, wk, ss)
  BY ONLY <1>9, <1>10, NewRefers, Zenon
<1>12. Shape(wk)
  BY <1>9, <1>10, NewShape, Zenon
<1>13. Free(ss) = Free(session) \ {o} /\ o \in Free(session)
  BY <1>3, <1>7 DEF Free
<1>14. Makers(wk) = Makers(worker) \ {t} /\ t \in Makers(worker)
  <2>1. t \in Makers(worker)
    BY <1>9, Zenon DEF Shape, Makers
  <2>2. \A u \in Tasks : u # t => wk[u] = worker[u]
    BY <1>2, <1>6, TasksType, Zenon
  <2>3. wk[t].at = "held"
    BY <1>5, <1>6, Zenon
  <2> QED
    BY ONLY <2>1, <2>2, <2>3, Zenon DEF Makers
<1>15. Permits(tb, wk, ss, active)
  <2> SUFFICES ASSUME hy2 PROVE Permits(tb, wk, ss, active)
    BY DEF Permits
  <2>1. active = Cardinality(Alive(session)) + 1 /\ active <= PermitLimit
    BY OnePermit, Zenon
  <2>2. Cardinality(InTable(table)) < MaxSessions
    BY <1>9, <1>14, ZenonT(30) DEF Permits
  <2> QED
    BY <1>1, <1>4, <1>10, <2>1, <2>2, NewPermits, ZenonT(30)
<1>16. Room(wk, ss)
  <2>1. /\ IsFiniteSet(Free(session)) /\ Cardinality(Free(session)) \in Nat
        /\ IsFiniteSet(Makers(worker)) /\ Cardinality(Makers(worker)) \in Nat
    BY <1>1, SizesOf, Zenon
  <2>2. Cardinality(Makers(wk)) = Cardinality(Makers(worker)) - 1
    BY <1>14, <2>1, FS_RemoveElement, Zenon
  <2>3. Cardinality(Free(ss)) = Cardinality(Free(session)) - 1
    BY <1>13, <2>1, FS_RemoveElement, Zenon
  <2> QED
    BY <1>9, <2>1, <2>2, <2>3 DEF Room
<1>17. One(tb, wk, ss)
  <2>1. table[i] # None => session[table[i]].closed
    BY Zenon DEF Found
  <2>2. worker[t].at # "over"
    BY Zenon
  <2> QED
    BY ONLY <1>9, <1>10, <2>1, <2>2, NewOne, Zenon
<1>18. Good(tb, wk, ss, active)
  BY <1>8, <1>11, <1>12, <1>15, <1>16, <1>17, Zenon DEF Good
<1> QED
  BY <1>18, Zenon DEF tb, wk, s, ss

LEMMA BindStep ==
  ASSUME IInv, NEW t \in Tasks, Bind(t) PROVE IInv'
<1> DEFINE i == worker[t].id
           o == IF FoundAgain(i) THEN table[i] ELSE Fresh
<1>1. worker[t].at = "bind" /\ worker[t].at # "over"
  BY Zenon DEF Bind
<1>2. i \in Ids
  BY <1>1, TasksType, IInvTypes, Zenon DEF IInv, Good, Shape, Work
<1>3. CASE FoundAgain(i)
  <2>1. o = table[i] /\ o \in Objects /\ session[o] # None
    BY <1>2, <1>3, Named, Zenon DEF FoundAgain, Found
  <2>2. Step(table, [worker EXCEPT ![t] = Holding("held", o)], touch(session, o), PermitDropped, owed)
    BY <1>3, Zenon DEF Bind
  <2> HIDE DEF o
  <2>3. Good(table, worker, touch(session, o), active) /\ Alive(touch(session, o)) = Alive(session)
    BY <2>1, TouchGood, Zenon
  <2>4. touch(session, o)[o] # None
    BY <2>1, <2>3, Zenon DEF Alive
  <2>5. hy2 => PermitDropped = Cardinality(Alive(touch(session, o))) /\ PermitDropped <= PermitLimit
    BY <1>1, <2>3, OnePermit, Zenon
  <2>6. Good(table, [worker EXCEPT ![t] = Holding("held", o)], touch(session, o), PermitDropped)
    BY <1>1, <2>1, <2>3, <2>4, <2>5, HoldGood, ZenonT(30)
  <2> QED
    BY <2>2, <2>6, StepGood, Zenon
<1>4. CASE ~FoundAgain(i)
  <2>1. o = Fresh /\ o \in Objects /\ session[o] = None
    BY <1>1, <1>4, FreshIsFree, Zenon
  <2>2. Step([table EXCEPT ![i] = o],
             [[worker EXCEPT ![t] = Holding("held", o)] EXCEPT ![o] = Holding("wait", o)],
             [session EXCEPT ![o] = UdpRelaySession(i)], active, owed)
    BY <1>4, SMTT(30) DEF Bind
  <2> HIDE DEF o
  <2>3. Good([table EXCEPT ![i] = o],
             [[worker EXCEPT ![t] = Holding("held", o)] EXCEPT ![o] = Holding("wait", o)],
             [session EXCEPT ![o] = UdpRelaySession(i)], active)
    BY <1>1, <1>2, <1>4, <2>1, NewGood, ZenonT(30) DEF FoundAgain
  <2> QED
    BY <2>2, <2>3, StepGood, Zenon
<1> QED
  BY <1>3, <1>4, Zenon

-----------------------------------------------------------------------------
(* Traffic, and the receivers.                                             *)

\* What a worker holds is alive.
LEMMA Held ==
  ASSUME IInv, NEW w \in Workers, worker[w].session # None
  PROVE  worker[w].session \in Objects /\ session[worker[w].session] # None
BY IInvTypes DEF IInv, Good, Refers, Work

\* The sessions after a packet was counted, and after a flush.
LEMMA CountGood ==
  ASSUME IInv, NEW o \in Objects, session[o] # None
  PROVE  LET ss == [touch(session, o) EXCEPT ![o].pending = session[o].pending + 1]
         IN  Good(table, worker, ss, active) /\ Alive(ss) = Alive(session)
<1> DEFINE n == session[o].pending + 1
           s == [session[o] EXCEPT !.idle = 0, !.pending = n]
           ss == [touch(session, o) EXCEPT ![o].pending = n]
<1>1. session[o] \in Session /\ session \in [Objects -> Session \cup {None}] /\ n \in Nat
  <2>1. session[o] \in Session /\ session \in [Objects -> Session \cup {None}]
    BY IInvTypes, Zenon
  <2>2. session[o].pending \in Nat
    BY <2>1 DEF Session
  <2> QED
    BY <2>1, <2>2
<1> HIDE DEF n
<1>2. s \in Session /\ s.id = session[o].id /\ (session[o].closed => s.closed)
  BY <1>1, ZenonT(30) DEF Session
<1>3. ss = [session EXCEPT ![o] = s]
  BY <1>1, ZenonT(30) DEF touch, Session
<1> HIDE DEF s
<1>4. LET sp == [session EXCEPT ![o] = s]
      IN  Good(table, worker, sp, active) /\ Alive(sp) = Alive(session)
  BY <1>2, UsedGood, Zenon
<1> QED
  BY <1>3, <1>4, Zenon DEF n

LEMMA FlushedGood ==
  ASSUME IInv, NEW o \in Objects, session[o] # None
  PROVE  LET ss == [session EXCEPT ![o].pending = 0]
         IN  Good(table, worker, ss, active) /\ Alive(ss) = Alive(session)
<1> DEFINE s == [session[o] EXCEPT !.pending = 0]
           ss == [session EXCEPT ![o].pending = 0]
<1>1. session[o] \in Session /\ session \in [Objects -> Session \cup {None}]
  BY IInvTypes
<1>2. s \in Session /\ s.id = session[o].id /\ (session[o].closed => s.closed)
  BY <1>1 DEF Session
<1>3. ss = [session EXCEPT ![o] = s]
  BY <1>1, Zenon
<1> HIDE DEF s
<1>4. LET sp == [session EXCEPT ![o] = s]
      IN  Good(table, worker, sp, active) /\ Alive(sp) = Alive(session)
  BY <1>2, UsedGood
<1> QED
  BY <1>3, <1>4

LEMMA SendStep ==
  ASSUME IInv, NEW t \in Tasks, Send(t) PROVE IInv'
<1> DEFINE o == worker[t].session
           n == session[o].pending + 1
           ss == [touch(session, o) EXCEPT ![o].pending = n]
<1>1. worker[t].at = "held" /\ worker[t].at # "over" /\ worker[t].at # "bind"
  BY SMTT(30) DEF Send
<1>2. t \in Workers /\ worker[t].session # None
  BY <1>1, TasksType, Zenon DEF IInv, Good, Shape
<1>3. o \in Objects /\ session[o] # None
  BY <1>2, Held, Zenon
<1>4. CASE \E at \in {"read", "over"} : Moves(Leave(t, at))
  BY <1>1, <1>4, QuitStep, Zenon
<1>5. CASE hy2 /\ Counted(t, Leave(t, "read"))
  <2>1. Step(table, IF n >= FlushBytes THEN Go(t, "flush") ELSE Leave(t, "read"), ss, active,
            [owed EXCEPT ![o] = @ + 1])
    BY <1>5, Zenon DEF Counted
  <2>2. Good(table, worker, ss, active) /\ Alive(ss) = Alive(session)
    BY <1>3, CountGood, Zenon
  <2>3. active = Cardinality(Alive(session)) /\ active <= PermitLimit
    BY <1>1, <1>5, NoPermit, Zenon
  <2> HIDE DEF n, ss
  <2>4. active = Cardinality(Alive(ss)) /\ active <= PermitLimit
    BY <2>2, <2>3, Zenon
  <2>5. Good(table, Go(t, "flush"), ss, active)
    BY <1>1, <1>2, <2>2, <2>4, GoGood, Zenon
  <2>6. Good(table, Leave(t, "read"), ss, active)
    BY <1>1, <2>2, <2>4, LeaveGood, Zenon
  <2>7. CASE n >= FlushBytes
    BY <2>1, <2>5, <2>7, StepGood, Zenon
  <2>8. CASE ~(n >= FlushBytes)
    BY <2>1, <2>6, <2>8, StepGood, Zenon
  <2> QED
    BY <2>7, <2>8, Zenon
<1> QED
  BY <1>4, <1>5, IdleRests, Zenon DEF Send

LEMMA ReceiverStates ==
  ASSUME IInv, NEW o \in Objects, worker[o].at # "over"
  PROVE  /\ worker[o].session = o /\ o \in Workers /\ o \notin Tasks /\ session[o] # None
         /\ worker[o] \in Work
<1>1. worker[o].session = o
  BY Zenon DEF IInv, Good, Shape
<1>2. o \in Workers /\ o \notin Tasks /\ o # None
  BY TasksType, NotNone, Zenon
<1> QED
  BY <1>1, <1>2, Held, IInvTypes, Zenon

\* The receiver's next round, its flush and its end.
LEMMA RoundGood ==
  ASSUME IInv, NEW ss, NEW ac, Good(table, worker, ss, ac), NEW o \in Objects, worker[o].at # "over"
  PROVE  /\ Good(table, Round(o), ss, ac) /\ Good(table, Leave(o, "over"), ss, ac)
         /\ Good(table, Go(o, "flush"), ss, ac)
<1>1. /\ Rest("over") \in Work /\ Rest("over").at = "over" /\ Rest("over").session = None
      /\ Holding("wait", o) \in Work /\ Holding("wait", o).at = "wait" /\ Holding("wait", o).session = o
  BY States, Zenon DEF Ats
<1>2. Good(table, [worker EXCEPT ![o] = Rest("over")], ss, ac)
  BY <1>1, ReceiverGood, Zenon
<1>3. Good(table, [worker EXCEPT ![o] = Holding("wait", o)], ss, ac)
  BY <1>1, ReceiverGood
<1>4. Good(table, Go(o, "flush"), ss, ac)
  <2> DEFINE e == [worker[o] EXCEPT !.at = "flush"]
  <2>1. e \in Work /\ e.at = "flush" /\ e.session = o
    BY ReceiverStates DEF Work, Ats
  <2>2. Go(o, "flush") = [worker EXCEPT ![o] = e]
    BY ReceiverStates, IInvTypes, Zenon DEF Go
  <2> HIDE DEF e
  <2>3. Good(table, [worker EXCEPT ![o] = e], ss, ac)
    BY <2>1, ReceiverGood, Zenon
  <2> QED
    BY <2>2, <2>3, ZenonT(30)
<1>5. Good(table, Round(o), ss, ac)
  <2>1. CASE session[o].closed
    BY <1>2, <2>1, Zenon DEF Round
  <2>2. CASE ~session[o].closed
    BY <1>3, <2>2, Zenon DEF Round
  <2> QED
    BY <2>1, <2>2, Zenon
<1> QED
  BY <1>2, <1>4, <1>5, Zenon DEF Leave

LEMMA FlushStep ==
  ASSUME IInv, NEW w \in Tasks \cup Objects, Flush(w) PROVE IInv'
<1> DEFINE o == worker[w].session
           ss == [session EXCEPT ![o].pending = 0]
<1>1. /\ worker[w].at = "flush" /\ worker[w].at # "over" /\ worker[w].at # "bind"
      /\ Step(table, IF w \in Tasks THEN Leave(w, "read") ELSE Round(w), ss, active,
              flush_traffic(owed, {o}, session))
  BY DEF Flush
<1>2. w \in Workers /\ o # None
  <2>1. CASE w \in Tasks
    BY <1>1, <2>1, TasksType, Zenon DEF IInv, Good, Shape
  <2>2. CASE w \in Objects
    BY <1>1, <2>2, ReceiverStates, NotNone, Zenon
  <2> QED
    BY <2>1, <2>2, Zenon
<1>3. o \in Objects /\ session[o] # None
  BY <1>2, Held, Zenon
<1>4. Good(table, worker, ss, active) /\ Alive(ss) = Alive(session)
  BY <1>3, FlushedGood, Zenon
<1> HIDE DEF o, ss
<1>5. CASE w \in Tasks
  <2>1. hy2 => active = Cardinality(Alive(ss)) /\ active <= PermitLimit
    BY <1>1, <1>4, <1>5, NoPermit, Zenon
  <2>2. Good(table, Leave(w, "read"), ss, active)
    BY <1>1, <1>4, <1>5, <2>1, LeaveGood, Zenon
  <2> QED
    BY <1>1, <1>5, <2>2, StepGood, Zenon
<1>6. CASE w \notin Tasks
  <2>1. Good(table, Round(w), ss, active)
    BY <1>1, <1>4, <1>6, RoundGood, Zenon
  <2> QED
    BY <1>1, <1>6, <2>1, StepGood, Zenon
<1> QED
  BY <1>5, <1>6, Zenon

LEMMA ReceiveStep ==
  ASSUME IInv, NEW o \in Objects, Receive(o) PROVE IInv'
<1> DEFINE n == session[o].pending + 1
           ss == [touch(session, o) EXCEPT ![o].pending = n]
<1>1. worker[o].at # "over"
  BY Zenon DEF Receive
<1>2. worker[o].session = o /\ session[o] # None
  BY <1>1, ReceiverStates, Zenon
<1>3. Good(table, worker, session, active)
  BY Zenon DEF IInv
<1>4. CASE Moves(Leave(o, "over"))
  BY <1>1, <1>3, <1>4, RoundGood, StepGood, Zenon DEF Moves
<1>5. CASE Moves(Round(o))
  BY <1>1, <1>3, <1>5, RoundGood, StepGood, Zenon DEF Moves
<1>6. CASE Counted(o, Round(o))
  <2>1. Step(table, IF n >= FlushBytes THEN Go(o, "flush") ELSE Round(o), ss, active,
            [owed EXCEPT ![o] = @ + 1])
    BY <1>2, <1>6, Zenon DEF Counted
  <2>2. Good(table, worker, ss, active)
    BY <1>2, CountGood, Zenon
  <2> HIDE DEF n, ss
  <2>3. Good(table, Go(o, "flush"), ss, active) /\ Good(table, Round(o), ss, active)
    BY <1>1, <2>2, RoundGood, Zenon
  <2>4. CASE n >= FlushBytes
    BY <2>1, <2>3, <2>4, StepGood, Zenon
  <2>5. CASE ~(n >= FlushBytes)
    BY <2>1, <2>3, <2>5, StepGood, Zenon
  <2> QED
    BY <2>4, <2>5, Zenon
<1> QED
  BY <1>4, <1>5, <1>6, Zenon DEF Receive

LEMMA TimerStep ==
  ASSUME IInv, NEW o \in Objects, Timer(o) PROVE IInv'
<1> DEFINE s == [session[o] EXCEPT !.closed = TRUE]
           ss == [session EXCEPT ![o].closed = TRUE]
<1>1. worker[o].at # "over"
  BY Zenon DEF Timer
<1>2. session[o] # None /\ session[o] \in Session /\ session \in [Objects -> Session \cup {None}]
  BY <1>1, ReceiverStates, IInvTypes, Zenon
<1>3. \/ Step(table, Go(o, "flush"), ss, active, owed)
      \/ Moves(Round(o))
  BY DEF Timer
<1>4. s \in Session /\ s.id = session[o].id /\ (session[o].closed => s.closed)
  BY <1>2, ZenonT(30) DEF Session
<1>5. ss = [session EXCEPT ![o] = s]
  BY <1>2
<1> HIDE DEF s, ss
<1>6. Good(table, worker, [session EXCEPT ![o] = s], active)
  BY <1>2, <1>4, UsedGood, ZenonT(30)
<1>7. Good(table, Go(o, "flush"), ss, active)
  BY <1>1, <1>5, <1>6, RoundGood, Zenon
<1>8. Good(table, Round(o), session, active)
  BY <1>1, RoundGood, Zenon DEF IInv
<1> QED
  BY <1>3, <1>7, <1>8, StepGood, Zenon DEF Moves

LEMMA ReceiverEndsStep ==
  ASSUME IInv, NEW o \in Objects, ReceiverEnds(o) PROVE IInv'
<1>1. worker[o].at # "over" /\ Moves(Leave(o, "over"))
  BY Zenon DEF ReceiverEnds
<1>2. Good(table, Leave(o, "over"), session, active)
  BY <1>1, RoundGood, Zenon DEF IInv
<1> QED
  BY <1>1, <1>2, StepGood, Zenon DEF Moves

-----------------------------------------------------------------------------
(* The connection, and time.                                               *)

\* Nothing is dropped.
LEMMA SameGood ==
  ASSUME NEW ss, Good(table, worker, ss, active), session' = ss,
         UNCHANGED <<kind, active, table, worker>>
  PROVE  IInv'
<1>1. (hy2' <=> hy2) /\ Tasks' = Tasks
  BY SMTT(30) DEF hy2, Tasks
<1>2. Types(table, worker, session)' /\ Refers(table, worker, session)' /\ Shape(worker)'
  BY <1>1, Zenon DEF Good, Types, Refers, Shape
<1>3. Permits(table, worker, session, active)'
  <2>1. /\ Alive(session)' = Alive(ss) /\ Binding(worker)' = Binding(worker)
        /\ Makers(worker)' = Makers(worker) /\ InTable(table)' = InTable(table)
    BY <1>1, Zenon DEF Alive, Binding, Makers, InTable
  <2> QED
    BY <1>1, <2>1, Zenon DEF Good, Permits
<1>4. Room(worker, session)' /\ One(table, worker, session)'
  <2>1. Free(session)' = Free(ss) /\ Makers(worker)' = Makers(worker)
    BY <1>1, Zenon DEF Free, Makers
  <2> QED
    BY <1>1, <2>1, Zenon DEF Good, Room, One
<1> QED
  BY <1>2, <1>3, <1>4, Zenon DEF IInv, Good

LEMMA TickStep ==
  ASSUME IInv, Tick PROVE IInv'
<1> DEFINE ss == [o \in Objects |->
                    IF session[o] = None \/ is_idle(session, o) THEN session[o]
                    ELSE [session[o] EXCEPT !.idle = @ + 1]]
<1>1. session' = ss /\ UNCHANGED <<kind, active, table, worker>>
  BY DEF Tick, setting
<1>2. session \in [Objects -> Session \cup {None}] /\ table \in [Ids -> Objects \cup {None}]
  BY IInvTypes
<1>3. \A o \in Objects :
        \/ ss[o] = session[o]
        \/ /\ session[o] # None /\ ss[o] \in Session /\ ss[o].id = session[o].id
           /\ session[o].closed => ss[o].closed
  BY <1>2 DEF Session
<1>4. ss \in [Objects -> Session \cup {None}]
  <2>1. \A o \in Objects : ss[o] \in Session \cup {None}
    BY <1>2, <1>3, Zenon
  <2> QED
    BY <2>1
<1> HIDE DEF ss
<1>5. Alike(session, ss)
  BY <1>3, <1>4, NotNone, Zenon DEF Alike
<1>6. Good(table, worker, ss, active)
  BY <1>2, <1>5, ShrinkGood, Zenon DEF IInv
<1> QED
  BY <1>1, <1>6, SameGood, Zenon

LEMMA InitIInv == Init => IInv
<1> SUFFICES ASSUME Init PROVE IInv
  BY Zenon
<1>1. /\ table = Empty /\ session = [o \in Objects |-> None] /\ active = 0
      /\ worker = [w \in Workers |-> Rest(IF w \in Tasks THEN "read" ELSE "over")]
  BY DEF Init
<1>2. \A at \in {"read", "over"} : Rest(at) \in Work /\ Rest(at).at = at /\ Rest(at).session = None
  BY States, IdleRests, Zenon
<1>3. /\ \A t \in Tasks : worker[t].at = "read" /\ worker[t].session = None
      /\ \A o \in Objects : worker[o].at = "over" /\ worker[o].session = None
      /\ \A w \in Workers : worker[w] \in Work /\ worker[w].session = None
  BY <1>1, <1>2, TasksType, Zenon
<1>4. Types(table, worker, session)
  BY <1>1, <1>3, Zenon DEF Types, Empty
<1>5. Refers(table, worker, session) /\ Shape(worker) /\ One(table, worker, session)
  BY <1>1, <1>3, Zenon DEF Refers, Shape, One, Empty
<1>6. Alive(session) = {} /\ Binding(worker) = {} /\ Makers(worker) = {} /\ InTable(table) = {}
  BY <1>1, <1>3, Zenon DEF Alive, Binding, Makers, InTable, Empty
<1>7. /\ Cardinality(Alive(session)) = 0 /\ Cardinality(Binding(worker)) = 0
      /\ Cardinality(Makers(worker)) = 0 /\ Cardinality(InTable(table)) = 0
  BY <1>6, FS_EmptySet, Zenon
<1>8. PermitLimit \in Nat /\ MaxSessions \in Nat
  BY ObjectsFinite, SessionsAssumption
<1>9. Permits(table, worker, session, active)
  BY <1>1, <1>6, <1>7, <1>8 DEF Permits
<1>10. Room(worker, session)
  BY <1>4, <1>7, SizesOf DEF Room, Types
<1> QED
  BY <1>4, <1>5, <1>9, <1>10, Zenon DEF IInv, Good

LEMMA IInvStep == IInv /\ [Next]_vars => IInv'
<1> SUFFICES ASSUME IInv, [Next]_vars PROVE IInv'
  BY Zenon
<1>1. CASE \E t \in Tasks : Task(t)
  BY <1>1, ReadFailsStep, StopStep, PruneStep, ReadKnownStep, ReadNewStep, DissociateStep,
     ResolveStep, BindFailsStep, BindStep, SendStep, FlushStep, ZenonT(30) DEF Task
<1>2. CASE \E o \in Objects : Receiver(o)
  BY <1>2, ReceiveStep, TimerStep, ReceiverEndsStep, FlushStep, Zenon DEF Receiver
<1>3. CASE HandlerEnds
  <2>1. kind' = kind /\ Leaves(table, worker, session, active, owed)
    BY <1>3, Zenon DEF HandlerEnds
  <2> QED
    BY <2>1, LeavesGood, Zenon DEF IInv
<1>4. CASE CloseConnection
  BY <1>4, SameGood, Zenon DEF CloseConnection, IInv
<1>5. CASE Revoke
  BY <1>5, SameGood, Zenon DEF Revoke, IInv
<1>6. CASE Tick
  BY <1>6, TickStep, Zenon
<1>7. CASE UNCHANGED vars
  BY <1>7, SameGood, Zenon DEF vars, IInv
<1> QED
  BY <1>1, <1>2, <1>3, <1>4, <1>5, <1>6, <1>7, ZenonT(30) DEF Next

\* Permits, table and sessions agree for any number of ids, sessions and permits
\* and any limit of sessions: every permit belongs to a session that is alive or
\* being made and there are never more than the limit (hysteria2.rs 912-937,
\* 1177-1199), the table keeps to its size although its room is made before a name
\* is resolved (910-944), and of two tasks that make the session of an id one
\* wins (tuic.rs 718-726).
THEOREM SessionsExact == Spec => []SessionsAreExact
<1>1. IInv => SessionsAreExact
  BY DEF IInv, Good, Permits, One, Alive, Binding,
     SessionsAreExact, PermitsAreExact, OneSessionPerId
<1> QED
  BY <1>1, InitIInv, IInvStep, PTL DEF Spec

-----------------------------------------------------------------------------
(* The traffic. What a step describes is kept, and so is what is left of   *)
(* it when the sessions that nobody refers to are dropped.                 *)

Kept(ow, ss) ==
  /\ ss \in [Objects -> Session \cup {None}]
  /\ ow \in [Objects -> Nat]
  /\ \A o \in Objects : ow[o] = IF ss[o] = None THEN 0 ELSE ss[o].pending

LEMMA LeavesKept ==
  ASSUME NEW tb, NEW wk, NEW ss, NEW ac, NEW ow, Kept(ow, ss), Leaves(tb, wk, ss, ac, ow)
  PROVE  Kept(owed, session)'
<1> DEFINE gone == Unreferenced(table', wk, ss)
<1>1. /\ session' = [o \in Objects |-> IF o \in gone THEN None ELSE ss[o]]
      /\ owed' = [o \in Objects |-> IF o \in gone THEN ow[o] - ss[o].pending ELSE ow[o]]
  BY Zenon DEF Leaves, DropFlushes, flush_traffic
<1>2. \A o \in gone : o \in Objects /\ ss[o] # None
  BY Zenon DEF Unreferenced
<1> HIDE DEF gone
<1>3. \A o \in Objects : ss[o] # None => ss[o] \in Session /\ ss[o].pending \in Nat
  BY DEF Kept, Session
<1>4. ASSUME NEW o \in Objects
      PROVE  /\ session'[o] \in Session \cup {None} /\ owed'[o] \in Nat
             /\ owed'[o] = IF session'[o] = None THEN 0 ELSE session'[o].pending
  <2>1. CASE o \in gone
    <3>1. session'[o] = None /\ owed'[o] = ow[o] - ss[o].pending
      BY <1>1, <2>1, Zenon
    <3>2. ow[o] = ss[o].pending /\ ss[o].pending \in Nat
      BY <1>2, <1>3, <2>1, Zenon DEF Kept
    <3>3. owed'[o] = 0
      BY ONLY <3>1, <3>2
    <3> QED
      BY <3>1, <3>3
  <2>2. CASE o \notin gone
    <3>1. session'[o] = ss[o] /\ owed'[o] = ow[o]
      BY <1>1, <2>2, Zenon
    <3> QED
      BY <3>1, Zenon DEF Kept
  <2> QED
    BY <2>1, <2>2, Zenon
<1>5. session' \in [Objects -> Session \cup {None}] /\ owed' \in [Objects -> Nat]
  BY <1>1, <1>4, Zenon
<1> QED
  BY <1>4, <1>5, Zenon DEF Kept

LEMMA StepKept ==
  ASSUME NEW tb, NEW wk, NEW ss, NEW ac, NEW ow, Kept(ow, ss), Step(tb, wk, ss, ac, ow)
  PROVE  Kept(owed, session)'
BY LeavesKept, Zenon DEF Step

\* One session changes, or is made.
LEMMA PutKept ==
  ASSUME Kept(owed, session), NEW o \in Objects, NEW s \in Session,
         NEW ow \in [Objects -> Nat], ow[o] = s.pending,
         \A p \in Objects : p # o => ow[p] = owed[p]
  PROVE  Kept(ow, [session EXCEPT ![o] = s])
<1> DEFINE ss == [session EXCEPT ![o] = s]
<1>1. /\ ss \in [Objects -> Session \cup {None}] /\ ss[o] = s
      /\ \A p \in Objects : p # o => ss[p] = session[p]
  BY Zenon DEF Kept
<1>2. s # None
  BY NotNone, Zenon
<1> HIDE DEF ss
<1>3. \A p \in Objects : ow[p] = IF ss[p] = None THEN 0 ELSE ss[p].pending
  BY <1>1, <1>2, Zenon DEF Kept
<1>4. Kept(ow, ss)
  BY <1>1, <1>3, Zenon DEF Kept
<1> QED
  BY <1>4, Zenon DEF ss

\* A session is used or closed, and nothing is forwarded.
LEMMA UsedKept ==
  ASSUME Kept(owed, session), NEW o \in Objects, session[o] # None
  PROVE  Kept(owed, touch(session, o)) /\ Kept(owed, [session EXCEPT ![o].closed = TRUE])
<1> DEFINE s == [session[o] EXCEPT !.idle = 0]
           z == [session[o] EXCEPT !.closed = TRUE]
<1>1. session[o] \in Session /\ session \in [Objects -> Session \cup {None}]
  BY Zenon DEF Kept
<1>2. s \in Session /\ s.pending = session[o].pending /\ z \in Session /\ z.pending = session[o].pending
  BY <1>1 DEF Session
<1>3. touch(session, o) = [session EXCEPT ![o] = s] /\ [session EXCEPT ![o].closed = TRUE] = [session EXCEPT ![o] = z]
  BY <1>1 DEF touch
<1>4. owed \in [Objects -> Nat] /\ owed[o] = session[o].pending
  BY Zenon DEF Kept
<1> HIDE DEF s, z
<1> QED
  BY <1>2, <1>3, <1>4, PutKept, ZenonT(30)

\* Sessions are closed and record what they have pending.
LEMMA ClosedKept ==
  ASSUME Kept(owed, session), NEW os, \A o \in os : o \in Objects /\ session[o] # None
  PROVE  Kept(flush_traffic(owed, os, session), Closed(os))
<1> DEFINE ss == Closed(os)
           ow == flush_traffic(owed, os, session)
<1>1. \A o \in Objects : session[o] # None =>
        /\ session[o] \in Session /\ session[o].pending \in Nat
        /\ owed[o] = session[o].pending
  BY DEF Kept, Session
<1>2. ASSUME NEW o \in Objects
      PROVE  /\ ss[o] \in Session \cup {None} /\ ow[o] \in Nat
             /\ ow[o] = IF ss[o] = None THEN 0 ELSE ss[o].pending
  <2>1. CASE o \in os
    <3>1. /\ ss[o] = [session[o] EXCEPT !.closed = TRUE, !.pending = 0]
          /\ ow[o] = owed[o] - session[o].pending
      BY <2>1, Zenon DEF Closed, flush_traffic
    <3>2. session[o] # None /\ session[o] \in Session /\ session[o].pending \in Nat
          /\ owed[o] = session[o].pending
      BY <1>1, <2>1, Zenon
    <3> DEFINE z == [session[o] EXCEPT !.closed = TRUE, !.pending = 0]
    <3>3. ss[o] \in Session /\ ss[o].pending = 0
      <4>1. z \in Session /\ z.pending = 0
        BY <3>2, ZenonT(30) DEF Session
      <4> QED
        BY <3>1, <4>1, Zenon
    <3> HIDE DEF ss, ow
    <3>4. ow[o] = 0
      BY ONLY <3>1, <3>2
    <3>5. ss[o] # None
      BY <3>3, NotNone, Zenon
    <3> QED
      BY <3>3, <3>4, <3>5
  <2>2. CASE o \notin os
    <3>1. ss[o] = session[o] /\ ow[o] = owed[o]
      BY <2>2, Zenon DEF Closed, flush_traffic
    <3> QED
      BY <3>1, Zenon DEF Kept
  <2> QED
    BY <2>1, <2>2, Zenon
<1>3. ss \in [Objects -> Session \cup {None}] /\ ow \in [Objects -> Nat]
  BY <1>2, Zenon DEF Closed, flush_traffic
<1> QED
  BY <1>2, <1>3, Zenon DEF Kept

\* A packet went through a session.
LEMMA CountedKept ==
  ASSUME IInv, Kept(owed, session), NEW w \in Workers, worker[w].session # None,
         NEW next, Counted(w, next)
  PROVE  Kept(owed, session)'
<1> DEFINE o == worker[w].session
           n == session[o].pending + 1
           s == [session[o] EXCEPT !.idle = 0, !.pending = n]
           ow == [owed EXCEPT ![o] = @ + 1]
           ss == [touch(session, o) EXCEPT ![o].pending = n]
<1>1. o \in Objects /\ session[o] # None
  BY Held, Zenon
<1>2. session[o] \in Session /\ session \in [Objects -> Session \cup {None}] /\ owed \in [Objects -> Nat]
      /\ owed[o] = session[o].pending
  BY <1>1, Zenon DEF Kept
<1>3. s \in Session /\ s.pending = n
  <2>1. n \in Nat
    BY <1>2 DEF Session
  <2> HIDE DEF n
  <2> QED
    BY <1>2, <2>1, ZenonT(30) DEF Session
<1>4. ss = [session EXCEPT ![o] = s]
  BY <1>1, <1>2 DEF touch
<1>5. ow \in [Objects -> Nat] /\ ow[o] = n /\ \A p \in Objects : p # o => ow[p] = owed[p]
  BY <1>1, <1>2 DEF Session
<1>6. Step(table, IF n >= FlushBytes THEN Go(w, "flush") ELSE next, ss, active, ow)
  BY Zenon DEF Counted
<1> HIDE DEF o, n, s, ow, ss
<1>7. Kept(ow, ss)
  BY <1>1, <1>3, <1>4, <1>5, PutKept, Zenon
<1> QED
  BY <1>6, <1>7, StepKept, Zenon

LEMMA FlushKept ==
  ASSUME IInv, Kept(owed, session), NEW w \in Tasks \cup Objects, Flush(w)
  PROVE  Kept(owed, session)'
<1> DEFINE o == worker[w].session
           s == [session[o] EXCEPT !.pending = 0]
           ow == flush_traffic(owed, {o}, session)
           ss == [session EXCEPT ![o].pending = 0]
<1>1. /\ worker[w].at = "flush"
      /\ Step(table, IF w \in Tasks THEN Leave(w, "read") ELSE Round(w), ss, active, ow)
  BY Zenon DEF Flush
<1>2. w \in Workers /\ o # None
  <2>1. CASE w \in Tasks
    BY <1>1, <2>1, TasksType, ZenonT(30) DEF IInv, Good, Shape
  <2>2. CASE w \in Objects
    BY <1>1, <2>2, ReceiverStates, NotNone
  <2> QED
    BY <2>1, <2>2, Zenon
<1>3. o \in Objects /\ session[o] # None
  BY <1>2, Held, Zenon
<1>4. session[o] \in Session /\ session \in [Objects -> Session \cup {None}] /\ owed \in [Objects -> Nat]
      /\ owed[o] = session[o].pending
  BY <1>3, Zenon DEF Kept
<1>5. s \in Session /\ s.pending = 0 /\ session[o].pending \in Nat
  BY <1>4 DEF Session
<1>6. ss = [session EXCEPT ![o] = s]
  BY <1>3, <1>4
<1>7. /\ ow[o] = owed[o] - session[o].pending /\ \A p \in Objects : p # o => ow[p] = owed[p]
      /\ ow = [p \in Objects |-> IF p = o THEN owed[p] - session[p].pending ELSE owed[p]]
  BY <1>3 DEF flush_traffic
<1> HIDE DEF o, s, ow, ss
<1>8. ow[o] = 0
  BY ONLY <1>4, <1>5, <1>7
<1>9. ow \in [Objects -> Nat]
  <2>1. \A p \in Objects : ow[p] \in Nat
    BY <1>4, <1>7, <1>8
  <2> QED
    BY <1>7, <2>1, Zenon
<1>10. Kept(ow, ss)
  BY <1>3, <1>5, <1>6, <1>7, <1>8, <1>9, PutKept, ZenonT(30)
<1> QED
  BY <1>1, <1>10, StepKept, Zenon

LEMMA TaskKept ==
  ASSUME IInv, Kept(owed, session), NEW t \in Tasks, Task(t)
  PROVE  Kept(owed, session)'
<1>1. t \in Workers
  BY TasksType, Zenon
<1>2. ASSUME NEW wk, Moves(wk) PROVE Kept(owed, session)'
  BY <1>2, StepKept, Zenon DEF Moves
<1>3. CASE ReadFails(t) \/ Stop(t)
  BY <1>2, <1>3, Zenon DEF ReadFails, Stop
<1>4. ASSUME NEW os \in SUBSET InTable(table)
      PROVE  Kept(flush_traffic(owed, os, session), Closed(os))
  <2>1. \A o \in os : \E i \in Ids : table[i] = o /\ o # None
    BY <1>4, SMTT(30) DEF InTable
  <2>2. \A i \in Ids : table[i] # None => table[i] \in Objects /\ session[table[i]] # None
    BY Named, Zenon
  <2>3. \A o \in os : o \in Objects /\ session[o] # None
    BY <2>1, <2>2, Zenon
  <2> QED
    BY <2>3, ClosedKept, Zenon
<1>5. CASE Prune(t)
  <2>1. Idle \in SUBSET InTable(table)
    BY Zenon DEF Idle
  <2>2. Step(Without(Idle), worker, Closed(Idle), active, flush_traffic(owed, Idle, session))
    BY <1>5, Zenon DEF Prune
  <2> QED
    BY <1>4, <2>1, <2>2, StepKept, Zenon
<1>6. ASSUME NEW i \in Ids, ReadKnown(t, i) PROVE Kept(owed, session)'
  <2>1. table[i] \in Objects /\ session[table[i]] # None
    BY <1>6, Named, Zenon DEF ReadKnown
  <2>2. Kept(owed, touch(session, table[i]))
    BY <2>1, UsedKept, Zenon
  <2> QED
    BY <1>6, <2>2, StepKept, Zenon DEF ReadKnown
<1>7. ASSUME NEW i \in Ids, ReadNew(t, i) PROVE Kept(owed, session)'
  <2>1. CASE hy2
    <3>1. PICK os \in make_room :
            Step(Without(os), [worker EXCEPT ![t] = [Rest("resolve") EXCEPT !.id = i]],
                 Closed(os), active, flush_traffic(owed, os, session))
      BY <1>7, <2>1, Zenon DEF ReadNew
    <3>2. os \in SUBSET InTable(table)
      BY <2>1, RoomIsMade, Zenon
    <3> QED
      BY <1>4, <3>1, <3>2, StepKept, Zenon
  <2>2. CASE ~hy2
    BY <1>2, <1>7, <2>2, Zenon DEF ReadNew
  <2> QED
    BY <2>1, <2>2, Zenon
<1>8. ASSUME NEW i \in Ids, Dissociate(t, i) PROVE Kept(owed, session)'
  <2>1. table[i] \in Objects /\ session[table[i]] # None
    BY <1>8, Named, Zenon DEF Dissociate
  <2>2. Kept(owed, [session EXCEPT ![table[i]].closed = TRUE])
    BY <2>1, UsedKept, Zenon
  <2> QED
    BY <1>8, <2>2, StepKept, Zenon DEF Dissociate
<1>9. CASE Resolve(t)
  BY <1>2, <1>9, StepKept, Zenon DEF Resolve
<1>10. CASE BindFails(t)
  BY <1>10, StepKept, Zenon DEF BindFails
<1>11. CASE Bind(t)
  <2> DEFINE i == worker[t].id
  <2>1. i \in Ids
    <3>1. worker[t].at = "bind"
      BY <1>11, Zenon DEF Bind
    <3> QED
      BY <3>1, TasksType, IInvTypes, ZenonT(30) DEF IInv, Good, Shape, Work
  <2>2. CASE FoundAgain(i)
    <3>1. table[i] \in Objects /\ session[table[i]] # None
      BY <2>1, <2>2, Named, Zenon DEF FoundAgain, Found
    <3>2. Kept(owed, touch(session, table[i]))
      BY <3>1, UsedKept, Zenon
    <3> QED
      BY <1>11, <2>2, <3>2, StepKept, Zenon DEF Bind
  <2>3. CASE ~FoundAgain(i)
    <3>1. Fresh \in Objects /\ session[Fresh] = None
      BY <1>11, FreshIsFree, Zenon DEF Bind
    <3>2. UdpRelaySession(i) \in Session /\ UdpRelaySession(i).pending = 0
      BY <2>1 DEF UdpRelaySession, Session
    <3>3. owed \in [Objects -> Nat] /\ owed[Fresh] = 0
      BY <3>1, Zenon DEF Kept
    <3>4. Kept(owed, [session EXCEPT ![Fresh] = UdpRelaySession(i)])
      BY <3>1, <3>2, <3>3, PutKept, Zenon
    <3> QED
      BY <1>11, <2>3, <3>4, StepKept, Zenon DEF Bind
  <2> QED
    BY <2>2, <2>3, Zenon
<1>12. CASE Send(t)
  <2>1. worker[t].session # None
    BY <1>12, Zenon DEF Send, IInv, Good, Shape
  <2> QED
    BY <1>1, <1>2, <1>12, <2>1, CountedKept, ZenonT(30) DEF Send
<1>13. CASE Flush(t)
  BY <1>13, FlushKept, Zenon
<1> QED
  BY <1>3, <1>5, <1>6, <1>7, <1>8, <1>9, <1>10, <1>11, <1>12, <1>13, ZenonT(30) DEF Task

LEMMA ReceiverKept ==
  ASSUME IInv, Kept(owed, session), NEW o \in Objects, Receiver(o)
  PROVE  Kept(owed, session)'
<1>1. ASSUME NEW wk, Moves(wk) PROVE Kept(owed, session)'
  BY <1>1, StepKept, Zenon DEF Moves
<1>2. CASE Receive(o)
  <2>1. worker[o].at # "over"
    BY <1>2, Zenon DEF Receive
  <2>2. worker[o].session = o /\ o \in Workers /\ o # None
    BY <2>1, ReceiverStates, NotNone, Zenon
  <2> QED
    BY <1>1, <1>2, <2>2, CountedKept, Zenon DEF Receive
<1>3. CASE Timer(o)
  <2>1. worker[o].at # "over"
    BY <1>3, Zenon DEF Timer
  <2>2. Kept(owed, [session EXCEPT ![o].closed = TRUE])
    BY <2>1, ReceiverStates, UsedKept, Zenon
  <2> QED
    BY <1>1, <1>3, <2>2, StepKept, Zenon DEF Timer
<1>4. CASE ReceiverEnds(o)
  BY <1>1, <1>4, Zenon DEF ReceiverEnds
<1>5. CASE Flush(o)
  BY <1>5, FlushKept, Zenon
<1> QED
  BY <1>2, <1>3, <1>4, <1>5, Zenon DEF Receiver

LEMMA TickKept ==
  ASSUME Kept(owed, session), Tick PROVE Kept(owed, session)'
<1>1. /\ owed' = owed
      /\ session' = [o \in Objects |->
           IF session[o] = None \/ is_idle(session, o) THEN session[o]
           ELSE [session[o] EXCEPT !.idle = @ + 1]]
  BY Zenon DEF Tick
<1>2. ASSUME NEW o \in Objects
      PROVE  /\ session'[o] \in Session \cup {None}
             /\ owed[o] = IF session'[o] = None THEN 0 ELSE session'[o].pending
  <2>1. CASE session'[o] = session[o]
    BY <2>1, Zenon DEF Kept
  <2>2. CASE session[o] # None /\ session'[o] = [session[o] EXCEPT !.idle = @ + 1]
    <3>1. session[o] \in Session /\ owed[o] = session[o].pending
      BY <2>2, Zenon DEF Kept
    <3>2. session'[o] \in Session /\ session'[o].pending = session[o].pending
      BY ONLY <2>2, <3>1 DEF Session
    <3> QED
      BY <3>1, <3>2, NotNone, Zenon
  <2> QED
    BY <1>1, <2>1, <2>2, Zenon
<1>3. session' \in [Objects -> Session \cup {None}]
  BY <1>1, <1>2, Zenon
<1> QED
  BY <1>1, <1>2, <1>3, Zenon DEF Kept

LEMMA KeptStep == IInv /\ Kept(owed, session) /\ [Next]_vars => Kept(owed, session)'
<1> SUFFICES ASSUME IInv, Kept(owed, session), [Next]_vars PROVE Kept(owed, session)'
  BY Zenon
<1>1. CASE HandlerEnds
  BY <1>1, LeavesKept, Zenon DEF HandlerEnds
<1>2. CASE UNCHANGED <<session, owed>>
  BY <1>2, Zenon DEF Kept
<1> QED
  BY <1>1, <1>2, TaskKept, ReceiverKept, TickKept, ZenonT(30)
     DEF Next, CloseConnection, Revoke, vars

\* No packet is lost or counted twice for any number of sessions, tasks and
\* packets of a batch: what was forwarded and is not recorded is what the session
\* has pending, whichever of a batch's swap, a close and the drop of the last
\* reference comes first (hysteria2.rs 1129-1172).
THEOREM TrafficKept == Spec => []TrafficIsKept
<1>1. Init => Kept(owed, session)
  BY DEF Init, Kept
<1>2. Kept(owed, session) => TrafficIsKept
  BY Zenon DEF Kept, TrafficIsKept
<1> QED
  BY <1>1, <1>2, InitIInv, IInvStep, KeptStep, PTL DEF Spec

=============================================================================
