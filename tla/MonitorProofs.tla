---------------------------- MODULE MonitorProofs ----------------------------
(***************************************************************************)
(* The signals of the monitor are enough, its counter agrees with its      *)
(* lists, and it is the queue its users are promised, for any number of    *)
(* threads, items and levels.                                              *)
(***************************************************************************)
EXTENDS PqMonitor, FiniteSetTheorems, TLAPS

MonitorInv ==
    /\ size \in Int
    /\ pc \in [Popper -> {"out", "mutex", "asleep"}]
    /\ NoneStranded

\* The number of threads that are awake in pq_pop changes by one when a
\* thread enters or leaves.
LEMMA AwakeCount ==
    ASSUME NEW A \in SUBSET Popper, NEW p \in Popper
    PROVE  /\ IsFiniteSet(A) /\ Cardinality(A) \in Nat
           /\ p \notin A => Cardinality(A \cup {p}) = Cardinality(A) + 1
           /\ p \in A => Cardinality(A \ {p}) = Cardinality(A) - 1
<1>1. IsFiniteSet(A)
  BY MonitorAssumption, FS_Subset
<1>. QED
  BY <1>1, FS_CardinalityType, FS_AddElement, FS_RemoveElement

\* A thread that moves from one place to another changes the two sets so.
LEMMA OneMoves ==
    ASSUME pc \in [Popper -> {"out", "mutex", "asleep"}], NEW p \in Popper,
           NEW to \in {"out", "mutex", "asleep"}, pc' = [pc EXCEPT ![p] = to]
    PROVE  /\ pc' \in [Popper -> {"out", "mutex", "asleep"}]
           /\ Awake' = IF to = "mutex" THEN Awake \cup {p} ELSE Awake \ {p}
           /\ Asleep' = IF to = "asleep" THEN Asleep \cup {p} ELSE Asleep \ {p}
BY DEF Awake, Asleep

\* A push adds an item, and a thread to use it if one sleeps
\* (priority_queue.c:77-96).
LEMMA PushStrands ==
    ASSUME MonitorInv, NEW item \in Item, NEW prio \in Prio, Push(item, prio)
    PROVE  MonitorInv'
<1>. USE DEF MonitorInv
<1>1. size' = size + 1 /\ closed' = closed
  BY DEF Push
<1>2. CASE Asleep = {}
  <2>1. pc' = pc
    BY <1>2 DEF Push, SignalOne
  <2>. QED
    BY <1>1, <1>2, <2>1 DEF NoneStranded, Asleep
<1>3. CASE Asleep # {}
  <2>1. PICK p \in Asleep : pc' = [pc EXCEPT ![p] = "mutex"]
    BY <1>3 DEF Push, SignalOne
  <2>2. p \in Popper /\ p \notin Awake /\ Awake \in SUBSET Popper
    BY <2>1 DEF Asleep, Awake
  <2>3. Awake' = Awake \cup {p} /\ pc' \in [Popper -> {"out", "mutex", "asleep"}]
    BY <2>1, <2>2, OneMoves
  <2>4. /\ Cardinality(Awake) \in Nat
        /\ Cardinality(Awake') = Cardinality(Awake) + 1
    BY <2>2, <2>3, AwakeCount
  <2>5. ~ closed /\ size <= Cardinality(Awake)
    BY <1>3 DEF NoneStranded
  <2>6. size' <= Cardinality(Awake')
    BY <1>1, <2>4, <2>5
  <2>7. NoneStranded'
    BY <1>1, <2>5, <2>6 DEF NoneStranded
  <2>. QED
    BY <1>1, <2>3, <2>7
<1>. QED
  BY <1>2, <1>3

\* pq_close leaves nobody asleep (priority_queue.c:69-75).
LEMMA CloseStrands == MonitorInv /\ Close => MonitorInv'
<1>. SUFFICES ASSUME MonitorInv, Close PROVE MonitorInv'
  OBVIOUS
<1>1. pc' \in [Popper -> {"out", "mutex", "asleep"}] /\ Asleep' = {}
  BY DEF MonitorInv, Close, SignalAll, Asleep
<1>. QED
  BY <1>1 DEF MonitorInv, Close, NoneStranded

\* Taking an item without pq_pop leaves fewer items for the same threads
\* (priority_queue.c:123-157).
LEMMA TakeStrands ==
    ASSUME MonitorInv, size' = size - 1, UNCHANGED <<closed, pc>>
    PROVE  MonitorInv'
<1>1. Awake' = Awake /\ Asleep' = Asleep
  BY DEF Awake, Asleep
<1>2. Cardinality(Awake) \in Nat
  <2>1. Awake \in SUBSET Popper
    BY DEF Awake
  <2>. QED
    BY <2>1, MonitorAssumption, FS_Subset, FS_CardinalityType
<1>3. Asleep # {} => ~ closed /\ size - 1 <= Cardinality(Awake)
  BY <1>2 DEF MonitorInv, NoneStranded
<1>. QED
  BY <1>1, <1>3 DEF MonitorInv, NoneStranded

\* A thread in pq_pop sleeps only when there is nothing, takes an item away
\* with itself, and returns empty-handed only when nobody sleeps any more
\* (priority_queue.c:99-121).
LEMMA PopStrands ==
    ASSUME MonitorInv, NEW p \in Popper,
           PopCall(p) \/ Pop(p) \/ SpuriousWakeup(p)
    PROVE  MonitorInv'
<1>. USE DEF MonitorInv
<1>1. Awake \in SUBSET Popper /\ Cardinality(Awake) \in Nat
  <2>1. Awake \in SUBSET Popper
    BY DEF Awake
  <2>. QED
    BY <2>1, AwakeCount
<1>2. Asleep # {} => ~ closed /\ size <= Cardinality(Awake)
  BY DEF NoneStranded
<1>3. CASE PopCall(p) \/ SpuriousWakeup(p)
  <2>1. /\ pc' = [pc EXCEPT ![p] = "mutex"] /\ p \notin Awake
        /\ UNCHANGED <<size, closed>>
    BY <1>3 DEF PopCall, SpuriousWakeup, Awake
  <2>2. /\ Awake' = Awake \cup {p} /\ Asleep' \subseteq Asleep
        /\ pc' \in [Popper -> {"out", "mutex", "asleep"}]
    BY <2>1, OneMoves
  <2>3. Cardinality(Awake') = Cardinality(Awake) + 1
    BY <1>1, <2>1, <2>2, AwakeCount
  <2>4. Asleep' # {} => ~ closed /\ size <= Cardinality(Awake')
    BY <1>1, <1>2, <2>2, <2>3
  <2>. QED
    BY <2>1, <2>2, <2>4 DEF NoneStranded
<1>4. CASE PopWait(p)
  <2>1. /\ pc' = [pc EXCEPT ![p] = "asleep"] /\ size = 0 /\ ~ closed
        /\ UNCHANGED <<size, closed>>
    BY <1>4 DEF PopWait
  <2>2. /\ Awake' \in SUBSET Popper
        /\ pc' \in [Popper -> {"out", "mutex", "asleep"}]
    BY <1>1, <2>1, OneMoves
  <2>3. Cardinality(Awake') \in Nat
    BY <2>2, AwakeCount
  <2>4. size' <= Cardinality(Awake') /\ ~ closed'
    BY <2>1, <2>3
  <2>. QED
    BY <2>1, <2>2, <2>4 DEF NoneStranded
<1>5. CASE PopNull(p)
  <2>1. /\ pc' = [pc EXCEPT ![p] = "out"] /\ closed
        /\ UNCHANGED <<size, closed>>
    BY <1>5 DEF PopNull
  <2>2. Asleep' = {} /\ pc' \in [Popper -> {"out", "mutex", "asleep"}]
    BY <1>2, <2>1, OneMoves
  <2>. QED
    BY <2>1, <2>2 DEF NoneStranded
<1>6. CASE PopItem(p)
  <2>1. /\ pc' = [pc EXCEPT ![p] = "out"] /\ p \in Awake
        /\ size' = size - 1 /\ closed' = closed
    BY <1>6 DEF PopItem, Awake
  <2>2. /\ Awake' = Awake \ {p} /\ Asleep' \subseteq Asleep
        /\ pc' \in [Popper -> {"out", "mutex", "asleep"}]
    BY <2>1, OneMoves
  <2>3. Cardinality(Awake') = Cardinality(Awake) - 1
    BY <1>1, <2>1, <2>2, AwakeCount
  <2>4. Asleep' # {} => ~ closed /\ size - 1 <= Cardinality(Awake')
    BY <1>1, <1>2, <2>2, <2>3
  <2>. QED
    BY <2>1, <2>2, <2>4 DEF NoneStranded
<1>. QED
  BY <1>3, <1>4, <1>5, <1>6 DEF Pop

\* No item waits for a thread that nobody wakes, and nobody sleeps on a
\* closed queue, for any number of threads in pq_pop
\* (priority_queue.c:73, 94, 103-105).
THEOREM NobodyStranded == Spec => []NoneStranded
<1>1. Init => MonitorInv
  <2>. SUFFICES ASSUME Init PROVE MonitorInv
    OBVIOUS
  <2>1. Asleep = {} /\ pc \in [Popper -> {"out", "mutex", "asleep"}]
    BY DEF Init, Asleep
  <2>2. size \in Int
    BY DEF Init
  <2>. QED
    BY <2>1, <2>2 DEF MonitorInv, NoneStranded
<1>2. MonitorInv /\ [Next]_vars => MonitorInv'
  <2>. SUFFICES ASSUME MonitorInv, [Next]_vars PROVE MonitorInv'
    OBVIOUS
  <2>1. CASE UNCHANGED vars \/ PushClosed
    BY <2>1 DEF PushClosed, vars, MonitorInv, NoneStranded, Asleep, Awake
  <2>2. CASE TryPop \/ \E S \in SUBSET Item : ExtractFirst(S)
    BY <2>2, TakeStrands DEF TryPop, ExtractFirst
  <2>. QED
    BY <2>1, <2>2, PushStrands, CloseStrands, PopStrands DEF Next
<1>3. MonitorInv => NoneStranded
  BY DEF MonitorInv
<1>. QED
  BY <1>1, <1>2, <1>3, PTL DEF Spec

-----------------------------------------------------------------------------
(***************************************************************************)
(* size and the lists.  That the nodes are finitely many goes with it.     *)
(***************************************************************************)
CountInv ==
    /\ TypeOK
    /\ IsFiniteSet(PqPlaces(queue))
    /\ SizeCounts

\* A push adds a place at the end of one level.
LEMMA PushCounts ==
    ASSUME NEW q \in [Level -> Seq(Item)], NEW item \in Item, NEW prio \in Int,
           IsFiniteSet(PqPlaces(q))
    PROVE  LET r == PqPush(q, item, prio) IN
           /\ r \in [Level -> Seq(Item)]
           /\ IsFiniteSet(PqPlaces(r))
           /\ Cardinality(PqPlaces(r)) = Cardinality(PqPlaces(q)) + 1
<1>. DEFINE r == PqPush(q, item, prio)
            k == PqLevel(prio)
            new == <<k, Len(q[k]) + 1>>
<1>1. k \in Level
  BY LevelsAssumption DEF PqLevel, Level
<1>2. /\ r \in [Level -> Seq(Item)]
      /\ \A l \in Level : Len(r[l]) = IF l = k THEN Len(q[l]) + 1 ELSE Len(q[l])
  BY <1>1 DEF PqPush
<1>3. \A l \in Level : Len(q[l]) \in Nat
  OBVIOUS
<1>. HIDE DEF r, k
<1>4. PqPlaces(r) = PqPlaces(q) \cup {new}
  <2>1. ASSUME NEW l \in Level
        PROVE  1 .. Len(r[l]) = (1 .. Len(q[l]))
                                  \cup (IF l = k THEN {Len(q[k]) + 1} ELSE {})
    BY <1>2, <1>3
  <2>. QED
    BY <1>1, <2>1 DEF PqPlaces
<1>5. new \notin PqPlaces(q)
  BY <1>1, <1>3 DEF PqPlaces
<1>. QED
  BY <1>2, <1>4, <1>5, FS_AddElement DEF r

\* A level that gets shorter by one loses its last place.
LEMMA ShorterCounts ==
    ASSUME NEW q \in [Level -> Seq(Item)], NEW l \in Level,
           NEW s \in Seq(Item), q[l] # <<>>, Len(s) = Len(q[l]) - 1,
           IsFiniteSet(PqPlaces(q)), NEW r, r = [q EXCEPT ![l] = s]
    PROVE  /\ r \in [Level -> Seq(Item)]
           /\ IsFiniteSet(PqPlaces(r))
           /\ Cardinality(PqPlaces(r)) = Cardinality(PqPlaces(q)) - 1
           /\ Cardinality(PqPlaces(q)) \in Nat \ {0}
<1>. DEFINE old == <<l, Len(q[l])>>
<1>1. /\ r \in [Level -> Seq(Item)]
      /\ \A m \in Level : Len(r[m]) = IF m = l THEN Len(q[m]) - 1 ELSE Len(q[m])
  OBVIOUS
<1>2. \A m \in Level : Len(q[m]) \in Nat
  OBVIOUS
<1>3. Len(q[l]) > 0
  OBVIOUS
<1>4. PqPlaces(r) = PqPlaces(q) \ {old}
  <2>1. ASSUME NEW m \in Level
        PROVE  1 .. Len(r[m]) = (1 .. Len(q[m]))
                                  \ (IF m = l THEN {Len(q[l])} ELSE {})
    BY <1>1, <1>2
  <2>. QED
    BY <2>1 DEF PqPlaces
<1>5. old \in PqPlaces(q)
  BY <1>2, <1>3 DEF PqPlaces
<1>6. Cardinality(PqPlaces(r)) = Cardinality(PqPlaces(q)) - 1
      /\ IsFiniteSet(PqPlaces(r))
  BY <1>4, <1>5, FS_RemoveElement
<1>7. Cardinality(PqPlaces(q)) \in Nat /\ Cardinality(PqPlaces(r)) \in Nat
  BY <1>6, FS_CardinalityType
<1>. QED
  BY <1>1, <1>6, <1>7

\* Taking an item from inside a list, or from its head.
LEMMA TakenOut ==
    ASSUME NEW s \in Seq(Item), NEW i \in 1 .. Len(s)
    PROVE  /\ RemoveAt(s, i) \in Seq(Item) /\ Len(RemoveAt(s, i)) = Len(s) - 1
           /\ Tail(s) \in Seq(Item) /\ Len(Tail(s)) = Len(s) - 1
           /\ RemoveAt(s, 1) = Tail(s)
           /\ Head(s) \in Item
<1>1. s # <<>>
  OBVIOUS
<1>2. /\ SubSeq(s, 1, i - 1) \in Seq(Item) /\ Len(SubSeq(s, 1, i - 1)) = i - 1
      /\ SubSeq(s, i + 1, Len(s)) \in Seq(Item)
      /\ Len(SubSeq(s, i + 1, Len(s))) = Len(s) - i
  OBVIOUS
<1>3. SubSeq(s, 1, 1 - 1) = <<>> /\ SubSeq(s, 2, Len(s)) = Tail(s)
  OBVIOUS
<1>4. SubSeq(s, 1, 1 - 1) \o SubSeq(s, 1 + 1, Len(s)) = Tail(s)
  BY <1>1, <1>3
<1>5. RemoveAt(s, 1) = Tail(s)
  BY <1>4 DEF RemoveAt
<1>6. RemoveAt(s, i) \in Seq(Item) /\ Len(RemoveAt(s, i)) = Len(s) - 1
  <2>. DEFINE a == SubSeq(s, 1, i - 1)
              b == SubSeq(s, i + 1, Len(s))
  <2>1. a \in Seq(Item) /\ b \in Seq(Item)
    BY <1>2
  <2>2. Len(a) = i - 1 /\ Len(b) = Len(s) - i
    BY <1>2
  <2>3. RemoveAt(s, i) = a \o b
    BY DEF RemoveAt
  <2>. HIDE DEF a, b
  <2>4. a \o b \in Seq(Item) /\ Len(a \o b) = Len(a) + Len(b)
    BY <2>1
  <2>5. Len(a) + Len(b) = Len(s) - 1
    BY <2>2
  <2>. QED
    BY <2>3, <2>4, <2>5
<1>7. Tail(s) \in Seq(Item) /\ Len(Tail(s)) = Len(s) - 1 /\ Head(s) \in Item
  BY <1>1
<1>. QED
  BY <1>5, <1>6, <1>7

\* Every operation that takes an item away keeps the count
\* (priority_queue.c:111-121, 123-157).
LEMMA TakeCounts ==
    ASSUME CountInv, size' = size - 1,
           \/ \E l \in Level : PqTop(queue, l) /\ queue' = PqPop(queue, l)
           \/ \E l \in Level : \E i \in 1 .. Len(queue[l]) :
                 queue' = PqExtract(queue, l, i)
    PROVE  /\ queue' \in [Level -> Seq(Item)] /\ size' \in Nat
           /\ IsFiniteSet(PqPlaces(queue')) /\ SizeCounts'
<1>1. /\ queue \in [Level -> Seq(Item)] /\ size \in Nat
      /\ IsFiniteSet(PqPlaces(queue)) /\ size = Cardinality(PqPlaces(queue))
  BY DEF CountInv, TypeOK, SizeCounts
<1>2. ASSUME NEW l \in Level, queue[l] # <<>>, NEW s \in Seq(Item),
             Len(s) = Len(queue[l]) - 1, queue' = [queue EXCEPT ![l] = s]
      PROVE  /\ queue' \in [Level -> Seq(Item)] /\ size' \in Nat
             /\ IsFiniteSet(PqPlaces(queue')) /\ SizeCounts'
  <2>1. /\ queue' \in [Level -> Seq(Item)]
        /\ IsFiniteSet(PqPlaces(queue'))
        /\ Cardinality(PqPlaces(queue')) = Cardinality(PqPlaces(queue)) - 1
        /\ Cardinality(PqPlaces(queue)) \in Nat \ {0}
    BY <1>1, <1>2, ShorterCounts
  <2>2. size' = Cardinality(PqPlaces(queue')) /\ size' \in Nat
    BY <1>1, <2>1
  <2>. QED
    BY <2>1, <2>2 DEF SizeCounts
<1>3. CASE \E l \in Level : PqTop(queue, l) /\ queue' = PqPop(queue, l)
  <2>1. PICK l \in Level : queue[l] # <<>>
                           /\ queue' = [queue EXCEPT ![l] = Tail(queue[l])]
    BY <1>3 DEF PqTop, PqPop
  <2>2. /\ Tail(queue[l]) \in Seq(Item)
        /\ Len(Tail(queue[l])) = Len(queue[l]) - 1
    BY <1>1, <2>1
  <2>. QED
    BY <1>2, <2>1, <2>2
<1>4. CASE \E l \in Level : \E i \in 1 .. Len(queue[l]) :
              queue' = PqExtract(queue, l, i)
  <2>1. PICK l \in Level : \E i \in 1 .. Len(queue[l]) :
                              queue' = PqExtract(queue, l, i)
    BY <1>4
  <2>2. PICK i \in 1 .. Len(queue[l]) :
                queue' = [queue EXCEPT ![l] = RemoveAt(queue[l], i)]
    BY <2>1 DEF PqExtract
  <2>3. /\ RemoveAt(queue[l], i) \in Seq(Item)
        /\ Len(RemoveAt(queue[l], i)) = Len(queue[l]) - 1
    BY <1>1, <2>2, TakenOut
  <2>4. queue[l] # <<>>
    BY <1>1, <2>2
  <2>. QED
    BY <1>2, <2>2, <2>3, <2>4
<1>. QED
  BY <1>3, <1>4

LEMMA InitCounts == Init => CountInv
<1>. SUFFICES ASSUME Init PROVE CountInv
  OBVIOUS
<1>1. TypeOK
  <2>1. queue \in [Level -> Seq(Item)]
    BY DEF Init, PqEmpty
  <2>2. result \in [Popper -> Item \cup {Null, Nothing}]
    BY DEF Init
  <2>3. size \in Nat /\ closed \in BOOLEAN
        /\ pc \in [Popper -> {"out", "mutex", "asleep"}]
    BY DEF Init
  <2>. QED
    BY <2>1, <2>2, <2>3 DEF TypeOK
<1>2. PqPlaces(queue) = {}
  BY DEF Init, PqEmpty, PqPlaces
<1>3. IsFiniteSet({}) /\ Cardinality({}) = 0
  BY FS_EmptySet
<1>. QED
  BY <1>1, <1>2, <1>3 DEF CountInv, SizeCounts, Init

\* What a step does to the threads leaves their places in order.
LEMMA ThreadTypes ==
    ASSUME CountInv, Next
    PROVE  /\ pc' \in [Popper -> {"out", "mutex", "asleep"}]
           /\ result' \in [Popper -> Item \cup {Null, Nothing}]
           /\ closed' \in BOOLEAN
<1>. USE DEF CountInv, TypeOK
<1>1. ASSUME SignalOne
      PROVE  pc' \in [Popper -> {"out", "mutex", "asleep"}]
  BY <1>1 DEF SignalOne, Asleep
<1>2. CASE \E item \in Item, prio \in Prio : Push(item, prio)
  BY <1>1, <1>2 DEF Push
<1>3. CASE Close
  BY <1>3 DEF Close, SignalAll
<1>4. CASE PushClosed \/ TryPop \/ \E S \in SUBSET Item : ExtractFirst(S)
  BY <1>4 DEF PushClosed, TryPop, ExtractFirst, vars
<1>5. ASSUME NEW p \in Popper, PopCall(p) \/ Pop(p) \/ SpuriousWakeup(p)
      PROVE  /\ pc' \in [Popper -> {"out", "mutex", "asleep"}]
             /\ result' \in [Popper -> Item \cup {Null, Nothing}]
             /\ closed' \in BOOLEAN
  <2>1. CASE PopItem(p)
    <3>1. PICK l \in Level : /\ queue[l] # <<>>
                             /\ result' = [result EXCEPT ![p] = Head(queue[l])]
      BY <2>1 DEF PopItem, PqTop
    <3>2. Head(queue[l]) \in Item
      BY <3>1
    <3>. QED
      BY <2>1, <3>1, <3>2 DEF PopItem
  <2>. QED
    BY <1>5, <2>1 DEF PopCall, Pop, PopWait, PopNull, SpuriousWakeup
<1>. QED
  BY <1>2, <1>3, <1>4, <1>5 DEF Next

LEMMA NextCounts == CountInv /\ [Next]_vars => CountInv'
<1>. SUFFICES ASSUME CountInv, [Next]_vars PROVE CountInv'
  OBVIOUS
<1>1. CASE UNCHANGED vars
  BY <1>1 DEF vars, CountInv, TypeOK, SizeCounts
<1>2. CASE Next
  <2>1. SUFFICES /\ queue' \in [Level -> Seq(Item)] /\ size' \in Nat
                 /\ IsFiniteSet(PqPlaces(queue')) /\ SizeCounts'
    BY <1>2, ThreadTypes DEF CountInv, TypeOK
  <2>2. ASSUME NEW item \in Item, NEW prio \in Prio, Push(item, prio)
        PROVE  /\ queue' \in [Level -> Seq(Item)] /\ size' \in Nat
               /\ IsFiniteSet(PqPlaces(queue')) /\ SizeCounts'
    <3>1. prio \in Int
      BY MonitorAssumption
    <3>2. queue' = PqPush(queue, item, prio) /\ size' = size + 1
      BY <2>2 DEF Push
    <3>. QED
      BY <3>1, <3>2, PushCounts DEF CountInv, TypeOK, SizeCounts
  <2>3. ASSUME UNCHANGED <<queue, size>>
        PROVE  /\ queue' \in [Level -> Seq(Item)] /\ size' \in Nat
               /\ IsFiniteSet(PqPlaces(queue')) /\ SizeCounts'
    BY <2>3 DEF CountInv, TypeOK, SizeCounts
  <2>4. CASE Close \/ PushClosed
    BY <2>3, <2>4 DEF Close, PushClosed, vars
  <2>5. CASE TryPop
    BY <2>5, TakeCounts DEF TryPop
  <2>6. ASSUME NEW S \in SUBSET Item, ExtractFirst(S)
        PROVE  /\ queue' \in [Level -> Seq(Item)] /\ size' \in Nat
               /\ IsFiniteSet(PqPlaces(queue')) /\ SizeCounts'
    BY <2>6, TakeCounts DEF ExtractFirst
  <2>7. ASSUME NEW p \in Popper, PopCall(p) \/ Pop(p) \/ SpuriousWakeup(p)
        PROVE  /\ queue' \in [Level -> Seq(Item)] /\ size' \in Nat
               /\ IsFiniteSet(PqPlaces(queue')) /\ SizeCounts'
    <3>1. CASE PopItem(p)
      <4>1. size' = size - 1
            /\ \E l \in Level : PqTop(queue, l) /\ queue' = PqPop(queue, l)
        BY <3>1 DEF PopItem
      <4>. QED
        BY <4>1, TakeCounts
    <3>2. CASE ~ PopItem(p)
      BY <2>3, <2>7, <3>2
         DEF PopCall, Pop, PopWait, PopNull, SpuriousWakeup
    <3>. QED
      BY <3>1, <3>2
  <2>. QED
    BY <1>2, <2>2, <2>4, <2>5, <2>6, <2>7 DEF Next
<1>. QED
  BY <1>1, <1>2

LEMMA CountAlways == Spec => []CountInv
<1>. QED
  BY InitCounts, NextCounts, PTL DEF Spec

\* Every field keeps its type: no operation makes size negative
\* (priority_queue.c:118, 133, 151).
THEOREM MonitorTypes == Spec => []TypeOK
<1>1. CountInv => TypeOK
  BY DEF CountInv
<1>. QED
  BY <1>1, CountAlways, PTL

\* size is the number of nodes in the lists, through every push, pop and
\* extraction: pq_pop never follows a NULL (priority_queue.c:104-118).
THEOREM SizeAgrees == Spec => []SizeCounts
<1>1. CountInv => SizeCounts
  BY DEF CountInv
<1>. QED
  BY <1>1, CountAlways, PTL

-----------------------------------------------------------------------------
(***************************************************************************)
(* The monitor does what BlockingQueue promises.                           *)
(***************************************************************************)
\* What the two modules call by the same name is the same.
LEMMA SameQueue ==
    /\ Promise!Level = Level /\ Promise!PqEmpty = PqEmpty
    /\ \A q : Promise!PqPlaces(q) = PqPlaces(q)
    /\ \A q, item, prio : Promise!PqPush(q, item, prio) = PqPush(q, item, prio)
    /\ \A q, l : Promise!PqTop(q, l) <=> PqTop(q, l)
    /\ \A q, l : Promise!PqPop(q, l) = PqPop(q, l)
    /\ \A q : Promise!PqIsEmpty(q) <=> PqIsEmpty(q)
    /\ \A q, S, l, i : Promise!PqFirst(q, S, l, i) <=> PqFirst(q, S, l, i)
    /\ \A q, l, i : Promise!PqExtract(q, l, i) = PqExtract(q, l, i)
BY DEF Promise!Level, Level, Promise!PqEmpty, PqEmpty, Promise!PqPlaces,
       PqPlaces, Promise!PqPush, PqPush, Promise!PqLevel, PqLevel,
       Promise!PqTop, PqTop, Promise!PqPop, PqPop, Promise!PqIsEmpty,
       PqIsEmpty, Promise!PqFirst, PqFirst, Promise!PqExtract, PqExtract,
       Promise!RemoveAt, RemoveAt

Asking == {p \in Popper : pc[p] # "out"}

\* A queue without items has size 0, and the other way round.
LEMMA EmptyCounts ==
    ASSUME CountInv, size = 0
    PROVE  PqIsEmpty(queue)
<1>1. PqPlaces(queue) = {}
  BY FS_EmptySet DEF CountInv, SizeCounts
<1>2. ASSUME NEW l \in Level PROVE queue[l] = <<>>
  <2>1. queue[l] \in Seq(Item)
    BY DEF CountInv, TypeOK
  <2>2. {l} \X (1 .. Len(queue[l])) \subseteq PqPlaces(queue)
    BY DEF PqPlaces
  <2>3. SUFFICES ASSUME queue[l] # <<>> PROVE FALSE
    OBVIOUS
  <2>4. 1 \in 1 .. Len(queue[l])
    BY <2>1, <2>3
  <2>5. <<l, 1>> \in {l} \X (1 .. Len(queue[l]))
    BY <2>4
  <2>. QED
    BY <1>1, <2>2, <2>5
<1>. QED
  BY <1>2 DEF PqIsEmpty

\* A wake-up, by a signal or by none, changes nothing the users see.
LEMMA StillAsking ==
    ASSUME CountInv,
           \/ SignalOne \/ SignalAll
           \/ \E p \in Popper, to \in {"mutex", "asleep"} :
                 pc[p] # "out" /\ pc' = [pc EXCEPT ![p] = to]
    PROVE  Asking' = Asking
BY DEF CountInv, TypeOK, SignalOne, SignalAll, Asking, Asleep

\* Taking the first item of all is an extraction.
LEMMA TopIsFirst ==
    ASSUME CountInv, NEW l \in Level, PqTop(queue, l)
    PROVE  /\ 1 \in 1 .. Len(queue[l])
           /\ PqFirst(queue, Item, l, 1)
           /\ PqPop(queue, l) = PqExtract(queue, l, 1)
<1>1. queue \in [Level -> Seq(Item)] /\ queue[l] # <<>>
  BY DEF CountInv, TypeOK, PqTop
<1>2. 1 \in 1 .. Len(queue[l]) /\ queue[l][1] \in Item
  BY <1>1
<1>3. \A h \in Level : h > l => queue[h] = <<>>
  BY DEF PqTop
<1>4. RemoveAt(queue[l], 1) = Tail(queue[l])
  BY <1>1, <1>2, TakenOut
<1>5. \A j : j \notin 1 .. 1 - 1
  OBVIOUS
<1>6. \A h \in Level : h > l => \A j : j \notin 1 .. Len(queue[h])
  BY <1>3
<1>. QED
  BY <1>2, <1>4, <1>5, <1>6 DEF PqFirst, PqPop, PqExtract

\* A step of the monitor is a step of the promise, or nothing its users see.
LEMMA StepsPromised ==
    ASSUME CountInv, [Next]_vars
    PROVE  [Promise!Next]_<<queue, closed, Asking, result>>
<1>. USE SameQueue
<1>1. CASE UNCHANGED vars
  BY <1>1 DEF vars, Asking
<1>2. ASSUME NEW item \in Item, NEW prio \in Prio, Push(item, prio)
      PROVE  Promise!Push(item, prio)
  <2>1. Asking' = Asking
    BY <1>2, StillAsking DEF Push
  <2>2. Promise!Cardinality(Promise!PqPlaces(queue)) < MaxItems
    <3>1. Promise!Cardinality(PqPlaces(queue)) = Cardinality(PqPlaces(queue))
      BY DEF Promise!Cardinality, Cardinality
    <3>. QED
      BY <1>2, <3>1 DEF Push, CountInv, SizeCounts
  <2>3. queue' = IF closed THEN queue ELSE Promise!PqPush(queue, item, prio)
    BY <1>2 DEF Push
  <2>4. closed' = closed /\ result' = result
    BY <1>2 DEF Push
  <2>. QED
    BY <2>1, <2>2, <2>3, <2>4 DEF Promise!Push, Asking
<1>3. ASSUME NEW S \in SUBSET Item, ExtractFirst(S)
      PROVE  Promise!Extract(S)
  BY <1>3 DEF ExtractFirst, Promise!Extract, Asking
<1>4. CASE TryPop
  <2>1. PICK l \in Level : PqTop(queue, l) /\ queue' = PqPop(queue, l)
    BY <1>4 DEF TryPop
  <2>2. Promise!Extract(Item)
    BY <1>4, <2>1, TopIsFirst DEF TryPop, Promise!Extract, Asking
  <2>. QED
    BY <2>2 DEF Promise!Next
<1>5. CASE Close
  <2>1. Asking' = Asking
    BY <1>5, StillAsking DEF Close
  <2>2. Promise!Close
    BY <1>5, <2>1 DEF Close, Promise!Close, Asking
  <2>. QED
    BY <2>2 DEF Promise!Next
<1>6. CASE PushClosed
  BY <1>6 DEF PushClosed, vars, Asking
<1>7. ASSUME NEW p \in Popper, PopCall(p) PROVE Promise!Ask(p)
  <2>1. p \notin Asking /\ Asking' = Asking \cup {p}
    BY <1>7 DEF PopCall, Asking, CountInv, TypeOK
  <2>. QED
    BY <1>7, <2>1 DEF PopCall, Promise!Ask, Asking
<1>8. ASSUME NEW p \in Popper, PopWait(p) \/ SpuriousWakeup(p)
      PROVE  UNCHANGED <<queue, closed, Asking, result>>
  <2>1. Asking' = Asking
    BY <1>8, StillAsking DEF PopWait, SpuriousWakeup
  <2>. QED
    BY <1>8, <2>1 DEF PopWait, SpuriousWakeup
<1>9. ASSUME NEW p \in Popper, PopNull(p) \/ PopItem(p)
      PROVE  Promise!Answer(p)
  <2>1. p \in Asking /\ Asking' = Asking \ {p}
    BY <1>9 DEF PopNull, PopItem, Asking, CountInv, TypeOK
  <2>2. CASE PopNull(p)
    BY <2>1, <2>2, EmptyCounts DEF PopNull, Promise!Answer, Asking
  <2>3. CASE PopItem(p)
    BY <2>1, <2>3 DEF PopItem, Promise!Answer, Asking
  <2>. QED
    BY <1>9, <2>2, <2>3
<1>. QED
  <2>1. CASE \E item \in Item, prio \in Prio : Push(item, prio)
    BY <1>2, <2>1 DEF Promise!Next
  <2>2. CASE \E S \in SUBSET Item : ExtractFirst(S)
    BY <1>3, <2>2 DEF Promise!Next
  <2>3. CASE \E p \in Popper : PopCall(p) \/ Pop(p) \/ SpuriousWakeup(p)
    BY <1>7, <1>8, <1>9, <2>3 DEF Promise!Next, Pop
  <2>. QED
    BY <1>1, <1>4, <1>5, <1>6, <2>1, <2>2, <2>3 DEF Next

\* Whatever happens between the locking and the unlocking of the mutex, and
\* however the sleepers wake, the threads see a queue of which every operation
\* is atomic (priority_queue.c:77-157).
THEOREM QueueImplemented == Spec => Promise!Spec
<1>1. Init => Promise!Init
  <2>. SUFFICES ASSUME Init PROVE Promise!Init
    OBVIOUS
  <2>1. Asking = {}
    BY DEF Init, Asking
  <2>. QED
    BY <2>1, SameQueue DEF Init, Promise!Init, Asking
<1>2. CountInv /\ [Next]_vars => [Promise!Next]_Promise!vars
  BY StepsPromised DEF Promise!vars, Asking
<1>. QED
  BY <1>1, <1>2, CountAlways, PTL DEF Spec, Promise!Spec
=============================================================================
