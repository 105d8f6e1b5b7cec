-------------------------- MODULE OwnershipProofs --------------------------
(***************************************************************************)
(* No two threads of RescueServer ever hold the same emergency, and a      *)
(* worker keeps its slot in step with the emergency it holds.              *)
(***************************************************************************)
EXTENDS RescueServerProofs

-----------------------------------------------------------------------------
(***************************************************************************)
(* The operations of the queue keep its items distinct.                    *)
(***************************************************************************)

\* The items of a queue, place by place.
LEMMA Places ==
    ASSUME NEW S, NEW q \in [Level -> Seq(S)], NEW e
    PROVE  e \in PqItems(q) <=> \E l \in Level : \E i \in 1 .. Len(q[l]) : q[l][i] = e
<1>1. \A l \in Level : q[l] \in Seq(S)
  OBVIOUS
<1>. QED
  BY <1>1 DEF PqItems, ToSet

\* What pq_push appends: every place of the new queue is a place of the old
\* one or the last of the item's level (priority_queue.c:77-96).
LEMMA PushPlaces ==
    ASSUME NEW S, NEW q \in [Level -> Seq(S)], NEW e \in S, NEW l \in Int,
           NEW h \in Level
    PROVE  /\ Len(PqPush(q, e, l)[h]) =
                  IF h = PqLevel(l) THEN Len(q[h]) + 1 ELSE Len(q[h])
           /\ \A i \in 1 .. Len(q[h]) : PqPush(q, e, l)[h][i] = q[h][i]
           /\ h = PqLevel(l) => PqPush(q, e, l)[h][Len(q[h]) + 1] = e
<1>1. q[h] \in Seq(S)
  OBVIOUS
<1>2. CASE h = PqLevel(l)
  <2>1. PqPush(q, e, l)[h] = Append(q[h], e)
    BY <1>2 DEF PqPush
  <2>. QED
    BY <1>1, <1>2, <2>1
<1>3. CASE h # PqLevel(l)
  BY <1>3 DEF PqPush
<1>. QED
  BY <1>2, <1>3

\* The items after pq_push.
LEMMA PushItems ==
    ASSUME NEW S, NEW q \in [Level -> Seq(S)], NEW e \in S, NEW l \in Int
    PROVE  PqItems(PqPush(q, e, l)) = PqItems(q) \cup {e}
<1>. DEFINE p == PqPush(q, e, l)
            k == PqLevel(l)
<1>1. p \in [Level -> Seq(S)] /\ k \in Level
  BY PushType, PushLevel
<1>2. \A h \in Level : Len(q[h]) \in Nat
  OBVIOUS
<1>3. \A h \in Level :
          /\ Len(p[h]) = IF h = k THEN Len(q[h]) + 1 ELSE Len(q[h])
          /\ \A i \in 1 .. Len(q[h]) : p[h][i] = q[h][i]
          /\ h = k => p[h][Len(q[h]) + 1] = e
  BY PushPlaces
<1>. HIDE DEF p, k
<1>4. ASSUME NEW f \in PqItems(p)
      PROVE  f \in PqItems(q) \cup {e}
  <2>1. PICK h \in Level : \E i \in 1 .. Len(p[h]) : p[h][i] = f
    BY <1>1, Places
  <2>2. PICK i \in 1 .. Len(p[h]) : p[h][i] = f
    BY <2>1
  <2>3. CASE h = k /\ i = Len(q[h]) + 1
    BY <1>3, <2>2, <2>3
  <2>4. CASE ~ (h = k /\ i = Len(q[h]) + 1)
    <3>1. Len(q[h]) \in Nat /\ Len(p[h]) = IF h = k THEN Len(q[h]) + 1 ELSE Len(q[h])
      BY <1>2, <1>3
    <3>2. i \in 1 .. Len(q[h])
      BY <2>4, <3>1
    <3>. QED
      BY <1>3, <2>2, <3>2, Places
  <2>. QED
    BY <2>3, <2>4
<1>5. ASSUME NEW f \in PqItems(q)
      PROVE  f \in PqItems(p)
  <2>1. PICK h \in Level : \E i \in 1 .. Len(q[h]) : q[h][i] = f
    BY Places
  <2>2. PICK i \in 1 .. Len(q[h]) : q[h][i] = f
    BY <2>1
  <2>3. i \in 1 .. Len(p[h]) /\ p[h][i] = f
    BY <1>2, <1>3, <2>2
  <2>. QED
    BY <1>1, <2>3, Places
<1>6. e \in PqItems(p)
  <2>1. Len(q[k]) + 1 \in 1 .. Len(p[k]) /\ p[k][Len(q[k]) + 1] = e
    BY <1>1, <1>2, <1>3
  <2>. QED
    BY <1>1, <2>1, Places
<1>. QED
  BY <1>4, <1>5, <1>6 DEF p

\* pq_push does not double its item.
LEMMA PushOnce ==
    ASSUME NEW S, NEW q \in [Level -> Seq(S)], NEW e \in S, NEW l \in Int,
           NoTwice(q), e \notin PqItems(q)
    PROVE  NoTwice(PqPush(q, e, l))
<1>. DEFINE p == PqPush(q, e, l)
            k == PqLevel(l)
<1>1. \A h \in Level : Len(q[h]) \in Nat
  OBVIOUS
<1>2. \A h \in Level :
          /\ Len(p[h]) = IF h = k THEN Len(q[h]) + 1 ELSE Len(q[h])
          /\ \A i \in 1 .. Len(q[h]) : p[h][i] = q[h][i] /\ q[h][i] # e
          /\ h = k => p[h][Len(q[h]) + 1] = e
  BY PushPlaces, Places
<1>. HIDE DEF p, k
<1>3. \A h \in Level : \A i \in 1 .. Len(p[h]) :
          \/ i \in 1 .. Len(q[h]) /\ p[h][i] = q[h][i] /\ p[h][i] # e
          \/ h = k /\ i = Len(q[k]) + 1 /\ p[h][i] = e
  <2>. SUFFICES ASSUME NEW h \in Level, NEW i \in 1 .. Len(p[h])
                PROVE  \/ i \in 1 .. Len(q[h]) /\ p[h][i] = q[h][i] /\ p[h][i] # e
                       \/ h = k /\ i = Len(q[k]) + 1 /\ p[h][i] = e
    OBVIOUS
  <2>1. Len(q[h]) \in Nat /\ Len(p[h]) = IF h = k THEN Len(q[h]) + 1 ELSE Len(q[h])
    BY <1>1, <1>2
  <2>2. CASE h = k /\ i = Len(q[h]) + 1
    BY <1>2, <2>2
  <2>3. CASE ~ (h = k /\ i = Len(q[h]) + 1)
    <3>1. i \in 1 .. Len(q[h])
      BY <2>1, <2>3
    <3>. QED
      BY <1>2, <3>1
  <2>. QED
    BY <2>2, <2>3
<1>. SUFFICES ASSUME NEW h \in Level, NEW m \in Level,
                     NEW i \in 1 .. Len(p[h]), NEW j \in 1 .. Len(p[m]),
                     p[h][i] = p[m][j]
              PROVE  h = m /\ i = j
  BY DEF NoTwice, p
<1>4. CASE p[h][i] = e
  BY <1>3, <1>4
<1>5. CASE p[h][i] # e
  <2>1. /\ i \in 1 .. Len(q[h]) /\ p[h][i] = q[h][i]
        /\ j \in 1 .. Len(q[m]) /\ p[m][j] = q[m][j]
    BY <1>3, <1>5
  <2>2. q[h][i] = q[m][j]
    BY <2>1
  <2>. QED
    BY <2>1, <2>2 DEF NoTwice
<1>. QED
  BY <1>4, <1>5

\* Where the item in place j of level h was before pq_extract_first took out
\* the one in place i of level l.
PlaceBefore(l, i, h, j) == IF h = l /\ j >= i THEN j + 1 ELSE j

\* pq_extract_first moves up the items behind the one it takes
\* (priority_queue.c:139-157).
LEMMA ExtractPlaces ==
    ASSUME NEW S, NEW q \in [Level -> Seq(S)], NEW l \in Level,
           NEW i \in 1 .. Len(q[l]), NEW h \in Level
    PROVE  /\ Len(PqExtract(q, l, i)[h]) = IF h = l THEN Len(q[h]) - 1 ELSE Len(q[h])
           /\ \A j \in 1 .. Len(PqExtract(q, l, i)[h]) :
                 /\ PlaceBefore(l, i, h, j) \in 1 .. Len(q[h])
                 /\ PqExtract(q, l, i)[h][j] = q[h][PlaceBefore(l, i, h, j)]
                 /\ ~ (h = l /\ PlaceBefore(l, i, h, j) = i)
<1>1. q[l] \in Seq(S) /\ Len(q[l]) \in Nat /\ i \in Nat /\ 1 <= i /\ i <= Len(q[l])
  OBVIOUS
<1>2. CASE h = l
  <2>. DEFINE a == SubSeq(q[l], 1, i - 1)
              b == SubSeq(q[l], i + 1, Len(q[l]))
  <2>1. Len(a) = i - 1 /\ \A j \in 1 .. i - 1 : a[j] = q[l][j]
    BY <1>1
  <2>2. Len(b) = Len(q[l]) - i /\ \A j \in 1 .. Len(q[l]) - i : b[j] = q[l][i + j]
    BY <1>1
  <2>3. a \in Seq(S) /\ b \in Seq(S)
    <3>1. \A j \in 1 .. i - 1 : q[l][j] \in S
      BY <1>1
    <3>2. \A j \in i + 1 .. Len(q[l]) : q[l][j] \in S
      BY <1>1
    <3>. QED
      BY <1>1, <3>1, <3>2, SubSeqProperties
  <2>4. PqExtract(q, l, i)[h] = a \o b
    BY <1>2 DEF PqExtract, RemoveAt
  <2>. HIDE DEF a, b
  <2>5. /\ Len(a \o b) = Len(a) + Len(b)
        /\ \A j \in 1 .. Len(a) + Len(b) :
              (a \o b)[j] = IF j <= Len(a) THEN a[j] ELSE b[j - Len(a)]
    BY <2>3
  <2>6. /\ Len(a \o b) = Len(q[l]) - 1
        /\ \A j \in 1 .. Len(q[l]) - 1 :
              (a \o b)[j] = IF j < i THEN q[l][j] ELSE q[l][j + 1]
    BY <1>1, <2>1, <2>2, <2>5
  <2>. QED
    BY <1>1, <1>2, <2>4, <2>6 DEF PlaceBefore
<1>3. CASE h # l
  BY <1>3 DEF PqExtract, PlaceBefore
<1>. QED
  BY <1>2, <1>3

\* pq_extract_first takes out the only copy of its item, and nothing else.
LEMMA ExtractOnce ==
    ASSUME NEW S, NEW q \in [Level -> Seq(S)], NEW l \in Level,
           NEW i \in 1 .. Len(q[l]), NoTwice(q)
    PROVE  /\ NoTwice(PqExtract(q, l, i))
           /\ PqItems(PqExtract(q, l, i)) = PqItems(q) \ {q[l][i]}
           /\ q[l][i] \in PqItems(q)
<1>. DEFINE p == PqExtract(q, l, i)
            before(h, j) == PlaceBefore(l, i, h, j)
<1>1. p \in [Level -> Seq(S)]
  BY ExtractType
<1>2. \A h \in Level :
          /\ Len(p[h]) = IF h = l THEN Len(q[h]) - 1 ELSE Len(q[h])
          /\ \A j \in 1 .. Len(p[h]) :
                /\ before(h, j) \in 1 .. Len(q[h])
                /\ p[h][j] = q[h][before(h, j)]
                /\ ~ (h = l /\ before(h, j) = i)
  BY ExtractPlaces
<1>3. /\ i \in Nat /\ 1 <= i /\ i <= Len(q[l])
      /\ \A h \in Level : Len(q[h]) \in Nat /\ Len(p[h]) \in Nat
  <2>1. \A h \in Level : Len(q[h]) \in Nat
    OBVIOUS
  <2>. HIDE DEF p
  <2>2. \A h \in Level : Len(p[h]) \in Nat
    BY <1>1
  <2>. QED
    BY <2>1, <2>2
<1>. HIDE DEF p
<1>4. \A h \in Level : \A j, k \in Int : before(h, j) = before(h, k) => j = k
  BY <1>3 DEF PlaceBefore
\* Every other place still is one.
<1>5. \A h \in Level : \A k \in 1 .. Len(q[h]) :
          ~ (h = l /\ k = i) => \E j \in 1 .. Len(p[h]) : before(h, j) = k
  <2>. SUFFICES ASSUME NEW h \in Level, NEW k \in 1 .. Len(q[h]), ~ (h = l /\ k = i)
                PROVE  \E j \in 1 .. Len(p[h]) : before(h, j) = k
    OBVIOUS
  <2>1. CASE h = l /\ k > i
    <3>1. k - 1 \in 1 .. Len(p[h]) /\ before(h, k - 1) = k
      BY <1>2, <1>3, <2>1 DEF PlaceBefore
    <3>. QED
      BY <3>1
  <2>2. CASE ~ (h = l /\ k > i)
    <3>1. k \in 1 .. Len(p[h]) /\ before(h, k) = k
      BY <1>2, <1>3, <2>2 DEF PlaceBefore
    <3>. QED
      BY <3>1
  <2>. QED
    BY <2>1, <2>2
<1>. HIDE DEF before
<1>6. NoTwice(p)
  <2>. SUFFICES ASSUME NEW h \in Level, NEW m \in Level,
                       NEW j \in 1 .. Len(p[h]), NEW k \in 1 .. Len(p[m]),
                       p[h][j] = p[m][k]
                PROVE  h = m /\ j = k
    BY DEF NoTwice
  <2>1. /\ before(h, j) \in 1 .. Len(q[h]) /\ before(m, k) \in 1 .. Len(q[m])
        /\ q[h][before(h, j)] = q[m][before(m, k)]
    BY <1>2
  <2>2. h = m /\ before(h, j) = before(m, k)
    BY <2>1 DEF NoTwice
  <2>3. j \in Int /\ k \in Int
    BY <1>3
  <2>. QED
    BY <1>4, <2>2, <2>3
<1>7. ASSUME NEW f \in PqItems(p)
      PROVE  f \in PqItems(q) /\ f # q[l][i]
  <2>1. PICK h \in Level : \E j \in 1 .. Len(p[h]) : p[h][j] = f
    BY <1>1, Places
  <2>2. PICK j \in 1 .. Len(p[h]) : p[h][j] = f
    BY <2>1
  <2>3. /\ before(h, j) \in 1 .. Len(q[h]) /\ q[h][before(h, j)] = f
        /\ ~ (h = l /\ before(h, j) = i)
    BY <1>2, <2>2
  <2>4. f \in PqItems(q)
    BY <2>3, Places
  <2>. QED
    BY <2>3, <2>4 DEF NoTwice
<1>8. ASSUME NEW f \in PqItems(q), f # q[l][i]
      PROVE  f \in PqItems(p)
  <2>1. PICK h \in Level : \E k \in 1 .. Len(q[h]) : q[h][k] = f
    BY Places
  <2>2. PICK k \in 1 .. Len(q[h]) : q[h][k] = f
    BY <2>1
  <2>3. PICK j \in 1 .. Len(p[h]) : before(h, j) = k
    BY <1>5, <1>8, <2>2
  <2>4. p[h][j] = f
    BY <1>2, <2>2, <2>3
  <2>. QED
    BY <1>1, <2>4, Places
<1>9. q[l][i] \in PqItems(q)
  BY Places
<1>10. PqItems(p) = PqItems(q) \ {q[l][i]}
  BY <1>7, <1>8
<1>. QED
  BY <1>6, <1>9, <1>10 DEF p

\* pq_pop is the extraction of the first item of a level.
LEMMA PopIsExtract ==
    ASSUME NEW S, NEW q \in [Level -> Seq(S)], NEW l \in Level, q[l] # <<>>
    PROVE  /\ 1 \in 1 .. Len(q[l]) /\ Head(q[l]) = q[l][1]
           /\ PqPop(q, l) = PqExtract(q, l, 1)
<1>1. q[l] \in Seq(S) /\ Len(q[l]) \in Nat /\ Len(q[l]) >= 1
  OBVIOUS
<1>2. Head(q[l]) = q[l][1] /\ 1 \in 1 .. Len(q[l])
  BY <1>1
<1>3. Tail(q[l]) = RemoveAt(q[l], 1)
  <2>1. RemoveAt(q[l], 1) = SubSeq(q[l], 1, 0) \o SubSeq(q[l], 2, Len(q[l]))
    BY DEF RemoveAt
  <2>2. SubSeq(q[l], 1, 0) = <<>>
    BY <1>1
  <2>3. SubSeq(q[l], 2, Len(q[l])) = Tail(q[l]) /\ Tail(q[l]) \in Seq(S)
    BY <1>1
  <2>. QED
    BY <2>1, <2>2, <2>3
<1>. QED
  BY <1>2, <1>3 DEF PqPop, PqExtract

\* So it takes the only copy of its item, and nothing else.
LEMMA PopOnce ==
    ASSUME NEW S, NEW q \in [Level -> Seq(S)], NEW l \in Level, q[l] # <<>>,
           NoTwice(q)
    PROVE  /\ NoTwice(PqPop(q, l))
           /\ PqItems(PqPop(q, l)) = PqItems(q) \ {Head(q[l])}
           /\ Head(q[l]) \in PqItems(q)
BY PopIsExtract, ExtractOnce

\* The items of a queue are of its type.
LEMMA ItemsType ==
    ASSUME NEW S, NEW q \in [Level -> Seq(S)]
    PROVE  PqItems(q) \subseteq S
<1>. SUFFICES ASSUME NEW e \in PqItems(q) PROVE e \in S
  OBVIOUS
<1>1. PICK l \in Level : \E i \in 1 .. Len(q[l]) : q[l][i] = e
  BY Places
<1>2. q[l] \in Seq(S)
  OBVIOUS
<1>. QED
  BY <1>1, <1>2

-----------------------------------------------------------------------------
(***************************************************************************)
(* One pair of hands.  OneOwner needs to know besides that the updater     *)
(* carries nothing but between its two operations on the queue, so that    *)
(* what it takes out replaces nothing.                                     *)
(***************************************************************************)
CarriesAtMostOne ==
    /\ uCarry \in received \cup {NoEmergency}
    /\ uPc \notin {"requeue", "undefined"} => uCarry = NoEmergency

OwnInv == TypeInv /\ CarriesAtMostOne /\ OneOwner

\* Most steps give nobody an emergency.
LEMMA HandsKept ==
    ASSUME OneOwner, UNCHANGED <<queue, uCarry>>,
           \A w \in Worker : wPc'[w] \in Holding =>
               wPc[w] \in Holding /\ wEm'[w] = wEm[w]
    PROVE  OneOwner'
BY DEF OneOwner, NoTwice, PqItems

\* A request the receiver pushes was in nobody's hands (thread_reciever.c:33-43).
LEMMA OwnReceive ==
    ASSUME OwnInv, NEW e \in Emergency, Receive(e)
    PROVE  OneOwner'
<1>. USE DEF OwnInv
<1>1. e \notin received /\ UNCHANGED <<wPc, wEm, uCarry>>
  BY DEF Receive
<1>2. PqItems(queue) \subseteq received
  BY ItemsType DEF TypeInv, Known
<1>3. queue \in [Level -> Seq(Emergency)] /\ BaseLevel[e] \in Int
  <2>1. BaseLevel[e] \in Level
    BY CatalogueAssumption
  <2>2. BaseLevel[e] \in Int
    BY <2>1, LevelsAssumption DEF Level
  <2>. QED
    BY <2>2 DEF TypeInv, TypeOK
<1>4. NoTwice(queue') /\ PqItems(queue') \subseteq PqItems(queue) \cup {e}
  <2>1. CASE closed
    BY <2>1 DEF Receive, PushWaiting, OneOwner
  <2>2. CASE ~ closed
    <3>1. queue' = PqPush(queue, e, BaseLevel[e])
      BY <2>2 DEF Receive, PushWaiting
    <3>2. NoTwice(queue) /\ e \notin PqItems(queue)
      BY <1>1, <1>2 DEF OneOwner
    <3>. QED
      BY <1>3, <3>1, <3>2, PushOnce, PushItems
  <2>. QED
    BY <2>1, <2>2
<1>5. \A w \in Worker : wPc[w] \in Holding => wEm[w] # e
  BY <1>1 DEF TypeInv, Known
<1>6. uCarry # e
  BY <1>1, CardinalityAssumption DEF CarriesAtMostOne
<1>. QED
  BY <1>1, <1>4, <1>5, <1>6 DEF OneOwner

\* A worker that pops takes the only copy there is (thread_worker.c:55).
LEMMA OwnPop ==
    ASSUME OwnInv, NEW w \in Worker, WorkerPop(w)
    PROVE  OneOwner'
<1>. USE DEF OwnInv
<1>1. PICK l \in Level : /\ queue[l] # <<>>
                         /\ wEm' = [wEm EXCEPT ![w] = Head(queue[l])]
                         /\ queue' = PqPop(queue, l)
  BY DEF WorkerPop, PqTop
<1>. DEFINE e == Head(queue[l])
<1>2. /\ NoTwice(queue')
      /\ PqItems(queue') = PqItems(queue) \ {e}
      /\ e \in PqItems(queue)
  BY <1>1, PopOnce DEF OneOwner, TypeInv, TypeOK
<1>3. /\ wPc' = [wPc EXCEPT ![w] = "open"] /\ uCarry' = uCarry
      /\ wPc \in [Worker -> WorkerPc]
      /\ wEm \in [Worker -> Emergency \cup {NoEmergency}]
  BY DEF WorkerPop, Goto, TypeInv, TypeOK
<1>. HIDE DEF e
<1>4. /\ wEm'[w] = e
      /\ \A v \in Worker \ {w} : wEm'[v] = wEm[v] /\ wPc'[v] = wPc[v]
  BY <1>1, <1>3 DEF e
<1>5. \A v \in Worker \ {w} : wPc'[v] \in Holding =>
          wEm'[v] # e /\ wEm'[v] \notin PqItems(queue) \cup {uCarry}
  BY <1>2, <1>4 DEF OneOwner
<1>6. uCarry \notin PqItems(queue) /\ uCarry # e
  BY <1>2 DEF OneOwner
<1>7. ASSUME NEW v \in Worker, NEW u \in Worker, wPc'[v] \in Holding,
             wPc'[u] \in Holding, wEm'[v] = wEm'[u]
      PROVE  v = u
  <2>1. CASE v = w \/ u = w
    BY <1>4, <1>5, <1>7, <2>1
  <2>2. CASE v # w /\ u # w
    BY <1>4, <1>7, <2>2 DEF OneOwner
  <2>. QED
    BY <2>1, <2>2
<1>8. \A v \in Worker : wPc'[v] \in Holding =>
          wEm'[v] \notin PqItems(queue') \cup {uCarry'}
  BY <1>2, <1>3, <1>4, <1>5, <1>6
<1>. QED
  BY <1>2, <1>3, <1>6, <1>7, <1>8 DEF OneOwner

\* A worker's other steps give it nothing (thread_worker.c:37-93).
LEMMA OwnWorker ==
    ASSUME OwnInv, NEW w \in Worker, WorkerStep(w)
    PROVE  OneOwner'
<1>. USE DEF OwnInv, Goto, TypeInv, TypeOK, Holding, Working
<1>1. CASE WorkerPop(w)
  BY <1>1, OwnPop
<1>2. CASE WorkerFind(w)
  <2>1. PICK C \in SUBSET Twin :
            wPc' = [Woken(NewlyPaused(C)) EXCEPT ![w] = "wait"]
    BY <1>2 DEF WorkerFind, Candidates, Eligible
  <2>2. \A v \in Worker : wPc'[v] \in Holding => wPc[v] \in Holding
    BY <1>2, <2>1 DEF Woken, WorkerFind
  <2>3. UNCHANGED <<queue, uCarry, wEm>>
    BY <1>2 DEF WorkerFind
  <2>. QED
    BY <2>2, <2>3, HandsKept
<1>3. CASE WorkerFindOverrun(w)
  BY <1>3, HandsKept DEF WorkerFindOverrun, BecomeUndefined
<1>4. CASE WorkerRelease(w)
  BY <1>4, HandsKept DEF WorkerRelease
<1>5. CASE WorkerLoop(w) \/ WorkerPopClosed(w)
  BY <1>5, HandsKept DEF WorkerLoop, WorkerPopClosed
<1>6. CASE WorkerOpen(w) \/ WorkerInner(w) \/ WorkerFindNothing(w)
           \/ WorkerFindFails(w) \/ WorkerWait(w) \/ WorkerDispatch(w)
  BY <1>6, HandsKept DEF WorkerOpen, WorkerInner, WorkerFindNothing,
       WorkerFindFails, WorkerWait, WorkerDispatch
<1>7. CASE WorkerComplete(w) \/ WorkerTimeout(w) \/ WorkerCancel(w)
  BY <1>7, HandsKept DEF WorkerComplete, WorkerTimeout, WorkerCancel
<1>. QED
  BY <1>1, <1>2, <1>3, <1>4, <1>5, <1>6, <1>7 DEF WorkerStep

\* What the updater takes out of the queue is in its hands alone, and it puts
\* it back once (thread_updater.c:182-185, 200-204).
LEMMA OwnUpdater ==
    ASSUME OwnInv, UpdaterStep
    PROVE  OneOwner'
<1>. USE DEF OwnInv
<1>1. CASE UpdaterTick
  <2>1. UpdateActive /\ UNCHANGED <<queue, uCarry, wEm>>
    BY <1>1 DEF UpdaterTick
  <2>2. \A w \in Worker : wPc'[w] \in Holding => wPc[w] \in Holding
    BY <2>1, UpdateActiveTypes
  <2>. QED
    BY <2>1, <2>2, HandsKept
<1>2. CASE UpdaterExpire
  <2>1. PICK l \in Level : \E i \in 1 .. Len(queue[l]) :
            queue' = PqExtract(queue, l, i)
    BY <1>2 DEF UpdaterExpire
  <2>2. PICK i \in 1 .. Len(queue[l]) : queue' = PqExtract(queue, l, i)
    BY <2>1
  <2>3. /\ NoTwice(queue')
        /\ PqItems(queue') = PqItems(queue) \ {queue[l][i]}
    BY <2>2, ExtractOnce DEF OneOwner, TypeInv, TypeOK
  <2>4. UNCHANGED <<wPc, wEm, uCarry>>
    BY <1>2 DEF UpdaterExpire, threadVars
  <2>. QED
    BY <2>3, <2>4 DEF OneOwner
<1>3. CASE UpdaterExtract
  <2>1. PICK l \in Level : \E i \in 1 .. Len(queue[l]) :
            queue' = PqExtract(queue, l, i) /\ uCarry' = queue[l][i]
    BY <1>3 DEF UpdaterExtract
  <2>2. PICK i \in 1 .. Len(queue[l]) :
            queue' = PqExtract(queue, l, i) /\ uCarry' = queue[l][i]
    BY <2>1
  <2>3. /\ NoTwice(queue')
        /\ PqItems(queue') \subseteq PqItems(queue) \ {uCarry'}
        /\ uCarry' \in PqItems(queue)
    BY <2>2, ExtractOnce DEF OneOwner, TypeInv, TypeOK
  <2>4. UNCHANGED <<wPc, wEm>>
    BY <1>3 DEF UpdaterExtract
  <2>. QED
    BY <2>3, <2>4 DEF OneOwner
<1>4. CASE UpdaterPromote
  <2>1. uCarry \in received /\ uCarry \in Emergency
    BY <1>4 DEF UpdaterPromote, TypeInv, TypeOK, Known
  <2>2. NextLevel(priority[uCarry]) \in Int
    BY <2>1, LevelsAssumption DEF NextLevel, Level, TypeInv, TypeOK
  <2>3. NoTwice(queue') /\ PqItems(queue') \subseteq PqItems(queue) \cup {uCarry}
    <3>1. CASE closed
      BY <1>4, <3>1 DEF UpdaterPromote, PushWaiting, OneOwner
    <3>2. CASE ~ closed
      <4>1. queue' = PqPush(queue, uCarry, NextLevel(priority[uCarry]))
        BY <1>4, <3>2 DEF UpdaterPromote, PushWaiting
      <4>2. NoTwice(queue) /\ uCarry \notin PqItems(queue)
        BY DEF OneOwner
      <4>3. queue \in [Level -> Seq(Emergency)]
        BY DEF TypeInv, TypeOK
      <4>. QED
        BY <2>1, <2>2, <4>1, <4>2, <4>3, PushOnce, PushItems
    <3>. QED
      BY <3>1, <3>2
  <2>4. uCarry' = NoEmergency /\ UNCHANGED <<wPc, wEm, received>>
    BY <1>4 DEF UpdaterPromote
  <2>5. NoEmergency \notin received /\ PqItems(queue) \subseteq received
    BY CardinalityAssumption, ItemsType DEF TypeInv, TypeOK, Known
  <2>6. \A w \in Worker : wPc[w] \in Holding =>
            wEm[w] \in received /\ wEm[w] \notin PqItems(queue) \cup {uCarry}
    BY DEF OneOwner, TypeInv, Known
  <2>7. \A w \in Worker : wPc[w] \in Holding =>
            wEm[w] \notin PqItems(queue') \cup {NoEmergency}
    BY <2>3, <2>5, <2>6
  <2>8. NoEmergency \notin PqItems(queue')
    BY <2>1, <2>3, <2>5
  <2>. QED
    BY <2>3, <2>4, <2>7, <2>8 DEF OneOwner
<1>5. CASE UpdaterAstray
  BY <1>5, HandsKept DEF UpdaterAstray, BecomeUndefined, Holding, Working
<1>6. CASE UpdaterLoop \/ UpdaterMap \/ UpdaterExpired \/ UpdaterPromoted
  BY <1>6, HandsKept DEF UpdaterLoop, UpdaterMap, UpdaterExpired, UpdaterPromoted
<1>. QED
  BY <1>1, <1>2, <1>3, <1>4, <1>5, <1>6 DEF UpdaterStep

\* The updater alone changes what it carries.
LEMMA CarryNext == TypeInv /\ CarriesAtMostOne /\ [Next]_vars => CarriesAtMostOne'
<1>. SUFFICES ASSUME TypeInv, CarriesAtMostOne, [Next]_vars
              PROVE  CarriesAtMostOne'
  OBVIOUS
<1>. USE DEF CarriesAtMostOne
<1>1. CASE UNCHANGED vars
  BY <1>1 DEF vars, threadVars
<1>2. CASE ReceiverStep
  BY <1>2 DEF ReceiverStep, ReceiverLoop, ReceiverDiscard, ReceiverStop, Receive
<1>3. ASSUME NEW w \in Worker, WorkerStep(w)
      PROVE  CarriesAtMostOne'
  BY <1>3 DEF WorkerStep, WorkerLoop, WorkerPop, WorkerPopClosed, WorkerOpen,
       WorkerInner, WorkerFindNothing, WorkerFindFails, WorkerFindOverrun,
       WorkerFind, WorkerWait, WorkerDispatch, WorkerComplete, WorkerTimeout,
       WorkerRelease, WorkerCancel, BecomeUndefined
<1>4. CASE UpdaterExtract
  <2>1. uPc' = "requeue" /\ received' = received
    BY <1>4 DEF UpdaterExtract
  <2>2. TypeInv'
    BY <1>4, UpdaterTypes DEF UpdaterStep
  <2>. QED
    BY <2>1, <2>2 DEF TypeInv, Known
<1>5. CASE UpdaterStep /\ ~ UpdaterExtract
  BY <1>5 DEF UpdaterStep, UpdaterLoop, UpdaterTick, UpdaterAstray, UpdaterMap,
       UpdaterExpire, UpdaterExpired, UpdaterPromote, UpdaterPromoted,
       BecomeUndefined, threadVars
<1>6. CASE MainStep \/ \E sig \in Signal : MainSignal(sig)
  BY <1>6 DEF MainStep, MainSignal, MainCloseQueue, MainBroadcast, MainJoin
<1>. QED
  BY <1>1, <1>2, <1>3, <1>4, <1>5, <1>6 DEF Next, Step, Over

\* Every step keeps the emergencies in one pair of hands.
LEMMA OwnNext == OwnInv /\ [Next]_vars => OwnInv'
<1>. SUFFICES ASSUME OwnInv, [Next]_vars PROVE OwnInv'
  OBVIOUS
<1>1. TypeInv' /\ CarriesAtMostOne'
  BY NextTypes, CarryNext DEF OwnInv
<1>2. OneOwner'
  <2>1. CASE UNCHANGED vars
    BY <2>1, HandsKept DEF OwnInv, vars, threadVars
  <2>2. CASE ReceiverLoop \/ ReceiverDiscard \/ ReceiverStop
    BY <2>2, HandsKept
    DEF OwnInv, ReceiverLoop, ReceiverDiscard, ReceiverStop
  <2>3. CASE MainStep \/ \E sig \in Signal : MainSignal(sig)
    <3>1. /\ UNCHANGED <<queue, uCarry, wEm>>
          /\ \A w \in Worker : wPc'[w] \in Holding => wPc[w] \in Holding
      BY <2>3 DEF MainStep, MainSignal, MainCloseQueue, MainBroadcast,
           MainJoin, Woken, OwnInv, TypeInv, TypeOK, Holding, Working
    <3>. QED
      BY <3>1, HandsKept DEF OwnInv
  <2>. QED
    BY <2>1, <2>2, <2>3, OwnReceive, OwnWorker, OwnUpdater
    DEF Next, Step, Over, ReceiverStep
<1>. QED
  BY <1>1, <1>2 DEF OwnInv

\* At the start nobody holds anything.
LEMMA InitOwnInv == Init => OwnInv
<1>. SUFFICES ASSUME Init PROVE OwnInv
  OBVIOUS
<1>1. TypeInv /\ CarriesAtMostOne
  BY InitTypeInv DEF Init, CarriesAtMostOne
<1>2. \A l \in Level : Len(queue[l]) = 0
  BY DEF Init, PqEmpty
<1>3. NoTwice(queue)
  BY <1>2 DEF NoTwice
<1>4. PqItems(queue) = {}
  <2>1. queue \in [Level -> Seq(Emergency)]
    BY <1>1 DEF TypeInv, TypeOK
  <2>. QED
    BY <1>2, <2>1, Places
<1>. QED
  BY <1>1, <1>3, <1>4 DEF OwnInv, OneOwner, Init, Holding, Working

\* No emergency is ever in two pairs of hands, also while the server stops,
\* for any number of threads and requests (thread_worker.c:55,
\* thread_updater.c:182-204).
THEOREM OwnedOnce == Spec => []OneOwner
<1>1. OwnInv => OneOwner
  BY DEF OwnInv
<1>. QED
  BY <1>1, InitOwnInv, OwnNext, PTL DEF Spec

-----------------------------------------------------------------------------
(***************************************************************************)
(* The slots.  A worker leaves the wait loop towards close_slot only when  *)
(* the server stops or its emergency is settled, which is the case as long *)
(* as nobody else writes the status: that is what OneOwner gives.          *)
(***************************************************************************)
DispatchSettled ==
    \A w \in Worker : wPc[w] = "dispatch" =>
        stop \/ status[wEm[w]] \in {"PAUSED", "COMPLETED"}

SlotInv == OwnInv /\ DispatchSettled /\ SlotOwned

\* A worker at work whose emergency is not touched by the others' steps.
LEMMA SlotsKeptBy ==
    ASSUME TypeInv, SlotOwned, UNCHANGED <<slot, wEm>>, stop => stop',
           \A w \in Worker : wPc'[w] # wPc[w] => \/ wPc'[w] = "undefined"
                                                 \/ wPc[w] \in Working /\ wPc'[w] \in Working
    PROVE  SlotOwned'
<1>. SUFFICES ASSUME NEW w \in Worker, wPc'[w] # "undefined"
              PROVE  slot[w] = IF wPc'[w] \in Working THEN wEm[w]
                               ELSE IF wPc'[w] = "after" /\ stop' THEN slot[w]
                               ELSE NoEmergency
  BY DEF SlotOwned
<1>1. CASE wPc'[w] = wPc[w]
  BY <1>1 DEF SlotOwned
<1>2. CASE wPc'[w] # wPc[w]
  <2>1. wPc[w] \in Working /\ wPc'[w] \in Working
    BY <1>2
  <2>2. wPc[w] # "undefined"
    BY <2>1 DEF Working
  <2>. QED
    BY <2>1, <2>2 DEF SlotOwned
<1>. QED
  BY <1>1, <1>2

\* open_slot and close_slot (thread_worker.c:7, 33, 90).
LEMMA SlotsWorker ==
    ASSUME SlotInv, NEW w \in Worker, WorkerStep(w)
    PROVE  SlotOwned'
<1>. USE DEF SlotInv, OwnInv
<1>1. /\ wPc \in [Worker -> WorkerPc]
      /\ wEm \in [Worker -> Emergency \cup {NoEmergency}]
      /\ slot \in [Worker -> Emergency \cup {NoEmergency}]
  BY DEF TypeInv, TypeOK
<1>2. CASE WorkerFind(w)
  <2>1. PICK C \in SUBSET Twin :
            wPc' = [Woken(NewlyPaused(C)) EXCEPT ![w] = "wait"]
    BY <1>2 DEF WorkerFind, Candidates, Eligible
  <2>2. wPc[w] = "find" /\ UNCHANGED <<slot, wEm, stop>>
    BY <1>2 DEF WorkerFind
  <2>3. \A v \in Worker : wPc'[v] # wPc[v] =>
            wPc[v] \in Working /\ wPc'[v] \in Working
    BY <1>1, <2>1, <2>2 DEF Woken, Working
  <2>. QED
    BY <2>2, <2>3, SlotsKeptBy
<1>3. CASE WorkerFindOverrun(w)
  BY <1>3, SlotsKeptBy DEF WorkerFindOverrun, BecomeUndefined
<1>4. CASE WorkerFindNothing(w) \/ WorkerFindFails(w) \/ WorkerWait(w)
  <2>1. /\ wPc[w] \in Working
        /\ \E to \in Working : wPc' = [wPc EXCEPT ![w] = to]
        /\ UNCHANGED <<slot, wEm, stop>>
    BY <1>4 DEF WorkerFindNothing, WorkerFindFails, WorkerWait, Goto, Working
  <2>2. \A v \in Worker : wPc'[v] # wPc[v] =>
            wPc[v] \in Working /\ wPc'[v] \in Working
    BY <1>1, <2>1
  <2>. QED
    BY <2>1, <2>2, SlotsKeptBy
<1>5. CASE WorkerInner(w)
  BY <1>1, <1>5 DEF WorkerInner, Goto, SlotOwned, Working
<1>6. CASE WorkerDispatch(w)
  <2>1. stop \/ status[wEm[w]] \in {"PAUSED", "COMPLETED"}
    BY <1>6 DEF WorkerDispatch, Goto, DispatchSettled
  <2>. QED
    BY <1>1, <1>6, <2>1 DEF WorkerDispatch, Goto, SlotOwned, Working
<1>7. CASE WorkerLoop(w) \/ WorkerPopClosed(w)
  BY <1>1, <1>7 DEF WorkerLoop, WorkerPopClosed, Goto, SlotOwned, Working
<1>8. CASE WorkerPop(w)
  <2>1. PICK e : wEm' = [wEm EXCEPT ![w] = e]
    BY <1>8 DEF WorkerPop
  <2>. QED
    BY <1>1, <1>8, <2>1 DEF WorkerPop, Goto, SlotOwned, Working
<1>9. CASE WorkerOpen(w)
  BY <1>1, <1>9 DEF WorkerOpen, Goto, SlotOwned, Working
<1>10. CASE WorkerComplete(w)
  BY <1>1, <1>10 DEF WorkerComplete, Goto, SlotOwned, Working
<1>11. CASE WorkerTimeout(w) \/ WorkerCancel(w)
  BY <1>1, <1>11 DEF WorkerTimeout, WorkerCancel, StoreAs, Goto, SlotOwned, Working
<1>12. CASE WorkerRelease(w)
  BY <1>1, <1>12 DEF WorkerRelease, Goto, SlotOwned, Working
<1>. QED
  BY <1>2, <1>3, <1>4, <1>5, <1>6, <1>7, <1>8, <1>9, <1>10, <1>11, <1>12
  DEF WorkerStep

\* The other threads leave the slots alone.
LEMMA SlotsNext == SlotInv /\ [Next]_vars => SlotOwned'
<1>. SUFFICES ASSUME SlotInv, [Next]_vars PROVE SlotOwned'
  OBVIOUS
<1>. USE DEF SlotInv, OwnInv
<1>1. CASE UNCHANGED vars
  BY <1>1, SlotsKeptBy DEF vars, threadVars
<1>2. CASE ReceiverStep
  BY <1>2, SlotsKeptBy
  DEF ReceiverStep, ReceiverLoop, ReceiverDiscard, ReceiverStop, Receive
<1>3. CASE UpdaterTick
  <2>1. wPc' = Woken(Done) /\ UNCHANGED <<slot, wEm, stop>>
    BY <1>3 DEF UpdaterTick, UpdateActive
  <2>2. \A v \in Worker : wPc'[v] # wPc[v] =>
            wPc[v] \in Working /\ wPc'[v] \in Working
    BY <2>1 DEF Woken, Working
  <2>. QED
    BY <2>1, <2>2, SlotsKeptBy
<1>4. CASE UpdaterStep /\ ~ UpdaterTick
  BY <1>4, SlotsKeptBy DEF UpdaterStep, UpdaterLoop, UpdaterAstray,
       UpdaterMap, UpdaterExpire, UpdaterExpired, UpdaterExtract,
       UpdaterPromote, UpdaterPromoted, BecomeUndefined, threadVars
<1>5. CASE MainStep \/ \E sig \in Signal : MainSignal(sig)
  <2>1. /\ UNCHANGED <<slot, wEm>> /\ (stop => stop')
        /\ wPc' = wPc \/ wPc' = Woken(Active)
    BY <1>5 DEF MainStep, MainSignal, MainCloseQueue, MainBroadcast, MainJoin
  <2>2. \A v \in Worker : wPc'[v] # wPc[v] =>
            wPc[v] \in Working /\ wPc'[v] \in Working
    BY <2>1 DEF Woken, Working
  <2>. QED
    BY <2>1, <2>2, SlotsKeptBy
<1>. QED
  BY <1>1, <1>2, <1>3, <1>4, <1>5, SlotsWorker DEF Next, Step, Over

\* Nobody unsettles the emergency of a worker that is about to read its
\* status without the mutex (thread_worker.c:76-87).
LEMMA SettledKept ==
    ASSUME DispatchSettled, stop => stop', wEm' = wEm,
           \A w \in Worker : wPc'[w] = "dispatch" =>
               /\ wPc[w] = "dispatch"
               /\ status'[wEm[w]] \in {status[wEm[w]], "PAUSED", "COMPLETED"}
    PROVE  DispatchSettled'
BY DEF DispatchSettled

\* A worker writes the status of its own emergency, or pauses one.
LEMMA SettledWorker ==
    ASSUME OwnInv, DispatchSettled, NEW w \in Worker, WorkerStep(w)
    PROVE  DispatchSettled'
<1>. USE DEF OwnInv
<1>1. /\ wPc \in [Worker -> WorkerPc]
      /\ wEm \in [Worker -> Emergency \cup {NoEmergency}]
      /\ status \in [Emergency -> EmergencyStatus]
  BY DEF TypeInv, TypeOK
<1>2. CASE WorkerFind(w)
  <2>1. PICK C \in SUBSET Twin :
            /\ wPc' = [Woken(NewlyPaused(C)) EXCEPT ![w] = "wait"]
            /\ Preempt(wEm[w], C)
    BY <1>2 DEF WorkerFind, Candidates, Eligible
  <2>2. wPc[w] = "find" /\ UNCHANGED <<wEm, stop>>
    BY <1>2 DEF WorkerFind
  <2>3. \A v \in Worker : wPc'[v] = "dispatch" => wPc[v] = "dispatch"
    BY <1>1, <2>1, <2>2 DEF Woken
  <2>4. \A v \in Worker : wPc[v] = "dispatch" => wEm[v] \in Emergency
    BY DEF TypeInv, TypeOK, Known, Holding, Working
  <2>5. \A o \in Emergency : status'[o] \in {status[o], "PAUSED"}
    BY <2>1 DEF Preempt
  <2>. QED
    BY <2>2, <2>3, <2>4, <2>5, SettledKept
<1>3. CASE WorkerFindOverrun(w)
  BY <1>3, SettledKept DEF WorkerFindOverrun, BecomeUndefined
<1>4. CASE WorkerWait(w)
  BY <1>1, <1>4 DEF WorkerWait, Goto, DispatchSettled, emergencyVars
<1>5. CASE WorkerPop(w) \/ WorkerRelease(w)
  <2>1. PICK e : wEm' = [wEm EXCEPT ![w] = e]
    BY <1>5 DEF WorkerPop, WorkerRelease
  <2>2. /\ \E to \in {"open", "loop"} : wPc' = [wPc EXCEPT ![w] = to]
        /\ UNCHANGED <<status, stop>>
    BY <1>5 DEF WorkerPop, WorkerRelease, Goto, emergencyVars
  <2>. QED
    BY <1>1, <2>1, <2>2 DEF DispatchSettled
<1>6. CASE WorkerLoop(w) \/ WorkerPopClosed(w) \/ WorkerInner(w)
           \/ WorkerFindNothing(w) \/ WorkerFindFails(w) \/ WorkerDispatch(w)
  <2>1. /\ \E to \in WorkerPc \ {"dispatch"} : wPc' = [wPc EXCEPT ![w] = to]
        /\ UNCHANGED <<status, stop, wEm>>
    BY <1>6 DEF WorkerLoop, WorkerPopClosed, WorkerInner, WorkerFindNothing,
         WorkerFindFails, WorkerDispatch, Goto, WorkerPc, emergencyVars
  <2>. QED
    BY <1>1, <2>1, SettledKept
<1>7. CASE WorkerOpen(w) \/ WorkerComplete(w) \/ WorkerTimeout(w) \/ WorkerCancel(w)
  <2>1. PICK news : status' = [status EXCEPT ![wEm[w]] = news]
    BY <1>7 DEF WorkerOpen, WorkerComplete, WorkerTimeout, WorkerCancel, StoreAs
  <2>2. /\ wPc[w] \in Holding
        /\ \E to \in WorkerPc \ {"dispatch"} : wPc' = [wPc EXCEPT ![w] = to]
        /\ UNCHANGED <<stop, wEm>>
    BY <1>7 DEF WorkerOpen, WorkerComplete, WorkerTimeout, WorkerCancel,
         Goto, WorkerPc, Holding, Working
  <2>3. \A v \in Worker : wPc'[v] = "dispatch" =>
            wPc[v] = "dispatch" /\ wEm[v] # wEm[w]
    BY <1>1, <2>2 DEF OneOwner, Holding, Working
  <2>. QED
    BY <1>1, <2>1, <2>2, <2>3, SettledKept
<1>. QED
  BY <1>2, <1>3, <1>4, <1>5, <1>6, <1>7 DEF WorkerStep

\* The updater completes emergencies at work and expires those in the queue;
\* the receiver writes new ones.
LEMMA SettledNext == OwnInv /\ DispatchSettled /\ [Next]_vars => DispatchSettled'
<1>. SUFFICES ASSUME OwnInv, DispatchSettled, [Next]_vars PROVE DispatchSettled'
  OBVIOUS
<1>. USE DEF OwnInv
<1>1. \A w \in Worker : wPc[w] = "dispatch" =>
          /\ wEm[w] \in received /\ wEm[w] \in Emergency
          /\ wEm[w] \notin PqItems(queue)
  BY DEF TypeInv, TypeOK, Known, OneOwner, Holding, Working
<1>2. CASE UNCHANGED vars
  BY <1>2, SettledKept DEF vars, emergencyVars, threadVars
<1>3. ASSUME NEW e \in Emergency, Receive(e)
      PROVE  DispatchSettled'
  <2>1. /\ e \notin received /\ UNCHANGED <<wPc, wEm, stop>>
        /\ status' = [status EXCEPT ![e] = "WAITING"]
    BY <1>3 DEF Receive, Born
  <2>. QED
    BY <1>1, <2>1, SettledKept
<1>4. CASE ReceiverLoop \/ ReceiverDiscard \/ ReceiverStop
  BY <1>4, SettledKept DEF ReceiverLoop, ReceiverDiscard, ReceiverStop, emergencyVars
<1>5. CASE UpdaterTick
  <2>1. wPc' = Woken(Done) /\ UNCHANGED <<wEm, stop>>
    BY <1>5 DEF UpdaterTick, UpdateActive
  <2>2. status' = [e \in Emergency |->
              IF e \in Done THEN "COMPLETED"
              ELSE IF e \in Started THEN "IN_PROGRESS"
              ELSE status[e]]
    BY <1>5 DEF UpdaterTick, UpdateActive
  <2>3. \A w \in Worker : wPc'[w] = "dispatch" => wPc[w] = "dispatch"
    BY <2>1 DEF Woken
  <2>4. \A e \in Started : status[e] = "ASSIGNED"
    BY DEF Started
  <2>5. ASSUME NEW w \in Worker, wPc[w] = "dispatch", ~ stop
        PROVE  status'[wEm[w]] \in {"PAUSED", "COMPLETED"}
    <3>1. status[wEm[w]] \in {"PAUSED", "COMPLETED"}
      BY <2>5 DEF DispatchSettled
    <3>. QED
      BY <1>1, <2>2, <2>4, <2>5, <3>1
  <2>. QED
    BY <2>1, <2>3, <2>5 DEF DispatchSettled
<1>6. CASE UpdaterExpire
  <2>1. PICK l \in Level : \E i \in 1 .. Len(queue[l]) :
            status' = [status EXCEPT ![queue[l][i]] = "TIMEOUT"]
    BY <1>6 DEF UpdaterExpire
  <2>2. PICK i \in 1 .. Len(queue[l]) :
            status' = [status EXCEPT ![queue[l][i]] = "TIMEOUT"]
    BY <2>1
  <2>3. queue[l][i] \in PqItems(queue)
    BY ExtractOnce DEF OneOwner, TypeInv, TypeOK
  <2>4. UNCHANGED <<wPc, wEm, stop>>
    BY <1>6 DEF UpdaterExpire, threadVars
  <2>. QED
    BY <1>1, <2>2, <2>3, <2>4, SettledKept
<1>7. CASE UpdaterAstray
  BY <1>7, SettledKept DEF UpdaterAstray, BecomeUndefined
<1>8. CASE UpdaterLoop \/ UpdaterMap \/ UpdaterExpired \/ UpdaterExtract
           \/ UpdaterPromote \/ UpdaterPromoted
  BY <1>8, SettledKept DEF UpdaterLoop, UpdaterMap, UpdaterExpired,
       UpdaterExtract, UpdaterPromote, UpdaterPromoted, emergencyVars
<1>9. CASE MainStep \/ \E sig \in Signal : MainSignal(sig)
  <2>1. /\ UNCHANGED <<status, wEm>> /\ (stop => stop')
        /\ wPc' = wPc \/ wPc' = Woken(Active)
    BY <1>9 DEF MainStep, MainSignal, MainCloseQueue, MainBroadcast, MainJoin,
         emergencyVars
  <2>. QED
    BY <2>1, SettledKept DEF Woken
<1>. QED
  BY <1>2, <1>3, <1>4, <1>5, <1>6, <1>7, <1>8, <1>9, SettledWorker
  DEF Next, Step, Over, ReceiverStep, UpdaterStep

\* Every step keeps the slots.
LEMMA SlotInvNext == SlotInv /\ [Next]_vars => SlotInv'
BY OwnNext, SettledNext, SlotsNext DEF SlotInv

\* At the start the slots are empty.
LEMMA InitSlotInv == Init => SlotInv
BY InitOwnInv DEF Init, SlotInv, DispatchSettled, SlotOwned, Working

\* The slots name exactly the emergencies at work, so that the updater ages,
\* promotes and completes those and no other (thread_worker.c:7, 33, 90;
\* thread_updater.c:132-159).
THEOREM SlotsKept == Spec => []SlotOwned
<1>1. SlotInv => SlotOwned
  BY DEF SlotInv
<1>. QED
  BY <1>1, InitSlotInv, SlotInvNext, PTL DEF Spec
=============================================================================
