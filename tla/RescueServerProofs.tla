------------------------- MODULE RescueServerProofs -------------------------
(***************************************************************************)
(* What holds of RescueServer for every catalogue, map, table and number   *)
(* of threads.                                                             *)
(***************************************************************************)
EXTENDS RescueServer, FiniteSetTheorems, SequenceTheorems, TLAPS

-----------------------------------------------------------------------------
(***************************************************************************)
(* Counting.                                                               *)
(***************************************************************************)

\* A demand asks for finitely many rescuers, so that rescuer_count is a
\* number.
LEMMA UnitsFinite ==
    ASSUME NEW d \in [RescuerType -> Nat]
    PROVE  IsFiniteSet(Units(d)) /\ Cardinality(Units(d)) \in Nat
<1>. DEFINE f == [r \in RescuerType |-> {r} \X (1 .. d[r])]
            F == {{r} \X (1 .. d[r]) : r \in RescuerType}
<1>1. \A r \in RescuerType : IsFiniteSet({r} \X (1 .. d[r]))
  <2>. TAKE r \in RescuerType
  <2>1. IsFiniteSet({r})
    BY FS_Singleton
  <2>2. IsFiniteSet(1 .. d[r])
    BY FS_Interval
  <2>. QED
    BY <2>1, <2>2, FS_Product
<1>2. f \in Surjection(RescuerType, F)
  BY DEF Surjection
<1>3. IsFiniteSet(F)
  BY <1>2, FS_Surjection, CardinalityAssumption
<1>4. IsFiniteSet(UNION F)
  BY <1>1, <1>3, FS_UNION
<1>. QED
  BY <1>4, FS_CardinalityType DEF Units

\* The number of members of a set of twins.
LEMMA TwinsFinite ==
    ASSUME NEW S, S \subseteq Twin
    PROVE  IsFiniteSet(S) /\ Cardinality(S) \in Nat
BY FS_Subset, FS_CardinalityType, CardinalityAssumption

\* As many units as members, when there are as many units of each type as
\* members of it.
LEMMA UnitsCountMembers ==
    ASSUME NEW d \in [RescuerType -> Nat], NEW S, S \subseteq Twin,
           \A r \in RescuerType : Cardinality(OfType(S, r)) = d[r]
    PROVE  Cardinality(Units(d)) = Cardinality(S)
<1>1. \A r \in RescuerType : ExistsBijection(OfType(S, r), 1 .. d[r])
  <2>. TAKE r \in RescuerType
  <2>1. IsFiniteSet(OfType(S, r))
    BY TwinsFinite DEF OfType
  <2>2. IsFiniteSet(1 .. d[r]) /\ Cardinality(1 .. d[r]) = d[r]
    BY FS_Interval
  <2>. QED
    BY <2>1, <2>2, FS_SameCardinalityBij
<1>. DEFINE rank == [r \in RescuerType |->
                        CHOOSE f : f \in Bijection(OfType(S, r), 1 .. d[r])]
            unit == [t \in S |-> <<TypeOf[t], rank[TypeOf[t]][t]>>]
<1>2. \A r \in RescuerType : rank[r] \in Bijection(OfType(S, r), 1 .. d[r])
  BY <1>1 DEF ExistsBijection
<1>. HIDE DEF rank
<1>3. \A t \in S : TypeOf[t] \in RescuerType /\ t \in OfType(S, TypeOf[t])
  BY CatalogueAssumption DEF OfType
<1>4. \A t \in S : rank[TypeOf[t]][t] \in 1 .. d[TypeOf[t]]
  BY <1>2, <1>3 DEF Bijection, Injection
<1>5. unit \in [S -> Units(d)]
  BY <1>3, <1>4 DEF Units
<1>6. \A t, u \in S : unit[t] = unit[u] => t = u
  <2>. SUFFICES ASSUME NEW t \in S, NEW u \in S, unit[t] = unit[u]
                PROVE  t = u
    OBVIOUS
  <2>1. TypeOf[t] = TypeOf[u] /\ rank[TypeOf[t]][t] = rank[TypeOf[t]][u]
    OBVIOUS
  <2>. QED
    BY <1>2, <1>3, <2>1 DEF Bijection, Injection, IsInjective
<1>7. \A x \in Units(d) : \E t \in S : unit[t] = x
  <2>. TAKE x \in Units(d)
  <2>0. PICK r \in RescuerType : \E i \in 1 .. d[r] : x = <<r, i>>
    BY DEF Units
  <2>1. PICK i \in 1 .. d[r] : x = <<r, i>>
    BY <2>0
  <2>2. PICK t \in OfType(S, r) : rank[r][t] = i
    BY <1>2, <2>1 DEF Bijection, Surjection
  <2>. QED
    BY <2>1, <2>2 DEF OfType
<1>8. ExistsBijection(S, Units(d))
  <2>. HIDE DEF unit
  <2>1. unit \in Bijection(S, Units(d))
    BY <1>5, <1>6, <1>7 DEF Bijection, Injection, Surjection, IsInjective
  <2>. QED
    BY <2>1 DEF ExistsBijection
<1>. QED
  BY <1>8, TwinsFinite, FS_Bijection

\* Wanting k[r] more of each type is wanting that many units more.
LEMMA UnitsAdd ==
    ASSUME NEW d \in [RescuerType -> Nat], NEW k \in [RescuerType -> Nat],
           NEW s \in [RescuerType -> Nat],
           \A r \in RescuerType : s[r] = d[r] + k[r]
    PROVE  Cardinality(Units(s)) = Cardinality(Units(d)) + Cardinality(Units(k))
<1>. DEFINE more == {x \in Units(s) : x[2] > d[x[1]]}
            above == [x \in Units(k) |-> <<x[1], d[x[1]] + x[2]>>]
<1>1. \A q \in [RescuerType -> Nat] : \A x :
          x \in Units(q) <=> \E r \in RescuerType : \E i \in Nat :
              x = <<r, i>> /\ 1 <= i /\ i <= q[r]
  BY DEF Units
<1>2. Units(s) = Units(d) \cup more /\ Units(d) \cap more = {}
  <2>1. \A x \in Units(d) : x \in Units(s) /\ ~ x[2] > d[x[1]]
    <3>. TAKE x \in Units(d)
    <3>1. PICK r \in RescuerType, i \in Nat : x = <<r, i>> /\ 1 <= i /\ i <= d[r]
      BY <1>1
    <3>2. i <= s[r]
      BY <3>1
    <3>. QED
      BY <1>1, <3>1, <3>2
  <2>2. \A x \in Units(s) : x[2] > d[x[1]] \/ x \in Units(d)
    <3>. TAKE x \in Units(s)
    <3>1. PICK r \in RescuerType, i \in Nat : x = <<r, i>> /\ 1 <= i /\ i <= s[r]
      BY <1>1
    <3>2. i > d[r] \/ i <= d[r]
      OBVIOUS
    <3>. QED
      BY <1>1, <3>1, <3>2
  <2>. QED
    BY <2>1, <2>2
<1>3. above \in Bijection(Units(k), more)
  <2>1. \A x \in Units(k) : above[x] \in more
    <3>. TAKE x \in Units(k)
    <3>1. PICK r \in RescuerType, i \in Nat : x = <<r, i>> /\ 1 <= i /\ i <= k[r]
      BY <1>1
    <3>2. above[x] = <<r, d[r] + i>>
      BY <3>1
    <3>3. d[r] + i \in Nat /\ 1 <= d[r] + i /\ d[r] + i <= s[r] /\ d[r] + i > d[r]
      BY <3>1
    <3>. QED
      BY <1>1, <3>2, <3>3
  <2>2. \A x, y \in Units(k) : above[x] = above[y] => x = y
    <3>. SUFFICES ASSUME NEW x \in Units(k), NEW y \in Units(k), above[x] = above[y]
                  PROVE  x = y
      OBVIOUS
    <3>1. PICK r \in RescuerType, i \in Nat : x = <<r, i>>
      BY <1>1
    <3>2. PICK q \in RescuerType, j \in Nat : y = <<q, j>>
      BY <1>1
    <3>3. <<r, d[r] + i>> = <<q, d[q] + j>>
      BY <3>1, <3>2
    <3>. QED
      BY <3>1, <3>2, <3>3
  <2>3. \A z \in more : \E x \in Units(k) : above[x] = z
    <3>. TAKE z \in more
    <3>1. PICK r \in RescuerType, i \in Nat :
              z = <<r, i>> /\ 1 <= i /\ i <= s[r] /\ i > d[r]
      BY <1>1
    <3>2. i - d[r] \in Nat /\ 1 <= i - d[r] /\ i - d[r] <= k[r]
      BY <3>1
    <3>3. <<r, i - d[r]>> \in Units(k)
      BY <1>1, <3>2
    <3>4. above[<<r, i - d[r]>>] = <<r, d[r] + (i - d[r])>>
      BY <3>3
    <3>5. d[r] + (i - d[r]) = i
      OBVIOUS
    <3>. WITNESS <<r, i - d[r]>> \in Units(k)
    <3>. QED
      BY <3>1, <3>4, <3>5
  <2>4. above = [x \in Units(k) |-> above[x]]
    OBVIOUS
  <2>. HIDE DEF above, more
  <2>. QED
    BY <2>1, <2>2, <2>3, <2>4 DEF Bijection, Injection, Surjection, IsInjective
<1>. HIDE DEF above, more
<1>4. IsFiniteSet(Units(d)) /\ IsFiniteSet(Units(k)) /\ Cardinality(Units(d)) \in Nat
  BY UnitsFinite
<1>5. IsFiniteSet(more) /\ Cardinality(more) = Cardinality(Units(k))
  BY <1>3, <1>4, FS_Bijection DEF ExistsBijection
<1>6. Cardinality(Units(d) \cap more) = 0
  BY <1>2, FS_EmptySet
<1>7. Cardinality(Units(k)) \in Nat
  BY UnitsFinite
<1>8. Cardinality(Units(d) \cup more)
         = Cardinality(Units(d)) + Cardinality(more) - Cardinality(Units(d) \cap more)
  BY <1>4, <1>5, FS_Union
<1>9. Cardinality(Units(s)) = Cardinality(Units(d) \cup more)
  BY <1>2
<1>. QED
  BY <1>4, <1>5, <1>6, <1>7, <1>8, <1>9

\* Wanting nobody.
LEMMA NoUnits ==
    ASSUME NEW d \in [RescuerType -> Nat]
    PROVE  Cardinality(Units(d)) = 0 <=> d = NoDemand
<1>1. Cardinality(Units(d)) = 0 <=> Units(d) = {}
  BY UnitsFinite, FS_EmptySet
<1>2. Units(d) = {} <=> \A r \in RescuerType : d[r] = 0
  <2>1. \A r \in RescuerType : d[r] \in Nat
    OBVIOUS
  <2>2. \A r \in RescuerType : d[r] # 0 => <<r, 1>> \in Units(d)
    BY <2>1 DEF Units
  <2>3. (\A r \in RescuerType : d[r] = 0) => Units(d) = {}
    BY DEF Units
  <2>. QED
    BY <2>2, <2>3
<1>. QED
  BY <1>1, <1>2 DEF NoDemand

\* Adding members that are not there and removing some that are.
LEMMA CountJoin ==
    ASSUME NEW S, S \subseteq Twin, NEW T, T \subseteq Twin, S \cap T = {}
    PROVE  Cardinality(S \cup T) = Cardinality(S) + Cardinality(T)
<1>1. IsFiniteSet(S) /\ IsFiniteSet(T)
  BY TwinsFinite
<1>2. Cardinality(S \cup T) = Cardinality(S) + Cardinality(T) - Cardinality(S \cap T)
  BY <1>1, FS_Union
<1>3. Cardinality(S \cap T) = 0
  BY FS_EmptySet
<1>4. Cardinality(S) \in Nat /\ Cardinality(T) \in Nat
  BY TwinsFinite
<1>. QED
  BY <1>2, <1>3, <1>4

LEMMA CountLeave ==
    ASSUME NEW S, S \subseteq Twin, NEW T, T \subseteq S
    PROVE  Cardinality(S \ T) = Cardinality(S) - Cardinality(T)
<1>1. (S \ T) \cup T = S /\ (S \ T) \cap T = {}
  OBVIOUS
<1>2. S \ T \subseteq Twin /\ T \subseteq Twin
  OBVIOUS
<1>3. Cardinality((S \ T) \cup T) = Cardinality(S \ T) + Cardinality(T)
  BY <1>1, <1>2, CountJoin
<1>4. Cardinality(S \ T) \in Nat /\ Cardinality(T) \in Nat
  BY <1>2, TwinsFinite
<1>5. Cardinality(S) = Cardinality((S \ T) \cup T)
  BY <1>1
<1>. QED
  BY <1>3, <1>4, <1>5

-----------------------------------------------------------------------------
(***************************************************************************)
(* The queue.                                                              *)
(***************************************************************************)

\* pq_push stores at a level that exists, whatever level it is given
\* (priority_queue.c:77-96).
LEMMA PushLevel ==
    ASSUME NEW l \in Int
    PROVE  PqLevel(l) \in Level
BY LevelsAssumption DEF PqLevel, Level

\* pq_push adds nothing but its item.
LEMMA PushType ==
    ASSUME NEW S, NEW q \in [Level -> Seq(S)], NEW e \in S, NEW l \in Int
    PROVE  PqPush(q, e, l) \in [Level -> Seq(S)]
BY PushLevel DEF PqPush

\* pq_pop takes an item of the queue and leaves the rest (priority_queue.c:99-121).
LEMMA PopType ==
    ASSUME NEW S, NEW q \in [Level -> Seq(S)], NEW l \in Level, q[l] # <<>>
    PROVE  Head(q[l]) \in S /\ PqPop(q, l) \in [Level -> Seq(S)]
BY DEF PqPop

\* pq_extract_first does the same from the middle (priority_queue.c:139-157).
LEMMA ExtractType ==
    ASSUME NEW S, NEW q \in [Level -> Seq(S)], NEW l \in Level,
           NEW i \in 1 .. Len(q[l])
    PROVE  q[l][i] \in S /\ PqExtract(q, l, i) \in [Level -> Seq(S)]
<1>1. q[l] \in Seq(S) /\ Len(q[l]) \in Nat
  OBVIOUS
<1>2. q[l][i] \in S
  BY <1>1
<1>3. /\ SubSeq(q[l], 1, i - 1) \in Seq(S)
      /\ SubSeq(q[l], i + 1, Len(q[l])) \in Seq(S)
  <2>1. \A j \in 1 .. i - 1 : q[l][j] \in S
    BY <1>1
  <2>2. \A j \in i + 1 .. Len(q[l]) : q[l][j] \in S
    BY <1>1
  <2>. QED
    BY <1>1, <2>1, <2>2, SubSeqProperties
<1>4. RemoveAt(q[l], i) \in Seq(S)
  BY <1>3, ConcatProperties DEF RemoveAt
<1>. QED
  BY <1>2, <1>4 DEF PqExtract

\* A queue of some emergencies is a queue of more.
LEMMA QueueGrows ==
    ASSUME NEW S, NEW T, S \subseteq T, NEW q \in [Level -> Seq(S)]
    PROVE  q \in [Level -> Seq(T)]
<1>1. \A l \in Level : q[l] \in Seq(T)
  <2>. TAKE l \in Level
  <2>1. q[l] \in Seq(S) /\ \A i \in 1 .. Len(q[l]) : q[l][i] \in T
    OBVIOUS
  <2>. QED
    BY <2>1
<1>. QED
  BY <1>1

-----------------------------------------------------------------------------
(***************************************************************************)
(* The inductive invariant of type correctness.  TypeOK alone is not       *)
(* inductive: an action that indexes a table by "the emergency of this     *)
(* twin" or "of this worker" needs to know that there is one.              *)
(***************************************************************************)

\* Whoever holds an emergency holds one that was received.
Known ==
    /\ queue \in [Level -> Seq(received)]
    /\ \A w \in Worker : wPc[w] \in Holding => wEm[w] \in received
    /\ uPc = "requeue" => uCarry \in received
    /\ \A t \in Twin : tEmergency[t] \in received \cup {NoEmergency}

\* A twin has an emergency exactly while it is working.
Busy == \A t \in Twin : tEmergency[t] # NoEmergency
                          <=> tStatus[t] \in {"EN_ROUTE_TO_SCENE", "ON_SCENE"}

TypeInv == TypeOK /\ Known /\ Busy

\* At the start nobody holds anything.
LEMMA InitTypeInv == Init => TypeInv
<1>. SUFFICES ASSUME Init PROVE TypeInv
  OBVIOUS
<1>. USE DEF Init
<1>1. TypeOK
  <2>1. priority \in [Emergency -> Level]
    BY LevelsAssumption DEF Level
  <2>2. missing \in [Emergency -> [RescuerType -> Nat]]
    BY DEF NoDemand
  <2>3. tPos \in [Twin -> Cell]
    BY MapAssumption, CatalogueAssumption DEF BaseOf
  <2>4. queue \in [Level -> Seq(Emergency)]
    BY DEF PqEmpty
  <2>5. timeoutTimer \in [Emergency -> Int] /\ promotionTimer \in [Emergency -> Int]
    BY TableAssumption
  <2>6. /\ status \in [Emergency -> EmergencyStatus]
        /\ tStatus \in [Twin -> RescuerStatus]
        /\ wPc \in [Worker -> WorkerPc]
    BY DEF EmergencyStatus, RescuerStatus, WorkerPc
  <2>7. uPc \in UpdaterPc /\ rPc \in ReceiverPc /\ mPc \in MainPc
    BY DEF UpdaterPc, ReceiverPc, MainPc
  <2>8. tLeft \in [Twin -> Int]
    BY DEF InvalidTime
  <2>9. /\ closed \in BOOLEAN /\ stop \in BOOLEAN
    OBVIOUS
  <2>10. /\ crew \in [Emergency -> SUBSET Twin]
         /\ notArrived \in [Emergency -> Int] /\ notDone \in [Emergency -> Int]
         /\ completed \in [Emergency -> Nat] /\ canceled \in [Emergency -> Nat]
    OBVIOUS
  <2>11. /\ tEmergency \in [Twin -> Emergency \cup {NoEmergency}]
         /\ tTarget \in [Twin -> Cell \cup {NoCell}]
    OBVIOUS
  <2>12. /\ slot \in [Worker -> Emergency \cup {NoEmergency}]
         /\ wEm \in [Worker -> Emergency \cup {NoEmergency}]
         /\ received \subseteq Emergency
         /\ uCarry \in Emergency \cup {NoEmergency}
    OBVIOUS
  <2>. QED
    BY <2>1, <2>2, <2>3, <2>4, <2>5, <2>6, <2>7, <2>8, <2>9, <2>10, <2>11, <2>12 DEF TypeOK
<1>2. Known
  BY CardinalityAssumption DEF Known, PqEmpty, Holding, Working
<1>3. Busy
  BY DEF Busy
<1>. QED
  BY <1>1, <1>2, <1>3 DEF TypeInv

-----------------------------------------------------------------------------
(***************************************************************************)
(* Each step preserves it.                                                 *)
(***************************************************************************)

\* A program that has left the language keeps its state.
LEMMA UndefinedTypes == TypeInv /\ BecomeUndefined => TypeInv'
BY DEF TypeInv, TypeOK, Known, Busy, Holding, Working, BecomeUndefined, WorkerPc,
       UpdaterPc, ReceiverPc, MainPc, emergencyVars, twinVars, storeVars

\* The canceled queue counts.
LEMMA StoreCanceledType ==
    ASSUME NEW e \in Emergency, canceled \in [Emergency -> Nat], StoreCanceled(e)
    PROVE  canceled' \in [Emergency -> Nat]
BY DEF StoreCanceled

\* What a request copies from the catalogue and the table.
LEMMA CatalogueTypes ==
    ASSUME NEW e \in Emergency
    PROVE  /\ BaseLevel[e] \in Level /\ BaseLevel[e] \in Int
           /\ TimeBeforeTimeout[BaseLevel[e]] \in Int
           /\ TimeBeforePromotion[BaseLevel[e]] \in Int
           /\ Required[e] \in [RescuerType -> Nat]
<1>1. BaseLevel[e] \in Level /\ Required[e] \in [RescuerType -> Nat]
  BY CatalogueAssumption
<1>2. BaseLevel[e] \in Int
  BY <1>1, LevelsAssumption DEF Level
<1>3. TimeBeforeTimeout[BaseLevel[e]] \in Nat \cup {NoTimeout}
  BY <1>1, TableAssumption
<1>4. TimeBeforePromotion[BaseLevel[e]] \in Nat \cup {NoPromotion}
  BY <1>1, TableAssumption
<1>5. NoTimeout \in Int /\ NoPromotion \in Int
  BY TableAssumption
<1>. QED
  BY <1>1, <1>2, <1>3, <1>4, <1>5

\* The receiver (thread_reciever.c:9-43).
LEMMA ReceiverTypes == TypeInv /\ ReceiverStep => TypeInv'
<1>. SUFFICES ASSUME TypeInv, ReceiverStep PROVE TypeInv'
  OBVIOUS
<1>. USE DEF TypeInv, TypeOK, Known, Busy, emergencyVars, twinVars, storeVars
<1>1. CASE ReceiverLoop
  BY <1>1 DEF ReceiverLoop, ReceiverPc
<1>2. CASE ReceiverDiscard
  BY <1>2 DEF ReceiverDiscard, ReceiverPc
<1>3. CASE ReceiverStop
  BY <1>3 DEF ReceiverStop, ReceiverPc
<1>4. ASSUME NEW e \in Emergency, Receive(e)
      PROVE  TypeInv'
  <2>1. /\ BaseLevel[e] \in Level /\ BaseLevel[e] \in Int
        /\ TimeBeforeTimeout[BaseLevel[e]] \in Int
        /\ TimeBeforePromotion[BaseLevel[e]] \in Int
        /\ Required[e] \in [RescuerType -> Nat]
    BY CatalogueTypes
  <2>2. RescuerCount(e) \in Nat
    BY <2>1, UnitsFinite DEF RescuerCount
  <2>3. received' \subseteq Emergency /\ received \subseteq received'
    BY <1>4 DEF Receive
  <2>4. queue' \in [Level -> Seq(received')]
    <3>1. queue \in [Level -> Seq(received')]
      BY <2>3, QueueGrows
    <3>2. e \in received'
      BY <1>4 DEF Receive
    <3>. QED
      BY <1>4, <2>1, <3>1, <3>2, PushType DEF Receive, PushWaiting
  <2>5. queue' \in [Level -> Seq(Emergency)]
    BY <2>3, <2>4, QueueGrows
  <2>6. TypeOK'
    <3>. Born(e)
      BY <1>4 DEF Receive
    <3>1. /\ status' \in [Emergency -> EmergencyStatus]
          /\ priority' \in [Emergency -> Level]
          /\ timeoutTimer' \in [Emergency -> Int]
          /\ promotionTimer' \in [Emergency -> Int]
      <4>1. status' \in [Emergency -> EmergencyStatus]
        BY DEF Born, EmergencyStatus
      <4>2. priority' \in [Emergency -> Level]
        BY <2>1 DEF Born
      <4>3. /\ timeoutTimer' \in [Emergency -> Int]
            /\ promotionTimer' \in [Emergency -> Int]
        BY <2>1 DEF Born
      <4>. QED
        BY <4>1, <4>2, <4>3
    <3>2. /\ missing' \in [Emergency -> [RescuerType -> Nat]]
          /\ crew' \in [Emergency -> SUBSET Twin]
          /\ notArrived' \in [Emergency -> Int]
          /\ notDone' \in [Emergency -> Int]
      <4>1. missing' \in [Emergency -> [RescuerType -> Nat]]
        BY <2>1 DEF Born
      <4>2. crew' \in [Emergency -> SUBSET Twin]
        BY DEF Born
      <4>3. notArrived' \in [Emergency -> Int] /\ notDone' \in [Emergency -> Int]
        BY <2>2 DEF Born
      <4>. QED
        BY <4>1, <4>2, <4>3
    <3>3. rPc' \in ReceiverPc /\ received' \subseteq Emergency
      BY <1>4, <2>3 DEF Receive, ReceiverPc
    <3>4. UNCHANGED <<tStatus, tEmergency, tTarget, tPos, tLeft, closed,
                      completed, canceled, slot, stop, wPc, wEm, uPc, uCarry, mPc>>
      BY <1>4 DEF Receive
    <3>. QED
      BY <2>5, <3>1, <3>2, <3>3, <3>4
  <2>7. Known'
    BY <1>4, <2>3, <2>4 DEF Receive
  <2>8. Busy'
    BY <1>4 DEF Receive
  <2>. QED
    BY <2>6, <2>7, <2>8
<1>. QED
  BY <1>1, <1>2, <1>3, <1>4 DEF ReceiverStep

\* The workers, but for the dispatch (thread_worker.c:37-93).
LEMMA WorkerTypes ==
    ASSUME NEW w \in Worker, TypeInv, WorkerStep(w), ~ WorkerFind(w)
    PROVE  TypeInv'
<1>. USE DEF TypeInv, TypeOK, Known, Busy, Holding, Working, Goto, emergencyVars,
             twinVars, storeVars, WorkerPc
<1>1. CASE WorkerLoop(w)
  BY <1>1 DEF WorkerLoop
<1>2. CASE WorkerPop(w)
  <2>1. PICK l \in Level :
            /\ queue[l] # <<>>
            /\ wEm' = [wEm EXCEPT ![w] = Head(queue[l])]
            /\ queue' = PqPop(queue, l)
    BY <1>2 DEF WorkerPop, PqTop
  <2>2. Head(queue[l]) \in received /\ queue' \in [Level -> Seq(received)]
    BY <2>1, PopType
  <2>3. queue' \in [Level -> Seq(Emergency)]
    BY <2>2, QueueGrows
  <2>. QED
    BY <1>2, <2>1, <2>2, <2>3 DEF WorkerPop
<1>3. CASE WorkerPopClosed(w)
  BY <1>3 DEF WorkerPopClosed
<1>4. CASE WorkerOpen(w)
  <2>1. status' \in [Emergency -> EmergencyStatus]
    BY <1>4 DEF WorkerOpen, EmergencyStatus
  <2>. QED
    BY <1>4, <2>1 DEF WorkerOpen
<1>5. CASE WorkerInner(w)
  BY <1>5 DEF WorkerInner
<1>6. CASE WorkerFindNothing(w)
  BY <1>6 DEF WorkerFindNothing
<1>7. CASE WorkerFindFails(w)
  BY <1>7 DEF WorkerFindFails
<1>8. CASE WorkerFindOverrun(w)
  BY <1>8, UndefinedTypes DEF WorkerFindOverrun
<1>9. CASE WorkerWait(w)
  BY <1>9 DEF WorkerWait
<1>10. CASE WorkerDispatch(w)
  BY <1>10 DEF WorkerDispatch
<1>11. CASE WorkerComplete(w)
  <2>1. completed' \in [Emergency -> Nat]
    BY <1>11 DEF WorkerComplete
  <2>2. status' \in [Emergency -> EmergencyStatus]
    BY <1>11 DEF WorkerComplete, EmergencyStatus
  <2>3. /\ wPc[w] = "complete" /\ wPc' = [wPc EXCEPT ![w] = "after"]
        /\ slot' = [slot EXCEPT ![w] = NoEmergency]
        /\ UNCHANGED <<priority, timeoutTimer, promotionTimer, missing, crew,
                       notArrived, notDone, twinVars, queue, closed, canceled,
                       stop, received, wEm, uPc, uCarry, rPc, mPc>>
    BY <1>11 DEF WorkerComplete
  <2>4. TypeOK'
    BY <2>1, <2>2, <2>3
  <2>5. Known'
    <3>1. \A v \in Worker : wPc'[v] \in Holding => wPc[v] \in Holding
      <4>1. wPc \in [Worker -> WorkerPc]
        OBVIOUS
      <4>. QED
        BY <2>3, <4>1
    <3>. HIDE DEF Holding, Working, TypeOK, Busy
    <3>. QED
      BY <2>3, <3>1
  <2>6. Busy'
    BY <2>3
  <2>. QED
    BY <2>4, <2>5, <2>6
<1>12. ASSUME NEW news \in EmergencyStatus, wEm[w] \in Emergency,
              StoreAs(w, news)
       PROVE  /\ status' \in [Emergency -> EmergencyStatus]
              /\ canceled' \in [Emergency -> Nat]
              /\ slot' \in [Worker -> Emergency \cup {NoEmergency}]
  <2>1. status' = [status EXCEPT ![wEm[w]] = news]
    BY <1>12 DEF StoreAs
  <2>2. canceled' \in [Emergency -> Nat]
    <3>1. StoreCanceled(wEm[w]) /\ canceled \in [Emergency -> Nat]
      BY <1>12 DEF StoreAs
    <3>. QED
      BY <1>12, <3>1, StoreCanceledType
  <2>3. slot' = [slot EXCEPT ![w] = NoEmergency]
    BY <1>12 DEF StoreAs
  <2>4. status' \in [Emergency -> EmergencyStatus]
    BY <1>12, <2>1
  <2>5. slot' \in [Worker -> Emergency \cup {NoEmergency}]
    BY <2>3
  <2>. QED
    BY <2>2, <2>4, <2>5
<1>13. CASE WorkerTimeout(w)
  <2>1. wEm[w] \in Emergency /\ StoreAs(w, "TIMEOUT")
    BY <1>13 DEF WorkerTimeout
  <2>. QED
    BY <1>12, <1>13, <2>1 DEF WorkerTimeout, EmergencyStatus
<1>14. CASE WorkerRelease(w)
  BY <1>14 DEF WorkerRelease
<1>15. CASE WorkerCancel(w)
  <2>1. wEm[w] \in Emergency /\ StoreAs(w, "CANCELED")
    BY <1>15 DEF WorkerCancel
  <2>. QED
    BY <1>12, <1>15, <2>1 DEF WorkerCancel, EmergencyStatus
<1>. QED
  BY <1>1, <1>2, <1>3, <1>4, <1>5, <1>6, <1>7, <1>8, <1>9, <1>10, <1>11,
     <1>13, <1>14, <1>15
  DEF WorkerStep

\* The dispatch: twins are taken from other emergencies and sent to the
\* worker's (thread_worker.c:201-283).
LEMMA FindTypes ==
    ASSUME NEW w \in Worker, TypeInv, WorkerFind(w)
    PROVE  TypeInv'
<1>. DEFINE e == wEm[w]
<1>1. e \in received /\ e \in Emergency /\ e # NoEmergency
  BY CardinalityAssumption
  DEF WorkerFind, TypeInv, Known, TypeOK, Holding, Working
<1>2. PICK C \in SUBSET Twin :
          /\ Preempt(e, C)
          /\ Assign(e, C)
          /\ Send(e, C)
          /\ wPc' = [Woken(NewlyPaused(C)) EXCEPT ![w] = "wait"]
  BY DEF WorkerFind, Candidates, Eligible
<1>3. \A S \in SUBSET Twin : Cardinality(S) \in Nat
  BY TwinsFinite
<1>4. \A o, r : Stolen(C, o) \in SUBSET Twin /\ OfType(Stolen(C, o), r) \in SUBSET Twin
  BY DEF Stolen, OfType
<1>5. missing' \in [Emergency -> [RescuerType -> Nat]]
  <2>1. \A o, r : Cardinality(OfType(Stolen(C, o), r)) \in Nat
    BY <1>3, <1>4
  <2>2. \A o \in Emergency, r \in RescuerType :
            missing[o][r] + Cardinality(OfType(Stolen(C, o), r)) \in Nat
    <3>1. \A o \in Emergency, r \in RescuerType : missing[o][r] \in Nat
      BY DEF TypeInv, TypeOK
    <3>. QED
      BY <2>1, <3>1
  <2>3. missing' = [o \in Emergency |->
            IF o = e THEN NoDemand
            ELSE [r \in RescuerType |->
                    missing[o][r] + Cardinality(OfType(Stolen(C, o), r))]]
    BY <1>2 DEF Preempt
  <2>. QED
    BY <2>2, <2>3 DEF NoDemand
<1>6. notArrived' \in [Emergency -> Int]
  <2>. DEFINE n(o) == Cardinality({t \in Stolen(C, o) : tStatus[t] = "ON_SCENE"})
  <2>1. \A o : {t \in Stolen(C, o) : tStatus[t] = "ON_SCENE"} \in SUBSET Twin
    BY <1>4
  <2>2. \A o : n(o) \in Nat
    BY <1>3, <2>1
  <2>3. notArrived' = [o \in Emergency |-> notArrived[o] + n(o)]
    BY <1>2 DEF Preempt
  <2>. HIDE DEF n
  <2>. QED
    BY <2>2, <2>3 DEF TypeInv, TypeOK
<1>7. status' \in [Emergency -> EmergencyStatus]
  BY <1>2 DEF Preempt, TypeInv, TypeOK, EmergencyStatus
<1>8. /\ crew' \in [Emergency -> SUBSET Twin]
      /\ tEmergency' \in [Twin -> received \cup {NoEmergency}]
      /\ tEmergency' \in [Twin -> Emergency \cup {NoEmergency}]
  BY <1>1, <1>2 DEF Assign, TypeInv, TypeOK, Known
<1>9. tStatus' \in [Twin -> RescuerStatus]
  BY <1>2 DEF Send, TypeInv, TypeOK, RescuerStatus
<1>10. tTarget' \in [Twin -> Cell \cup {NoCell}]
  <2>1. Site[e] \in Cell
    BY <1>1, MapAssumption
  <2>. QED
    BY <1>2, <2>1 DEF Send, NewTarget, TypeInv, TypeOK
<1>11. tLeft' \in [Twin -> Int]
  <2>1. \A t \in Twin : TimeToManage[e][TypeOf[t]] \in Nat
    BY <1>1, CatalogueAssumption
  <2>. QED
    BY <1>2, <2>1 DEF Send, InvalidTime, TypeInv, TypeOK
<1>12. wPc' \in [Worker -> WorkerPc]
  BY <1>2 DEF Woken, TypeInv, TypeOK, WorkerPc
<1>13. TypeOK'
  <2>1. UNCHANGED <<priority, timeoutTimer, promotionTimer, notDone, tPos,
                    queue, closed, completed, canceled, slot, stop, received,
                    wEm, uPc, uCarry, rPc, mPc>>
    BY DEF WorkerFind, storeVars
  <2>. QED
    BY <1>5, <1>6, <1>7, <1>8, <1>9, <1>10, <1>11, <1>12, <2>1
    DEF TypeInv, TypeOK
<1>14. Known'
  <2>1. \A v \in Worker : wPc'[v] \in Holding => wPc[v] \in Holding
    BY <1>2 DEF WorkerFind, Woken, Holding, Working, TypeInv, TypeOK
  <2>. QED
    BY <1>8, <2>1 DEF WorkerFind, TypeInv, Known
<1>15. Busy'
  BY <1>1, <1>2 DEF Assign, Send, TypeInv, TypeOK, Busy
<1>. QED
  BY <1>13, <1>14, <1>15 DEF TypeInv

\* A promotion keeps to the table (main.c:390-394).
LEMMA NextLevelType ==
    ASSUME NEW l \in Level
    PROVE  /\ NextLevel(l) \in Level
           /\ TimeBeforePromotion[NextLevel(l)] \in Int
           /\ TimeBeforeTimeout[NextLevel(l)] \in Int
<1>1. NextLevel(l) \in Level
  BY LevelsAssumption DEF NextLevel, Level
<1>. QED
  BY <1>1, TableAssumption

\* One round of the updater over the twins (thread_updater.c:54-130).
LEMMA UpdateTwinsTypes ==
    ASSUME TypeInv, UpdateTwins
    PROVE  /\ crew' \in [Emergency -> SUBSET Twin]
           /\ notArrived' \in [Emergency -> Int]
           /\ notDone' \in [Emergency -> Int]
           /\ tStatus' \in [Twin -> RescuerStatus]
           /\ tEmergency' \in [Twin -> received \cup {NoEmergency}]
           /\ tTarget' \in [Twin -> Cell \cup {NoCell}]
           /\ tPos' \in [Twin -> Cell]
           /\ tLeft' \in [Twin -> Int]
           /\ Busy'
<1>1. /\ Leaving \in SUBSET Twin /\ AtScene \in SUBSET Twin
      /\ \A t \in AtScene : tStatus[t] = "EN_ROUTE_TO_SCENE" /\ t \notin Leaving
  BY DEF Leaving, AtScene, Arrived, Moving
<1>2. \A o : /\ Cardinality(Stolen(Leaving, o)) \in Nat
             /\ Cardinality(Stolen(AtScene, o)) \in Nat
  <2>1. \A o : /\ Stolen(Leaving, o) \in SUBSET Twin
               /\ Stolen(AtScene, o) \in SUBSET Twin
    BY <1>1 DEF Stolen
  <2>. QED
    BY <2>1, TwinsFinite
<1>3. /\ crew' \in [Emergency -> SUBSET Twin]
      /\ tEmergency' \in [Twin -> received \cup {NoEmergency}]
      /\ tPos' \in [Twin -> Cell]
  BY DEF UpdateTwins, TypeInv, TypeOK, Known
<1>4. notDone' \in [Emergency -> Int] /\ notArrived' \in [Emergency -> Int]
  <2>1. \A o \in Emergency : notDone[o] \in Int /\ notArrived[o] \in Int
    BY DEF TypeInv, TypeOK
  <2>2. /\ notDone' = [o \in Emergency |->
                notDone[o] - Cardinality(Stolen(Leaving, o))]
        /\ notArrived' = [o \in Emergency |->
                notArrived[o] - Cardinality(Stolen(AtScene, o))]
    BY DEF UpdateTwins
  <2>. QED
    BY <1>2, <2>1, <2>2
<1>5. tStatus' \in [Twin -> RescuerStatus]
  BY DEF UpdateTwins, TypeInv, TypeOK, RescuerStatus
<1>6. tTarget' \in [Twin -> Cell \cup {NoCell}]
  <2>1. \A t \in Twin : BaseOf(t) \in Cell
    BY MapAssumption, CatalogueAssumption DEF BaseOf
  <2>2. \A t \in Twin : GoingTo(t) \in Cell \cup {NoCell}
    BY <2>1 DEF GoingTo, NewTarget, TypeInv, TypeOK
  <2>. QED
    BY <2>2 DEF UpdateTwins, TypeInv, TypeOK
<1>7. tLeft' \in [Twin -> Int]
  <2>1. \A t \in AtScene : tEmergency[t] \in Emergency
    BY <1>1 DEF TypeInv, TypeOK, Busy
  <2>2. \A t \in AtScene : TimeToManage[tEmergency[t]][TypeOf[t]] \in Int
    BY <1>1, <2>1, CatalogueAssumption
  <2>. QED
    BY <2>2 DEF UpdateTwins, InvalidTime, TypeInv, TypeOK
<1>8. Busy'
  <2>1. \A t \in AtBase : t \in Leaving \/ tStatus[t] = "RETURNING_TO_BASE"
    BY DEF AtBase, AtScene, Arrived, Moving
  <2>2. AtBase \in SUBSET Twin
    BY DEF AtBase, Arrived, Moving, Leaving
  <2>3. TypeInv /\ UpdateTwins
    OBVIOUS
  <2>. QED
    BY <1>1, <2>1, <2>2, <2>3 DEF UpdateTwins, TypeInv, TypeOK, Busy
<1>. QED
  BY <1>3, <1>4, <1>5, <1>6, <1>7, <1>8

\* One round over the emergencies at work (thread_updater.c:132-159).
LEMMA UpdateActiveTypes ==
    ASSUME TypeInv, UpdateActive
    PROVE  /\ status' \in [Emergency -> EmergencyStatus]
           /\ priority' \in [Emergency -> Level]
           /\ timeoutTimer' \in [Emergency -> Int]
           /\ promotionTimer' \in [Emergency -> Int]
           /\ wPc' \in [Worker -> WorkerPc]
           /\ \A w \in Worker : wPc'[w] \in Holding => wPc[w] \in Holding
<1>. DEFINE due == {e \in Promoting : promotionTimer[e] <= 0}
<1>1. \A e \in Emergency :
         /\ NextLevel(priority[e]) \in Level
         /\ TimeBeforePromotion[NextLevel(priority[e])] \in Int
         /\ TimeBeforeTimeout[NextLevel(priority[e])] \in Int
  BY NextLevelType DEF TypeInv, TypeOK
<1>2. priority' \in [Emergency -> Level]
  BY <1>1 DEF UpdateActive, TypeInv, TypeOK
<1>3. promotionTimer' \in [Emergency -> Int]
  BY <1>1 DEF UpdateActive, TypeInv, TypeOK
<1>4. timeoutTimer' \in [Emergency -> Int]
  <2>1. \A e \in Emergency : Decrement(timeoutTimer[e], NoTimeout) \in Int
    BY TableAssumption DEF Decrement, TypeInv, TypeOK
  <2>. QED
    BY <1>1, <2>1 DEF UpdateActive, TypeInv, TypeOK
<1>5. status' \in [Emergency -> EmergencyStatus]
  BY DEF UpdateActive, TypeInv, TypeOK, EmergencyStatus
<1>6. /\ wPc' \in [Worker -> WorkerPc]
      /\ \A w \in Worker : wPc'[w] \in Holding => wPc[w] \in Holding
  <2>1. wPc \in [Worker -> WorkerPc]
    BY DEF TypeInv, TypeOK
  <2>2. wPc' = Woken(Done)
    BY DEF UpdateActive
  <2>. QED
    BY <2>1, <2>2 DEF Woken, WorkerPc, Holding, Working
<1>. QED
  BY <1>2, <1>3, <1>4, <1>5, <1>6

\* The updater (thread_updater.c:12-40).
LEMMA UpdaterTypes == TypeInv /\ UpdaterStep => TypeInv'
<1>. SUFFICES ASSUME TypeInv, UpdaterStep PROVE TypeInv'
  OBVIOUS
<1>. USE DEF TypeInv, TypeOK, Known, Busy, emergencyVars, twinVars, storeVars,
             UpdaterPc
<1>1. CASE UpdaterLoop
  BY <1>1 DEF UpdaterLoop
<1>2. CASE UpdaterTick
  <2>1. UpdateTwins /\ UpdateActive
    BY <1>2 DEF UpdaterTick
  <2>2. /\ uPc' = "map"
        /\ UNCHANGED <<missing, queue, closed, completed, canceled, slot, stop,
                       received, wEm, uCarry, rPc, mPc>>
    BY <1>2 DEF UpdaterTick
  <2>3. TypeOK'
    BY <2>1, <2>2, UpdateTwinsTypes, UpdateActiveTypes
  <2>4. Known'
    BY <2>1, <2>2, UpdateTwinsTypes, UpdateActiveTypes
  <2>5. Busy'
    BY <2>1, UpdateTwinsTypes
  <2>. QED
    BY <2>3, <2>4, <2>5
<1>3. CASE UpdaterAstray
  BY <1>3, UndefinedTypes DEF UpdaterAstray
<1>4. CASE UpdaterMap
  <2>1. promotionTimer' \in [Emergency -> Int]
    <3>1. promotionTimer \in [Emergency -> Int]
      OBVIOUS
    <3>. QED
      BY <1>4, <3>1 DEF UpdaterMap
  <2>2. timeoutTimer' \in [Emergency -> Int]
    <3>1. timeoutTimer \in [Emergency -> Int]
      OBVIOUS
    <3>. QED
      BY <1>4, <3>1 DEF UpdaterMap
  <2>3. /\ uPc' = "expire"
        /\ UNCHANGED <<status, priority, missing, crew, notArrived, notDone,
                       twinVars, queue, closed, storeVars, slot, stop, received,
                       wPc, wEm, uCarry, rPc, mPc>>
    BY <1>4 DEF UpdaterMap
  <2>. QED
    BY <2>1, <2>2, <2>3
<1>5. CASE UpdaterExpire
  <2>0. PICK l \in Level : \E i \in 1 .. Len(queue[l]) :
            /\ queue' = PqExtract(queue, l, i)
            /\ status' = [status EXCEPT ![queue[l][i]] = "TIMEOUT"]
            /\ StoreCanceled(queue[l][i])
    BY <1>5 DEF UpdaterExpire
  <2>1. PICK i \in 1 .. Len(queue[l]) :
            /\ queue' = PqExtract(queue, l, i)
            /\ status' = [status EXCEPT ![queue[l][i]] = "TIMEOUT"]
            /\ StoreCanceled(queue[l][i])
    BY <2>0
  <2>2. queue[l][i] \in received /\ queue' \in [Level -> Seq(received)]
    BY <2>1, ExtractType
  <2>3. queue' \in [Level -> Seq(Emergency)]
    BY <2>2, <1>5, QueueGrows DEF UpdaterExpire
  <2>4. /\ status' \in [Emergency -> EmergencyStatus]
        /\ canceled' \in [Emergency -> Nat]
    <3>1. status' \in [Emergency -> EmergencyStatus]
      BY <2>1, <2>2 DEF EmergencyStatus
    <3>2. canceled' \in [Emergency -> Nat]
      BY <2>1, <2>2, StoreCanceledType
    <3>. QED
      BY <3>1, <3>2
  <2>. QED
    BY <1>5, <2>2, <2>3, <2>4 DEF UpdaterExpire, threadVars
<1>6. CASE UpdaterExpired
  BY <1>6 DEF UpdaterExpired
<1>7. CASE UpdaterExtract
  <2>0. PICK l \in Level : \E i \in 1 .. Len(queue[l]) :
            /\ queue' = PqExtract(queue, l, i)
            /\ uCarry' = queue[l][i]
    BY <1>7 DEF UpdaterExtract
  <2>1. PICK i \in 1 .. Len(queue[l]) :
            /\ queue' = PqExtract(queue, l, i)
            /\ uCarry' = queue[l][i]
    BY <2>0
  <2>2. queue[l][i] \in received /\ queue' \in [Level -> Seq(received)]
    BY <2>1, ExtractType
  <2>3. queue' \in [Level -> Seq(Emergency)]
    BY <2>2, QueueGrows
  <2>. QED
    BY <1>7, <2>1, <2>2, <2>3 DEF UpdaterExtract
<1>8. CASE UpdaterPromote
  <2>1. uCarry \in received /\ uCarry \in Emergency
    BY <1>8 DEF UpdaterPromote
  <2>2. \A e \in Emergency :
         /\ NextLevel(priority[e]) \in Level
         /\ TimeBeforePromotion[NextLevel(priority[e])] \in Int
         /\ TimeBeforeTimeout[NextLevel(priority[e])] \in Int
    BY NextLevelType
  <2>3. /\ priority' \in [Emergency -> Level]
        /\ promotionTimer' \in [Emergency -> Int]
        /\ timeoutTimer' \in [Emergency -> Int]
    BY <1>8, <2>2 DEF UpdaterPromote, Promote
  <2>4. queue' \in [Level -> Seq(received)]
    <3>1. NextLevel(priority[uCarry]) \in Int
      BY <2>1, <2>2, LevelsAssumption DEF Level
    <3>. QED
      BY <1>8, <2>1, <3>1, PushType DEF UpdaterPromote, PushWaiting
  <2>5. queue' \in [Level -> Seq(Emergency)]
    BY <2>4, QueueGrows
  <2>. QED
    BY <1>8, <2>3, <2>4, <2>5 DEF UpdaterPromote
<1>9. CASE UpdaterPromoted
  BY <1>9 DEF UpdaterPromoted
<1>. QED
  BY <1>1, <1>2, <1>3, <1>4, <1>5, <1>6, <1>7, <1>8, <1>9 DEF UpdaterStep

\* The main thread (main.c:67-91).
LEMMA MainTypes ==
    TypeInv /\ (MainStep \/ \E sig \in Signal : MainSignal(sig)) => TypeInv'
<1>. SUFFICES ASSUME TypeInv, MainStep \/ \E sig \in Signal : MainSignal(sig)
              PROVE  TypeInv'
  OBVIOUS
<1>. USE DEF TypeInv, TypeOK, Known, Busy, emergencyVars, twinVars, storeVars,
             MainPc
<1>1. ASSUME NEW sig \in Signal, MainSignal(sig)
      PROVE  TypeInv'
  BY <1>1 DEF MainSignal
<1>2. CASE MainCloseQueue
  BY <1>2 DEF MainCloseQueue
<1>3. CASE MainBroadcast
  BY <1>3 DEF MainBroadcast, Woken, WorkerPc, Holding, Working
<1>4. CASE MainJoin
  BY <1>4 DEF MainJoin
<1>. QED
  BY <1>1, <1>2, <1>3, <1>4 DEF MainStep

\* A step that changes nothing.
LEMMA StutterTypes == TypeInv /\ UNCHANGED vars => TypeInv'
BY DEF TypeInv, TypeOK, Known, Busy, vars, emergencyVars, twinVars, storeVars,
       threadVars

\* Every step of the server.
LEMMA NextTypes == TypeInv /\ [Next]_vars => TypeInv'
BY ReceiverTypes, WorkerTypes, FindTypes, UpdaterTypes, MainTypes, StutterTypes
DEF Next, Step, Over

\* TypeOK holds of every catalogue, map, table and number of threads: no
\* thread ever indexes an array by an emergency it does not have
\* (thread_worker.c:54-92, thread_updater.c:12-40).
THEOREM TypeCorrect == Spec => []TypeOK
<1>1. Init => TypeInv
  BY InitTypeInv
<1>2. TypeInv /\ [Next]_vars => TypeInv'
  BY NextTypes
<1>3. TypeInv => TypeOK
  BY DEF TypeInv
<1>. QED
  BY <1>1, <1>2, <1>3, PTL DEF Spec

-----------------------------------------------------------------------------
(***************************************************************************)
(* Twins and crews.                                                        *)
(***************************************************************************)

\* The first half of CrewConsistent; Busy is the second.
CrewsMatch == \A t \in Twin, e \in Emergency : t \in crew[e] <=> tEmergency[t] = e

\* The steps that touch neither a crew nor a counter nor what a twin does.
LEMMA CrewUntouched ==
    ASSUME [Next]_vars,
           ~ \E e \in Emergency : Receive(e),
           ~ \E w \in Worker : WorkerFind(w),
           ~ UpdaterTick
    PROVE  UNCHANGED <<crew, missing, notArrived, notDone, tStatus, tEmergency>>
<1>. USE DEF emergencyVars, twinVars
<1>1. CASE UNCHANGED vars
  BY <1>1 DEF vars
<1>2. CASE ReceiverStep
  BY <1>2 DEF ReceiverStep, ReceiverLoop, ReceiverDiscard, ReceiverStop
<1>3. ASSUME NEW w \in Worker, WorkerStep(w)
      PROVE  UNCHANGED <<crew, missing, notArrived, notDone, tStatus, tEmergency>>
  BY <1>3 DEF WorkerStep, WorkerLoop, WorkerPop, WorkerPopClosed, WorkerOpen,
       WorkerInner, WorkerFindNothing, WorkerFindFails, WorkerFindOverrun,
       WorkerWait, WorkerDispatch, WorkerComplete, WorkerTimeout,
       WorkerRelease, WorkerCancel, BecomeUndefined
<1>4. CASE UpdaterStep
  BY <1>4 DEF UpdaterStep, UpdaterLoop, UpdaterAstray, UpdaterMap,
       UpdaterExpire, UpdaterExpired, UpdaterExtract, UpdaterPromote,
       UpdaterPromoted, BecomeUndefined
<1>5. CASE MainStep \/ \E sig \in Signal : MainSignal(sig)
  BY <1>5 DEF MainStep, MainSignal, MainCloseQueue, MainBroadcast, MainJoin
<1>. QED
  BY <1>1, <1>2, <1>3, <1>4, <1>5 DEF Next, Step, Over

\* The three steps that change a crew change both sides.
LEMMA CrewsMatchNext == TypeInv /\ CrewsMatch /\ [Next]_vars => CrewsMatch'
<1>. SUFFICES ASSUME TypeInv, CrewsMatch, [Next]_vars PROVE CrewsMatch'
  OBVIOUS
<1>. USE DEF CrewsMatch
<1>1. ASSUME NEW e \in Emergency, Receive(e)
      PROVE  CrewsMatch'
  \* e is new, so that no twin works for it.
  <2>1. \A t \in Twin : tEmergency[t] # e
    BY <1>1, CardinalityAssumption DEF Receive, TypeInv, Known
  <2>. QED
    BY <1>1, <2>1 DEF Receive, Born, twinVars, TypeInv, TypeOK
<1>2. ASSUME NEW w \in Worker, WorkerFind(w)
      PROVE  CrewsMatch'
  <2>1. PICK C \in SUBSET Twin : Assign(wEm[w], C)
    BY <1>2 DEF WorkerFind, Candidates, Eligible
  <2>. QED
    BY <2>1 DEF Assign, TypeInv, TypeOK
<1>3. CASE UpdaterTick
  <2>1. UpdateTwins
    BY <1>3 DEF UpdaterTick
  <2>. QED
    BY <2>1, CardinalityAssumption DEF UpdateTwins, TypeInv, TypeOK
<1>4. CASE UNCHANGED <<crew, tEmergency>>
  BY <1>4
<1>. QED
  BY <1>1, <1>2, <1>3, <1>4, CrewUntouched

\* Twins and emergencies agree, whatever is stolen from whom, and however
\* often (thread_worker.c:177-198, 244-252; thread_updater.c:60-66).
THEOREM CrewsAgree == Spec => []CrewConsistent
<1>1. Init => TypeInv /\ CrewsMatch
  BY InitTypeInv, CardinalityAssumption DEF Init, CrewsMatch
<1>2. TypeInv /\ CrewsMatch /\ [Next]_vars => (TypeInv /\ CrewsMatch)'
  BY NextTypes, CrewsMatchNext
<1>3. TypeInv /\ CrewsMatch => CrewConsistent
  BY DEF TypeInv, Busy, CrewsMatch, CrewConsistent
<1>. QED
  BY <1>1, <1>2, <1>3, PTL DEF Spec

-----------------------------------------------------------------------------
(***************************************************************************)
(* The counters of an emergency.  Accounting is inductive once twins and   *)
(* crews agree: a theft moves a unit from the crew to the wanted, and the  *)
(* members of a crew that leave or arrive are those the updater counts.    *)
(***************************************************************************)

\* The candidates are as many as the rescuers that are missing.
LEMMA CandidatesCount ==
    ASSUME TypeInv, NEW e \in Emergency, NEW C \in Candidates(e)
    PROVE  /\ C \subseteq Twin /\ \A t \in C : tEmergency[t] # e
           /\ Cardinality(C) = Cardinality(Units(missing[e]))
<1>1. /\ C \subseteq Eligible(e)
      /\ \A r \in RescuerType : Cardinality(OfType(C, r)) = missing[e][r]
  BY DEF Candidates
<1>2. C \subseteq Twin /\ \A t \in C : tEmergency[t] # e
  BY <1>1 DEF Eligible
<1>3. missing[e] \in [RescuerType -> Nat]
  BY DEF TypeInv, TypeOK
<1>. QED
  BY <1>1, <1>2, <1>3, UnitsCountMembers

\* A new request wants everybody and has nobody (thread_reciever.c:45-94).
LEMMA AccountingReceive ==
    ASSUME TypeInv, Accounting, NEW e \in Emergency, Receive(e)
    PROVE  Accounting'
<1>1. Born(e) /\ tStatus' = tStatus
  BY DEF Receive, twinVars
<1>2. ASSUME NEW o \in Emergency
      PROVE  LET wanted == Cardinality(Units(missing'[o]))
                 onTheWay == {t \in crew'[o] : tStatus'[t] = "EN_ROUTE_TO_SCENE"}
             IN  /\ notDone'[o] = Cardinality(crew'[o]) + wanted
                 /\ notArrived'[o] = Cardinality(onTheWay) + wanted
  <2>1. CASE o = e
    <3>1. /\ missing'[o] = Required[e] /\ crew'[o] = {}
          /\ notArrived'[o] = RescuerCount(e) /\ notDone'[o] = RescuerCount(e)
      BY <1>1, <2>1 DEF Born, TypeInv, TypeOK
    <3>2. {t \in crew'[o] : tStatus'[t] = "EN_ROUTE_TO_SCENE"} = {}
      BY <3>1
    <3>3. RescuerCount(e) = Cardinality(Units(missing'[o])) /\ RescuerCount(e) \in Nat
      BY <3>1, CatalogueTypes, UnitsFinite DEF RescuerCount
    <3>. QED
      BY <3>1, <3>2, <3>3, FS_EmptySet
  <2>2. CASE o # e
    <3>1. /\ missing'[o] = missing[o] /\ crew'[o] = crew[o]
          /\ notArrived'[o] = notArrived[o] /\ notDone'[o] = notDone[o]
      BY <1>1, <2>2 DEF Born, TypeInv, TypeOK
    <3>. QED
      BY <1>1, <3>1 DEF Accounting
  <2>. QED
    BY <2>1, <2>2
<1>. QED
  BY <1>2 DEF Accounting

\* A dispatch moves units from the wanted to the crew of the worker's
\* emergency, and the other way round where a twin is taken from
\* (thread_worker.c:177-198, 244-262).
LEMMA AccountingFind ==
    ASSUME TypeInv, CrewsMatch, Accounting, NEW w \in Worker, WorkerFind(w)
    PROVE  Accounting'
<1>. DEFINE e == wEm[w]
            OnWay(S) == {t \in S : tStatus[t] = "EN_ROUTE_TO_SCENE"}
            There(S) == {t \in S : tStatus[t] = "ON_SCENE"}
<1>1. e \in Emergency
  BY DEF WorkerFind, TypeInv, Known, TypeOK, Holding, Working
<1>2. PICK C \in Candidates(e) :
          Preempt(e, C) /\ Assign(e, C) /\ Send(e, C)
  BY DEF WorkerFind
<1>3. notDone' = notDone
  BY DEF WorkerFind
<1>. HIDE DEF e
<1>4. /\ C \subseteq Twin /\ \A t \in C : tEmergency[t] # e
      /\ Cardinality(C) = Cardinality(Units(missing[e]))
  BY <1>1, CandidatesCount
<1>5. /\ crew \in [Emergency -> SUBSET Twin]
      /\ missing \in [Emergency -> [RescuerType -> Nat]]
      /\ notArrived \in [Emergency -> Int]
      /\ tStatus \in [Twin -> RescuerStatus]
  BY DEF TypeInv, TypeOK
<1>6. \A t \in Twin : tStatus'[t] = IF t \in C THEN "EN_ROUTE_TO_SCENE" ELSE tStatus[t]
  BY <1>2 DEF Send
<1>7. \A o \in Emergency : crew'[o] = IF o = e THEN crew[e] \cup C ELSE crew[o] \ C
  BY <1>2 DEF Assign
<1>8. \A o \in Emergency : notArrived'[o] = notArrived[o] + Cardinality(There(Stolen(C, o)))
  BY <1>2 DEF Preempt
<1>9. \A o \in Emergency : Stolen(C, o) = crew[o] \cap C
  BY <1>4 DEF CrewsMatch, Stolen
\* Where the twins go to.
<1>10. /\ notDone'[e] = Cardinality(crew'[e]) + Cardinality(Units(missing'[e]))
       /\ notArrived'[e] = Cardinality({t \in crew'[e] :
                                  tStatus'[t] = "EN_ROUTE_TO_SCENE"})
                           + Cardinality(Units(missing'[e]))
  <2>1. missing'[e] = NoDemand /\ NoDemand \in [RescuerType -> Nat]
    BY <1>1, <1>2 DEF Preempt, NoDemand
  <2>2. Cardinality(Units(missing'[e])) = 0
    BY <2>1, NoUnits
  <2>3. Stolen(C, e) = {} /\ There(Stolen(C, e)) = {}
    BY <1>4 DEF Stolen
  <2>4. crew[e] \cap C = {} /\ crew[e] \subseteq Twin
    BY <1>1, <1>5, <1>9, <2>3
  <2>5. Cardinality(crew'[e]) = Cardinality(crew[e]) + Cardinality(C)
    BY <1>1, <1>4, <1>7, <2>4, CountJoin
  <2>6. {t \in crew'[e] : tStatus'[t] = "EN_ROUTE_TO_SCENE"} = OnWay(crew[e]) \cup C
    BY <1>1, <1>4, <1>6, <1>7, <2>4
  <2>7. Cardinality(OnWay(crew[e]) \cup C) = Cardinality(OnWay(crew[e])) + Cardinality(C)
    <3>1. OnWay(crew[e]) \subseteq Twin /\ OnWay(crew[e]) \cap C = {}
      BY <2>4
    <3>. QED
      BY <1>4, <3>1, CountJoin
  <2>8. notArrived'[e] = notArrived[e]
    <3>1. Cardinality(There(Stolen(C, e))) = 0 /\ notArrived[e] \in Int
      BY <1>1, <1>5, <2>3, FS_EmptySet
    <3>. QED
      BY <1>1, <1>8, <3>1
  <2>9. /\ notDone[e] = Cardinality(crew[e]) + Cardinality(Units(missing[e]))
        /\ notArrived[e] = Cardinality(OnWay(crew[e])) + Cardinality(Units(missing[e]))
    BY <1>1 DEF Accounting
  <2>10. /\ Cardinality(crew[e]) \in Nat /\ Cardinality(OnWay(crew[e])) \in Nat
         /\ Cardinality(C) \in Nat
    BY <1>4, <2>4, TwinsFinite
  <2>. HIDE DEF OnWay, There
  <2>. QED
    BY <1>3, <1>4, <2>2, <2>5, <2>6, <2>7, <2>8, <2>9, <2>10
\* Where they come from.
<1>11. ASSUME NEW o \in Emergency, o # e
       PROVE  /\ notDone'[o] = Cardinality(crew'[o]) + Cardinality(Units(missing'[o]))
              /\ notArrived'[o] = Cardinality({t \in crew'[o] :
                                         tStatus'[t] = "EN_ROUTE_TO_SCENE"})
                                  + Cardinality(Units(missing'[o]))
  <2>. DEFINE S == Stolen(C, o)
              k == [r \in RescuerType |-> Cardinality(OfType(S, r))]
  <2>1. S = crew[o] \cap C /\ S \subseteq crew[o] /\ crew[o] \subseteq Twin
    BY <1>5, <1>9
  <2>2. k \in [RescuerType -> Nat] /\ \A r \in RescuerType : Cardinality(OfType(S, r)) = k[r]
    BY <2>1, TwinsFinite DEF OfType
  <2>3. /\ missing'[o] \in [RescuerType -> Nat]
        /\ \A r \in RescuerType : missing'[o][r] = missing[o][r] + k[r]
    <3>1. missing'[o] = [r \in RescuerType |-> missing[o][r] + Cardinality(OfType(S, r))]
      BY <1>2, <1>11 DEF Preempt
    <3>. HIDE DEF S
    <3>2. missing[o] \in [RescuerType -> Nat]
      BY <1>5
    <3>. QED
      BY <2>2, <3>1, <3>2
  <2>. HIDE DEF S, k
  <2>4. Cardinality(Units(missing'[o]))
          = Cardinality(Units(missing[o])) + Cardinality(S)
    <3>1. missing[o] \in [RescuerType -> Nat]
      BY <1>5
    <3>2. Cardinality(Units(k)) = Cardinality(S)
      BY <2>1, <2>2, UnitsCountMembers
    <3>. QED
      BY <2>2, <2>3, <3>1, <3>2, UnitsAdd
  <2>5. Cardinality(crew'[o]) = Cardinality(crew[o]) - Cardinality(S)
    <3>1. crew'[o] = crew[o] \ S
      BY <1>7, <1>11, <2>1
    <3>. QED
      BY <2>1, <3>1, CountLeave
  <2>6. {t \in crew'[o] : tStatus'[t] = "EN_ROUTE_TO_SCENE"} = OnWay(crew[o]) \ OnWay(S)
    BY <1>6, <1>7, <1>11, <2>1
  <2>7. Cardinality(OnWay(crew[o]) \ OnWay(S))
          = Cardinality(OnWay(crew[o])) - Cardinality(OnWay(S))
    <3>1. OnWay(S) \subseteq OnWay(crew[o]) /\ OnWay(crew[o]) \subseteq Twin
      BY <2>1
    <3>. QED
      BY <3>1, CountLeave
  \* A stolen twin is on its way or there.
  <2>8. Cardinality(S) = Cardinality(OnWay(S)) + Cardinality(There(S))
    <3>1. \A t \in S : tEmergency[t] = o
      BY DEF S, Stolen
    <3>2. \A t \in S : tStatus[t] \in {"EN_ROUTE_TO_SCENE", "ON_SCENE"}
      BY <2>1, <3>1, CardinalityAssumption DEF TypeInv, Busy
    <3>3. S = OnWay(S) \cup There(S) /\ OnWay(S) \cap There(S) = {}
      BY <3>2
    <3>4. OnWay(S) \subseteq Twin /\ There(S) \subseteq Twin
      BY <2>1
    <3>5. Cardinality(OnWay(S) \cup There(S)) = Cardinality(OnWay(S)) + Cardinality(There(S))
      BY <3>3, <3>4, CountJoin
    <3>. QED
      BY <3>3, <3>5
  <2>9. notArrived'[o] = notArrived[o] + Cardinality(There(S))
    BY <1>8 DEF S
  <2>10. /\ notDone[o] = Cardinality(crew[o]) + Cardinality(Units(missing[o]))
         /\ notArrived[o] = Cardinality(OnWay(crew[o])) + Cardinality(Units(missing[o]))
    BY DEF Accounting
  <2>11. /\ Cardinality(crew[o]) \in Nat /\ Cardinality(OnWay(crew[o])) \in Nat
         /\ Cardinality(S) \in Nat /\ Cardinality(OnWay(S)) \in Nat
         /\ Cardinality(There(S)) \in Nat
    BY <2>1, TwinsFinite
  <2>12. Cardinality(Units(missing[o])) \in Nat
    BY <1>5, UnitsFinite
  <2>13. notDone'[o] = Cardinality(crew'[o]) + Cardinality(Units(missing'[o]))
    BY <1>3, <2>4, <2>5, <2>10, <2>11, <2>12
  <2>14. Cardinality({t \in crew'[o] : tStatus'[t] = "EN_ROUTE_TO_SCENE"})
           = Cardinality(OnWay(crew[o])) - Cardinality(OnWay(S))
    BY <2>6, <2>7
  <2>. HIDE DEF OnWay, There
  <2>. QED
    BY <2>4, <2>8, <2>9, <2>10, <2>11, <2>12, <2>13, <2>14
<1>. QED
  BY <1>10, <1>11 DEF Accounting

\* A round of the updater counts off those who arrive and those who leave
\* (thread_updater.c:60-66, 98-104).
LEMMA AccountingTick ==
    ASSUME TypeInv, CrewsMatch, Accounting, UpdaterTick
    PROVE  Accounting'
<1>. DEFINE OnWay(S) == {t \in S : tStatus[t] = "EN_ROUTE_TO_SCENE"}
<1>1. UpdateTwins /\ missing' = missing
  BY DEF UpdaterTick
<1>2. SUFFICES ASSUME NEW e \in Emergency
               PROVE  /\ notDone'[e] = Cardinality(crew'[e])
                                       + Cardinality(Units(missing[e]))
                      /\ notArrived'[e] = Cardinality({t \in crew'[e] :
                                                 tStatus'[t] = "EN_ROUTE_TO_SCENE"})
                                          + Cardinality(Units(missing[e]))
  BY <1>1 DEF Accounting
<1>3. /\ crew[e] \subseteq Twin /\ crew'[e] = crew[e] \ Leaving
      /\ notDone[e] \in Int /\ notArrived[e] \in Int
      /\ notDone'[e] = notDone[e] - Cardinality(Stolen(Leaving, e))
      /\ notArrived'[e] = notArrived[e] - Cardinality(Stolen(AtScene, e))
  BY <1>1 DEF UpdateTwins, TypeInv, TypeOK
<1>4. /\ \A t \in Leaving : t \in Twin /\ tStatus[t] = "ON_SCENE"
      /\ \A t \in AtScene : t \in Twin /\ tStatus[t] = "EN_ROUTE_TO_SCENE"
      /\ \A t \in AtBase : t \in Leaving \/ tStatus[t] = "RETURNING_TO_BASE"
  BY DEF Leaving, AtBase, AtScene, Arrived, Moving
<1>5. /\ Stolen(Leaving, e) = crew[e] \cap Leaving
      /\ Stolen(AtScene, e) = crew[e] \cap AtScene
  BY <1>4 DEF CrewsMatch, Stolen
<1>6. \A t \in Twin : tStatus'[t] = "EN_ROUTE_TO_SCENE"
                      <=> tStatus[t] = "EN_ROUTE_TO_SCENE" /\ t \notin AtScene
  <2>1. \A t \in Twin : tStatus'[t] =
            IF t \in AtScene THEN "ON_SCENE"
            ELSE IF t \in AtBase THEN "IDLE"
            ELSE IF t \in Leaving THEN "RETURNING_TO_BASE"
            ELSE tStatus[t]
    BY <1>1 DEF UpdateTwins
  <2>. QED
    BY <1>4, <2>1
<1>7. Cardinality(crew'[e]) = Cardinality(crew[e]) - Cardinality(Stolen(Leaving, e))
  <2>1. crew'[e] = crew[e] \ Stolen(Leaving, e) /\ Stolen(Leaving, e) \subseteq crew[e]
    BY <1>3, <1>5
  <2>. QED
    BY <1>3, <2>1, CountLeave
<1>8. {t \in crew'[e] : tStatus'[t] = "EN_ROUTE_TO_SCENE"}
        = OnWay(crew[e]) \ Stolen(AtScene, e)
  BY <1>3, <1>4, <1>5, <1>6
<1>9. Cardinality(OnWay(crew[e]) \ Stolen(AtScene, e))
        = Cardinality(OnWay(crew[e])) - Cardinality(Stolen(AtScene, e))
  <2>1. Stolen(AtScene, e) \subseteq OnWay(crew[e]) /\ OnWay(crew[e]) \subseteq Twin
    BY <1>3, <1>4, <1>5
  <2>. QED
    BY <2>1, CountLeave
<1>10. /\ notDone[e] = Cardinality(crew[e]) + Cardinality(Units(missing[e]))
       /\ notArrived[e] = Cardinality(OnWay(crew[e])) + Cardinality(Units(missing[e]))
  BY DEF Accounting
<1>11. /\ Cardinality(crew[e]) \in Nat /\ Cardinality(OnWay(crew[e])) \in Nat
       /\ Cardinality(Stolen(Leaving, e)) \in Nat
       /\ Cardinality(Stolen(AtScene, e)) \in Nat
  BY <1>3, <1>5, TwinsFinite
<1>12. Cardinality(Units(missing[e])) \in Nat
  BY UnitsFinite DEF TypeInv, TypeOK
<1>13. notDone'[e] = Cardinality(crew'[e]) + Cardinality(Units(missing[e]))
  BY <1>3, <1>7, <1>10, <1>11, <1>12
<1>14. Cardinality({t \in crew'[e] : tStatus'[t] = "EN_ROUTE_TO_SCENE"})
         = Cardinality(OnWay(crew[e])) - Cardinality(Stolen(AtScene, e))
  BY <1>8, <1>9
<1>. HIDE DEF OnWay
<1>. QED
  BY <1>3, <1>10, <1>11, <1>12, <1>13, <1>14

\* The other steps touch neither side.
LEMMA AccountingNext ==
    TypeInv /\ CrewsMatch /\ Accounting /\ [Next]_vars => Accounting'
<1>. SUFFICES ASSUME TypeInv, CrewsMatch, Accounting, [Next]_vars
              PROVE  Accounting'
  OBVIOUS
<1>1. CASE UNCHANGED <<crew, missing, notArrived, notDone, tStatus, tEmergency>>
  BY <1>1 DEF Accounting
<1>. QED
  BY <1>1, AccountingReceive, AccountingFind, AccountingTick, CrewUntouched

\* Nobody is wanted yet.
LEMMA InitAccounting == Init => Accounting
<1>. SUFFICES ASSUME Init, NEW e \in Emergency
              PROVE  LET wanted == Cardinality(Units(missing[e]))
                         onTheWay == {t \in crew[e] : tStatus[t] = "EN_ROUTE_TO_SCENE"}
                     IN  /\ notDone[e] = Cardinality(crew[e]) + wanted
                         /\ notArrived[e] = Cardinality(onTheWay) + wanted
  BY DEF Accounting
<1>1. /\ missing[e] = NoDemand /\ NoDemand \in [RescuerType -> Nat]
      /\ crew[e] = {} /\ notDone[e] = 0 /\ notArrived[e] = 0
  BY DEF Init, NoDemand
<1>2. {t \in crew[e] : tStatus[t] = "EN_ROUTE_TO_SCENE"} = {}
  BY <1>1
<1>. QED
  BY <1>1, <1>2, NoUnits, FS_EmptySet

\* rescuers_not_done_yet and rescuers_not_arrived_yet count what their names
\* say, through every dispatch, theft, arrival and departure, for any
\* catalogue and any number of threads (thread_worker.c:177-198, 244-262;
\* thread_updater.c:60-66, 98-104).
THEOREM CountersCount == Spec => []Accounting
<1>. DEFINE Inv == TypeInv /\ CrewsMatch /\ Accounting
<1>1. Init => Inv
  BY InitTypeInv, InitAccounting, CardinalityAssumption DEF Init, CrewsMatch
<1>2. Inv /\ [Next]_vars => Inv'
  BY NextTypes, CrewsMatchNext, AccountingNext
<1>3. Inv => Accounting
  OBVIOUS
<1>. QED
  BY <1>1, <1>2, <1>3, PTL DEF Spec

\* What rescuer_twins holds and what is still wanted fit its rescuer_count
\* entries; nothing is held or wanted before the request is received.
CrewFits == \A e \in Emergency :
    /\ e \in received => notDone[e] <= RescuerCount(e)
    /\ e \notin received => notDone[e] = 0

\* A search reads past its candidates exactly when a rescuer of the emergency
\* has finished already: its entry of rescuer_twins is NULL, and nobody is
\* wanted for it.
OverrunAfterDeparture ==
    \A e \in received : \A C \in Candidates(e) :
        EmptyEntries(e) > Cardinality(C)
        <=> Cardinality(crew[e]) + Cardinality(Units(missing[e])) < RescuerCount(e)

\* rescuers_not_done_yet starts at rescuer_count and is only counted down.
LEMMA CrewFitsNext == TypeInv /\ CrewFits /\ [Next]_vars => CrewFits'
<1>. SUFFICES ASSUME TypeInv, CrewFits, [Next]_vars PROVE CrewFits'
  OBVIOUS
<1>0. \A e \in Emergency : notDone[e] \in Int /\ RescuerCount(e) \in Nat
  BY CatalogueTypes, UnitsFinite DEF TypeInv, TypeOK, RescuerCount
<1>1. ASSUME NEW e \in Emergency, Receive(e)
      PROVE  CrewFits'
  <2>1. /\ received' = received \cup {e}
        /\ notDone' = [notDone EXCEPT ![e] = RescuerCount(e)]
    BY <1>1 DEF Receive, Born
  <2>2. \A o \in Emergency : notDone'[o] = IF o = e THEN RescuerCount(e) ELSE notDone[o]
    BY <2>1 DEF TypeInv, TypeOK
  <2>. QED
    BY <1>0, <2>1, <2>2 DEF CrewFits
<1>2. CASE UpdaterTick
  <2>1. UpdateTwins /\ received' = received
    BY <1>2 DEF UpdaterTick
  <2>2. ASSUME NEW e \in Emergency
        PROVE  /\ notDone'[e] <= notDone[e]
               /\ e \notin received => notDone'[e] = notDone[e]
    <3>1. notDone'[e] = notDone[e] - Cardinality(Stolen(Leaving, e))
      BY <2>1 DEF UpdateTwins
    <3>2. Stolen(Leaving, e) \subseteq Twin
      BY DEF Stolen, Leaving
    <3>3. Cardinality(Stolen(Leaving, e)) \in Nat
      BY <3>2, TwinsFinite
    <3>4. e \notin received => Cardinality(Stolen(Leaving, e)) = 0
      <4>1. e \notin received => Stolen(Leaving, e) = {}
        BY CardinalityAssumption DEF Stolen, Leaving, TypeInv, Known
      <4>. QED
        BY <4>1, FS_EmptySet
    <3>. QED
      BY <1>0, <3>1, <3>3, <3>4
  <2>3. notDone' \in [Emergency -> Int]
    BY <2>1, UpdateTwinsTypes
  <2>. QED
    BY <1>0, <2>1, <2>2, <2>3 DEF CrewFits
<1>3. CASE UNCHANGED <<notDone, received>>
  BY <1>3 DEF CrewFits
<1>4. ASSUME ~ \E e \in Emergency : Receive(e), ~ UpdaterTick
      PROVE  UNCHANGED <<notDone, received>>
  <2>1. CASE \E w \in Worker : WorkerFind(w)
    BY <2>1 DEF WorkerFind
  <2>2. CASE ~ \E w \in Worker : WorkerFind(w)
    <3>1. notDone' = notDone
      BY <1>4, <2>2, CrewUntouched
    <3>2. received' = received
      BY <1>4 DEF Next, Step, Over, vars, ReceiverStep, ReceiverLoop, ReceiverDiscard,
         ReceiverStop, WorkerStep, WorkerLoop, WorkerPop, WorkerPopClosed, WorkerOpen,
         WorkerInner, WorkerFindNothing, WorkerFindFails, WorkerFindOverrun,
         WorkerFind, WorkerWait, WorkerDispatch, WorkerComplete, WorkerTimeout,
         WorkerRelease, WorkerCancel, BecomeUndefined, UpdaterStep, UpdaterLoop,
         UpdaterAstray, UpdaterMap, UpdaterExpire, UpdaterExpired, UpdaterExtract,
         UpdaterPromote, UpdaterPromoted, MainStep, MainSignal, MainCloseQueue,
         MainBroadcast, MainJoin
    <3>. QED
      BY <3>1, <3>2
  <2>. QED
    BY <2>1, <2>2
<1>. QED
  BY <1>1, <1>2, <1>3, <1>4

\* The members of a crew and the rescuers it wants never need more entries
\* than rescuer_twins has, however often twins are stolen and replaced, and
\* the search reads past its candidates in no other case than the one of the
\* run candidates_overread (thread_worker.c:244-252, thread_reciever.c:66).
THEOREM EntriesSuffice ==
    Spec => [](OverrunAfterDeparture
               /\ \A e \in received : Cardinality(crew[e])
                        + Cardinality(Units(missing[e])) <= RescuerCount(e))
<1>. DEFINE Inv == TypeInv /\ CrewsMatch /\ Accounting /\ CrewFits
            Fits == \A e \in received : Cardinality(crew[e])
                        + Cardinality(Units(missing[e])) <= RescuerCount(e)
<1>1. Init => Inv
  BY InitTypeInv, InitAccounting, CardinalityAssumption
  DEF Init, CrewsMatch, CrewFits
<1>2. Inv /\ [Next]_vars => Inv'
  BY NextTypes, CrewsMatchNext, AccountingNext, CrewFitsNext
<1>3. Inv => OverrunAfterDeparture /\ Fits
  <2>. SUFFICES ASSUME Inv, NEW e \in received
                PROVE  /\ Cardinality(crew[e]) + Cardinality(Units(missing[e]))
                             <= RescuerCount(e)
                       /\ \A C \in Candidates(e) :
                             EmptyEntries(e) > Cardinality(C)
                             <=> Cardinality(crew[e]) + Cardinality(Units(missing[e]))
                                    < RescuerCount(e)
    BY DEF OverrunAfterDeparture
  <2>1. /\ e \in Emergency /\ crew[e] \subseteq Twin
        /\ missing[e] \in [RescuerType -> Nat]
    BY DEF TypeInv, TypeOK
  <2>2. /\ Cardinality(crew[e]) \in Nat /\ Cardinality(Units(missing[e])) \in Nat
        /\ RescuerCount(e) \in Nat
    BY <2>1, TwinsFinite, UnitsFinite, CatalogueTypes DEF RescuerCount
  <2>3. Cardinality(crew[e]) + Cardinality(Units(missing[e])) <= RescuerCount(e)
    BY <2>1 DEF Accounting, CrewFits
  <2>4. \A C \in Candidates(e) : Cardinality(C) = Cardinality(Units(missing[e]))
    BY <2>1, CandidatesCount
  <2>. QED
    BY <2>2, <2>3, <2>4 DEF EmptyEntries
<1>. QED
  BY <1>1, <1>2, <1>3, PTL DEF Spec
=============================================================================
