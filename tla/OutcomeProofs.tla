---------------------------- MODULE OutcomeProofs ----------------------------
(***************************************************************************)
(* What becomes of an emergency in RescueServer: it waits at the level of  *)
(* its priority and never longer than its timers allow, no wake-up of its  *)
(* worker is lost, it is neither lost nor duplicated on its way, it lives  *)
(* the life of EmergencyLife, and it is declared complete only once it has *)
(* been served.  All of it rests on OwnershipProofs: an emergency is in    *)
(* one pair of hands.                                                      *)
(***************************************************************************)
EXTENDS OwnershipProofs

\* The steps that neither touch the queue nor a priority or a timer.
LEMMA QueueUntouched ==
    ASSUME [Next]_vars,
           ~ \E e \in Emergency : Receive(e),
           ~ \E w \in Worker : WorkerPop(w),
           ~ UpdaterTick, ~ UpdaterMap, ~ UpdaterExpire, ~ UpdaterExtract,
           ~ UpdaterPromote
    PROVE  UNCHANGED <<queue, priority, timeoutTimer, promotionTimer>>
<1>. USE DEF emergencyVars
<1>1. CASE UNCHANGED vars
  BY <1>1 DEF vars
<1>2. CASE ReceiverStep
  BY <1>2 DEF ReceiverStep, ReceiverLoop, ReceiverDiscard, ReceiverStop
<1>3. ASSUME NEW w \in Worker, WorkerStep(w)
      PROVE  UNCHANGED <<queue, priority, timeoutTimer, promotionTimer>>
  BY <1>3 DEF WorkerStep, WorkerLoop, WorkerPopClosed, WorkerOpen, WorkerInner,
       WorkerFindNothing, WorkerFindFails, WorkerFindOverrun, WorkerFind,
       WorkerWait, WorkerDispatch, WorkerComplete, WorkerTimeout,
       WorkerRelease, WorkerCancel, BecomeUndefined
<1>4. CASE UpdaterStep
  BY <1>4 DEF UpdaterStep, UpdaterLoop, UpdaterAstray, UpdaterExpired,
       UpdaterPromoted, BecomeUndefined
<1>5. CASE MainStep \/ \E sig \in Signal : MainSignal(sig)
  BY <1>5 DEF MainStep, MainSignal, MainCloseQueue, MainBroadcast, MainJoin
<1>. QED
  BY <1>1, <1>2, <1>3, <1>4, <1>5 DEF Next, Step, Over

\* Nobody but the updater changes its phase.
LEMMA UpdaterPhase ==
    ASSUME [Next]_vars, ~ UpdaterStep
    PROVE  uPc' \in {uPc, "undefined"}
<1>1. CASE UNCHANGED vars
  BY <1>1 DEF vars, threadVars
<1>2. CASE ReceiverStep
  BY <1>2 DEF ReceiverStep, ReceiverLoop, ReceiverDiscard, ReceiverStop, Receive
<1>3. ASSUME NEW w \in Worker, WorkerStep(w)
      PROVE  uPc' \in {uPc, "undefined"}
  BY <1>3 DEF WorkerStep, WorkerLoop, WorkerPop, WorkerPopClosed, WorkerOpen,
       WorkerInner, WorkerFindNothing, WorkerFindFails, WorkerFindOverrun,
       WorkerFind, WorkerWait, WorkerDispatch, WorkerComplete, WorkerTimeout,
       WorkerRelease, WorkerCancel, BecomeUndefined
<1>4. CASE MainStep \/ \E sig \in Signal : MainSignal(sig)
  BY <1>4 DEF MainStep, MainSignal, MainCloseQueue, MainBroadcast, MainJoin
<1>. QED
  BY <1>1, <1>2, <1>3, <1>4 DEF Next, Step, Over


\* The queue is empty at the start.
LEMMA NoneQueued == Init => PqItems(queue) = {}
<1>. SUFFICES ASSUME Init PROVE PqItems(queue) = {}
  OBVIOUS
<1>1. queue \in [Level -> Seq(Emergency)] /\ \A l \in Level : Len(queue[l]) = 0
  BY DEF Init, PqEmpty
<1>. QED
  BY <1>1, Places

-----------------------------------------------------------------------------
(***************************************************************************)
(* The levels of the queue.  The updater ages and promotes the emergencies *)
(* in the slots by their priority alone, and those in the queue by taking  *)
(* them out; an emergency in both would change its priority and keep its   *)
(* level.  SlotOwned says nothing of the slot of a worker that is stopping *)
(* or undefined: SlotHeld does.                                            *)
(***************************************************************************)
SlotHeld ==
    /\ \A w \in Worker : slot[w] # NoEmergency =>
           slot[w] = wEm[w] /\ wPc[w] \in Holding \cup {"undefined"}
    /\ \A w \in Worker : wPc[w] = "undefined" => uPc = "undefined"

LevelInv == OwnInv /\ SlotHeld /\ QueuedAtItsLevel

\* A worker opens its slot with what it holds, and closes it before it takes
\* something else (thread_worker.c:7, 33, 55, 90).
LEMMA SlotHeldNext == TypeInv /\ SlotHeld /\ [Next]_vars => SlotHeld'
<1>. SUFFICES ASSUME TypeInv, SlotHeld, [Next]_vars PROVE SlotHeld'
  OBVIOUS
<1>0. /\ wPc \in [Worker -> WorkerPc]
      /\ wEm \in [Worker -> Emergency \cup {NoEmergency}]
      /\ slot \in [Worker -> Emergency \cup {NoEmergency}]
  BY DEF TypeInv, TypeOK
<1>. USE <1>0 DEF SlotHeld, Holding, Working
<1>1. CASE UNCHANGED vars
  BY <1>1 DEF vars, threadVars
<1>2. CASE ReceiverStep
  BY <1>2 DEF ReceiverStep, ReceiverLoop, ReceiverDiscard, ReceiverStop, Receive
<1>3. ASSUME NEW w \in Worker, WorkerStep(w)
      PROVE  SlotHeld'
  <2>1. CASE WorkerFindOverrun(w)
    BY <2>1 DEF WorkerFindOverrun, BecomeUndefined
  <2>2. CASE WorkerFind(w)
    <3>1. PICK C \in SUBSET Twin :
              wPc' = [Woken(NewlyPaused(C)) EXCEPT ![w] = "wait"]
      BY <2>2 DEF WorkerFind, Candidates, Eligible
    <3>2. wPc[w] = "find" /\ UNCHANGED <<slot, wEm, uPc>>
      BY <2>2 DEF WorkerFind
    <3>. QED
      BY <3>1, <3>2 DEF Woken
  <2>3. CASE WorkerPop(w)
    <3>1. PICK e : wEm' = [wEm EXCEPT ![w] = e]
      BY <2>3 DEF WorkerPop
    <3>. QED
      BY <2>3, <3>1 DEF WorkerPop, Goto
  <2>4. CASE WorkerLoop(w) \/ WorkerPopClosed(w)
    BY <2>4 DEF WorkerLoop, WorkerPopClosed, Goto
  <2>5. CASE WorkerInner(w) \/ WorkerFindNothing(w) \/ WorkerFindFails(w)
             \/ WorkerWait(w) \/ WorkerDispatch(w)
    BY <2>5 DEF WorkerInner, WorkerFindNothing, WorkerFindFails, WorkerWait,
         WorkerDispatch, Goto
  <2>6. CASE WorkerOpen(w)
    BY <2>6 DEF WorkerOpen, Goto
  <2>7. CASE WorkerComplete(w) \/ WorkerTimeout(w) \/ WorkerCancel(w)
    BY <2>7 DEF WorkerComplete, WorkerTimeout, WorkerCancel, StoreAs, Goto
  <2>8. CASE WorkerRelease(w)
    BY <2>8 DEF WorkerRelease, Goto
  <2>. QED
    BY <1>3, <2>1, <2>2, <2>3, <2>4, <2>5, <2>6, <2>7, <2>8 DEF WorkerStep
<1>4. CASE UpdaterTick
  <2>1. wPc' = Woken(Done) /\ UNCHANGED <<slot, wEm>> /\ uPc = "tick"
    BY <1>4 DEF UpdaterTick, UpdateActive
  <2>. QED
    BY <2>1 DEF Woken
<1>5. CASE UpdaterStep /\ ~ UpdaterTick
  BY <1>5 DEF UpdaterStep, UpdaterLoop, UpdaterAstray, UpdaterMap, UpdaterExpire,
       UpdaterExpired, UpdaterExtract, UpdaterPromote, UpdaterPromoted,
       BecomeUndefined, threadVars
<1>6. CASE MainStep \/ \E sig \in Signal : MainSignal(sig)
  <2>1. UNCHANGED <<slot, wEm, uPc>> /\ (wPc' = wPc \/ wPc' = Woken(Active))
    BY <1>6 DEF MainStep, MainSignal, MainCloseQueue, MainBroadcast, MainJoin
  <2>. QED
    BY <2>1 DEF Woken
<1>. QED
  BY <1>1, <1>2, <1>3, <1>4, <1>5, <1>6 DEF Next, Step, Over

\* While the updater runs, what is in a slot is not in the queue.
LEMMA ActiveNotQueued ==
    ASSUME OwnInv, SlotHeld, uPc # "undefined"
    PROVE  Active \cap PqItems(queue) = {}
BY DEF OwnInv, SlotHeld, OneOwner, Active

\* Every item of q is at the level p gives it.
AtLevels(q, p) == \A l \in Level : \A i \in 1 .. Len(q[l]) : p[q[l][i]] = l

\* pq_push at the level of the item's priority.
LEMMA PushAtLevel ==
    ASSUME NEW S, NEW q \in [Level -> Seq(S)], NEW e \in S, NEW k \in Level,
           NEW p, p[e] = k, AtLevels(q, p)
    PROVE  AtLevels(PqPush(q, e, k), p)
<1>1. k \in Int /\ PqLevel(k) = k
  BY LevelsAssumption DEF PqLevel, Level
<1>. DEFINE r == PqPush(q, e, k)
<1>2. ASSUME NEW l \in Level
      PROVE  /\ Len(r[l]) = IF l = k THEN Len(q[l]) + 1 ELSE Len(q[l])
             /\ \A i \in 1 .. Len(q[l]) : r[l][i] = q[l][i]
             /\ l = k => r[l][Len(q[l]) + 1] = e
  <2>1. /\ Len(PqPush(q, e, k)[l]) =
               IF l = PqLevel(k) THEN Len(q[l]) + 1 ELSE Len(q[l])
        /\ \A i \in 1 .. Len(q[l]) : PqPush(q, e, k)[l][i] = q[l][i]
        /\ l = PqLevel(k) => PqPush(q, e, k)[l][Len(q[l]) + 1] = e
    <3>. HIDE DEF r
    <3>1. k \in Int
      BY <1>1
    <3>. QED
      BY <3>1, PushPlaces
  <2>. QED
    BY <1>1, <2>1
<1>3. \A l \in Level : Len(q[l]) \in Nat
  OBVIOUS
<1>. HIDE DEF r
<1>. SUFFICES ASSUME NEW l \in Level, NEW i \in 1 .. Len(r[l])
              PROVE  p[r[l][i]] = l
  BY DEF r, AtLevels
<1>4. CASE l = k /\ i = Len(q[l]) + 1
  BY <1>2, <1>4
<1>5. CASE ~ (l = k /\ i = Len(q[l]) + 1)
  <2>1. Len(q[l]) \in Nat /\ Len(r[l]) = IF l = k THEN Len(q[l]) + 1 ELSE Len(q[l])
    BY <1>2, <1>3
  <2>2. i \in 1 .. Len(q[l])
    BY <1>5, <2>1
  <2>. QED
    BY <1>2, <2>2 DEF AtLevels
<1>. QED
  BY <1>4, <1>5

\* pq_extract_first leaves every other item at its level.
LEMMA ExtractAtLevel ==
    ASSUME NEW S, NEW q \in [Level -> Seq(S)], NEW k \in Level,
           NEW n \in 1 .. Len(q[k]), NEW p, AtLevels(q, p)
    PROVE  AtLevels(PqExtract(q, k, n), p)
<1>. SUFFICES ASSUME NEW l \in Level, NEW i \in 1 .. Len(PqExtract(q, k, n)[l])
              PROVE  p[PqExtract(q, k, n)[l][i]] = l
  BY DEF AtLevels
<1>1. /\ PlaceBefore(k, n, l, i) \in 1 .. Len(q[l])
      /\ PqExtract(q, k, n)[l][i] = q[l][PlaceBefore(k, n, l, i)]
  BY ExtractPlaces
<1>. QED
  BY <1>1 DEF AtLevels

\* Every step keeps the emergencies at their levels.
LEMMA LevelNext == LevelInv /\ [Next]_vars => QueuedAtItsLevel'
<1>. SUFFICES ASSUME LevelInv, [Next]_vars PROVE QueuedAtItsLevel'
  OBVIOUS
<1>. USE DEF LevelInv, OwnInv
<1>0. /\ queue \in [Level -> Seq(Emergency)] /\ priority \in [Emergency -> Level]
      /\ \A l \in Level : \A i \in 1 .. Len(queue[l]) :
            /\ priority[queue[l][i]] = l
            /\ queue[l][i] \in PqItems(queue) /\ queue[l][i] \in Emergency
  <2>1. queue \in [Level -> Seq(Emergency)] /\ priority \in [Emergency -> Level]
    BY DEF TypeInv, TypeOK
  <2>. QED
    BY <2>1, Places, ItemsType DEF QueuedAtItsLevel
\* A change of the priorities that spares the emergencies in the queue.
<1>1. ASSUME NEW p, \A e \in PqItems(queue) : p[e] = priority[e]
      PROVE  AtLevels(queue, p)
  BY <1>0, <1>1 DEF AtLevels
<1>2. ASSUME NEW e \in Emergency, Receive(e)
      PROVE  QueuedAtItsLevel'
  <2>1. BaseLevel[e] \in Level
    BY CatalogueTypes
  <2>2. priority' = [priority EXCEPT ![e] = BaseLevel[e]] /\ priority'[e] = BaseLevel[e]
    BY <1>0, <1>2 DEF Receive, Born
  <2>3. e \notin PqItems(queue)
    BY <1>2, ItemsType DEF Receive, TypeInv, Known
  <2>4. AtLevels(queue, priority')
    BY <1>0, <2>2, <2>3 DEF AtLevels
  <2>5. queue' = queue \/ queue' = PqPush(queue, e, BaseLevel[e])
    BY <1>2 DEF Receive, PushWaiting
  <2>6. CASE queue' = queue
    BY <2>4, <2>6 DEF QueuedAtItsLevel, AtLevels
  <2>7. CASE queue' = PqPush(queue, e, BaseLevel[e])
    <3>1. priority'[e] = BaseLevel[e]
      BY <2>1, <2>2
    <3>2. AtLevels(PqPush(queue, e, BaseLevel[e]), priority')
      BY <1>0, <2>1, <2>4, <3>1, PushAtLevel
    <3>. QED
      BY <2>7, <3>2 DEF QueuedAtItsLevel, AtLevels
  <2>. QED
    BY <2>5, <2>6, <2>7
<1>3. ASSUME NEW l \in Level, NEW i \in 1 .. Len(queue[l]),
             queue' = PqExtract(queue, l, i), priority' = priority
      PROVE  QueuedAtItsLevel'
  <2>1. AtLevels(queue, priority)
    BY <1>1
  <2>2. AtLevels(PqExtract(queue, l, i), priority)
    BY <1>0, <2>1, ExtractAtLevel
  <2>. QED
    BY <1>3, <2>2 DEF QueuedAtItsLevel, AtLevels
<1>4. ASSUME NEW w \in Worker, WorkerPop(w)
      PROVE  QueuedAtItsLevel'
  <2>1. PICK l \in Level : queue[l] # <<>> /\ queue' = PqPop(queue, l)
    BY <1>4 DEF WorkerPop, PqTop
  <2>2. 1 \in 1 .. Len(queue[l]) /\ PqPop(queue, l) = PqExtract(queue, l, 1)
    BY <1>0, <2>1, PopIsExtract
  <2>3. priority' = priority
    BY <1>4 DEF WorkerPop, emergencyVars
  <2>. QED
    BY <1>3, <2>1, <2>2, <2>3
<1>5. CASE UpdaterExpire \/ UpdaterExtract
  <2>1. PICK l \in Level : \E i \in 1 .. Len(queue[l]) : queue' = PqExtract(queue, l, i)
    BY <1>5 DEF UpdaterExpire, UpdaterExtract
  <2>2. PICK i \in 1 .. Len(queue[l]) : queue' = PqExtract(queue, l, i)
    BY <2>1
  <2>3. priority' = priority
    BY <1>5 DEF UpdaterExpire, UpdaterExtract, emergencyVars
  <2>. QED
    BY <1>3, <2>2, <2>3
<1>6. CASE UpdaterTick
  <2>1. queue' = queue /\ uPc # "undefined"
    BY <1>6 DEF UpdaterTick
  <2>2. \A e \in Emergency : e \notin Active => priority'[e] = priority[e]
    BY <1>6 DEF UpdaterTick, UpdateActive, Promoting
  <2>3. \A e \in PqItems(queue) : priority'[e] = priority[e]
    BY <1>0, <2>1, <2>2, ActiveNotQueued, ItemsType
  <2>. QED
    BY <1>1, <2>1, <2>3 DEF QueuedAtItsLevel, AtLevels
<1>7. CASE UpdaterMap
  BY <1>7 DEF UpdaterMap, QueuedAtItsLevel
<1>8. CASE UpdaterPromote
  <2>. DEFINE e == uCarry
              k == NextLevel(priority[uCarry])
  <2>1. e \in Emergency /\ k \in Level
    BY <1>0, <1>8, NextLevelType DEF UpdaterPromote, TypeInv, TypeOK, Known
  <2>2. \A o \in Emergency : priority'[o] = IF o = e THEN k ELSE priority[o]
    BY <1>8 DEF UpdaterPromote, Promote
  <2>3. e \notin PqItems(queue)
    BY DEF OneOwner
  <2>4. AtLevels(queue, priority')
    BY <1>0, <2>2, <2>3 DEF AtLevels
  <2>5. queue' = queue \/ queue' = PqPush(queue, e, k)
    BY <1>8 DEF UpdaterPromote, PushWaiting
  <2>. HIDE DEF e, k
  <2>6. CASE queue' = queue
    BY <2>4, <2>6 DEF QueuedAtItsLevel, AtLevels
  <2>7. CASE queue' = PqPush(queue, e, k)
    <3>1. priority'[e] = k
      BY <2>1, <2>2
    <3>2. AtLevels(PqPush(queue, e, k), priority')
      BY <1>0, <2>1, <2>4, <3>1, PushAtLevel
    <3>. QED
      BY <2>7, <3>2 DEF QueuedAtItsLevel, AtLevels
  <2>. QED
    BY <2>5, <2>6, <2>7
<1>9. CASE UNCHANGED <<queue, priority, timeoutTimer, promotionTimer>>
  BY <1>9 DEF QueuedAtItsLevel
<1>. QED
  BY <1>2, <1>4, <1>5, <1>6, <1>7, <1>8, <1>9, QueueUntouched

\* The queue is empty at the start.
LEMMA InitLevelInv == Init => LevelInv
<1>. SUFFICES ASSUME Init PROVE LevelInv
  OBVIOUS
<1>1. OwnInv
  BY InitOwnInv
<1>2. SlotHeld
  BY DEF Init, SlotHeld
<1>3. \A l \in Level : Len(queue[l]) = 0
  BY DEF Init, PqEmpty
<1>. QED
  BY <1>1, <1>2, <1>3 DEF LevelInv, QueuedAtItsLevel

\* A waiting emergency is served at the level of its priority, however often
\* it has been promoted in the queue, and no emergency at work changes that
\* (thread_reciever.c:40, thread_updater.c:138-141, 200-203).
THEOREM LevelsKept == Spec => []QueuedAtItsLevel
<1>1. LevelInv /\ [Next]_vars => LevelInv'
  BY OwnNext, SlotHeldNext, LevelNext DEF LevelInv, OwnInv
<1>2. LevelInv => QueuedAtItsLevel
  BY DEF LevelInv
<1>. QED
  BY <1>1, <1>2, InitLevelInv, PTL DEF Spec

-----------------------------------------------------------------------------
(***************************************************************************)
(* Nothing is overdue.  The three passes of the updater over the queue     *)
(* leave it clean, and stay true to each other: nothing expires between    *)
(* the second and the third, because only the updater lets time pass; what *)
(* a promotion or a request adds to the queue starts with a fresh timer.   *)
(***************************************************************************)
OverdueInv ==
    /\ uPc \in {"idle", "promote", "requeue"} => PqItems(queue) \cap Expired = {}
    /\ uPc = "idle" => PqItems(queue) \cap ToPromote = {}

\* What starts with the timers of the table is neither expired nor due
\* (config_server.h:42-47).
LEMMA FreshTimers ==
    ASSUME NEW l \in Level
    PROVE  /\ TimeBeforeTimeout[l] = NoTimeout \/ ~ TimeBeforeTimeout[l] <= 0
           /\ TimeBeforePromotion[l] = NoPromotion \/ ~ TimeBeforePromotion[l] <= 0
BY TableAssumption, TimersAssumption

\* A step that adds nothing overdue to the queue, in any phase but the last
\* of a pass.
LEMMA StaysClean ==
    ASSUME OverdueInv,
           PqItems(queue') \cap Expired' \subseteq PqItems(queue) \cap Expired,
           PqItems(queue') \cap ToPromote' \subseteq PqItems(queue) \cap ToPromote,
           \/ uPc' = uPc \/ uPc' \in {"tick", "map", "expire", "dead", "undefined"}
           \/ uPc \in {"promote", "requeue"} /\ uPc' \in {"promote", "requeue"}
    PROVE  OverdueInv'
BY DEF OverdueInv

\* Every step.
LEMMA OverdueNext == OwnInv /\ OverdueInv /\ [Next]_vars => OverdueInv'
<1>. SUFFICES ASSUME OwnInv, OverdueInv, [Next]_vars PROVE OverdueInv'
  OBVIOUS
<1>0. queue \in [Level -> Seq(Emergency)] /\ NoTwice(queue) /\ TypeOK
  BY DEF OwnInv, TypeInv, TypeOK, OneOwner
<1>1. CASE UNCHANGED <<queue, priority, timeoutTimer, promotionTimer>> /\ ~ UpdaterStep
  <2>1. uPc' \in {uPc, "undefined"}
    BY <1>1, UpdaterPhase
  <2>2. Expired' = Expired /\ ToPromote' = ToPromote /\ queue' = queue
    BY <1>1 DEF Expired, ToPromote
  <2>. QED
    BY <2>1, <2>2, StaysClean
<1>2. CASE UpdaterLoop \/ UpdaterAstray
  <2>1. Expired' = Expired /\ ToPromote' = ToPromote /\ queue' = queue
    BY <1>2 DEF UpdaterLoop, UpdaterAstray, BecomeUndefined, emergencyVars, Expired, ToPromote
  <2>2. uPc' \in {"dead", "tick", "undefined"}
    BY <1>2 DEF UpdaterLoop, UpdaterAstray, BecomeUndefined
  <2>. QED
    BY <2>2 DEF OverdueInv
<1>3. CASE UpdaterTick \/ UpdaterMap
  <2>1. uPc' \in {"map", "expire"}
    BY <1>3 DEF UpdaterTick, UpdaterMap
  <2>. QED
    BY <2>1 DEF OverdueInv
<1>4. CASE UpdaterExpire
  <2>1. uPc' = "expire"
    BY <1>4 DEF UpdaterExpire, threadVars
  <2>. QED
    BY <2>1 DEF OverdueInv
<1>5. CASE UpdaterExpired \/ UpdaterPromoted
  <2>1. Expired' = Expired /\ ToPromote' = ToPromote /\ queue' = queue
    BY <1>5 DEF UpdaterExpired, UpdaterPromoted, emergencyVars, Expired, ToPromote
  <2>2. \/ uPc' = "promote" /\ PqItems(queue) \cap Expired = {}
        \/ uPc' = "idle" /\ uPc = "promote" /\ PqItems(queue) \cap ToPromote = {}
    BY <1>5 DEF UpdaterExpired, UpdaterPromoted
  <2>. QED
    BY <2>1, <2>2 DEF OverdueInv
\* What leaves the queue leaves the rest as it was.
<1>6. CASE UpdaterExtract
  <2>1. PICK l \in Level : \E i \in 1 .. Len(queue[l]) : queue' = PqExtract(queue, l, i)
    BY <1>6 DEF UpdaterExtract
  <2>2. PICK i \in 1 .. Len(queue[l]) : queue' = PqExtract(queue, l, i)
    BY <2>1
  <2>3. PqItems(PqExtract(queue, l, i)) = PqItems(queue) \ {queue[l][i]}
    BY <1>0, ExtractOnce
  <2>4. PqItems(queue') \subseteq PqItems(queue)
    BY <2>2, <2>3
  <2>5. Expired' = Expired /\ ToPromote' = ToPromote
    BY <1>6 DEF UpdaterExtract, emergencyVars, Expired, ToPromote
  <2>6. uPc = "promote" /\ uPc' = "requeue"
    BY <1>6 DEF UpdaterExtract
  <2>. QED
    BY <2>4, <2>5, <2>6, StaysClean
<1>7. ASSUME NEW w \in Worker, WorkerPop(w)
      PROVE  OverdueInv'
  <2>1. PICK l \in Level : queue[l] # <<>> /\ queue' = PqPop(queue, l)
    BY <1>7 DEF WorkerPop, PqTop
  <2>2. PqItems(PqPop(queue, l)) = PqItems(queue) \ {Head(queue[l])}
    BY <1>0, <2>1, PopOnce
  <2>3. PqItems(queue') \subseteq PqItems(queue)
    BY <2>1, <2>2
  <2>4. Expired' = Expired /\ ToPromote' = ToPromote /\ uPc' = uPc
    BY <1>7 DEF WorkerPop, emergencyVars, Expired, ToPromote
  <2>. QED
    BY <2>3, <2>4, StaysClean
\* What enters it enters with fresh timers.
<1>8. ASSUME NEW e \in Emergency, NEW l \in Level,
             timeoutTimer' = [timeoutTimer EXCEPT ![e] = TimeBeforeTimeout[l]],
             promotionTimer' = [promotionTimer EXCEPT ![e] = TimeBeforePromotion[l]],
             queue' = queue \/ queue' = PqPush(queue, e, l)
      PROVE  /\ PqItems(queue') \cap Expired' \subseteq PqItems(queue) \cap Expired
             /\ PqItems(queue') \cap ToPromote' \subseteq PqItems(queue) \cap ToPromote
  <2>1. l \in Int
    BY LevelsAssumption DEF Level
  <2>2. PqItems(PqPush(queue, e, l)) = PqItems(queue) \cup {e}
    BY <1>0, <2>1, PushItems
  <2>3. PqItems(queue') \subseteq PqItems(queue) \cup {e}
    BY <1>8, <2>2
  <2>4. timeoutTimer'[e] = TimeBeforeTimeout[l] /\ promotionTimer'[e] = TimeBeforePromotion[l]
    BY <1>0, <1>8 DEF TypeOK
  <2>5. e \notin Expired' /\ e \notin ToPromote'
    BY <2>4, FreshTimers DEF Expired, ToPromote
  <2>6. \A o \in Emergency \ {e} : /\ timeoutTimer'[o] = timeoutTimer[o]
                                   /\ promotionTimer'[o] = promotionTimer[o]
    BY <1>0, <1>8 DEF TypeOK
  <2>7. Expired' \ {e} \subseteq Expired /\ ToPromote' \ {e} \subseteq ToPromote
    BY <2>6 DEF Expired, ToPromote
  <2>. QED
    BY <2>3, <2>5, <2>7
<1>9. ASSUME NEW e \in Emergency, Receive(e)
      PROVE  OverdueInv'
  <2>1. BaseLevel[e] \in Level
    BY CatalogueTypes
  <2>2. uPc' = uPc
    BY <1>9 DEF Receive
  <2>3. /\ timeoutTimer' = [timeoutTimer EXCEPT ![e] = TimeBeforeTimeout[BaseLevel[e]]]
        /\ promotionTimer' = [promotionTimer EXCEPT ![e] = TimeBeforePromotion[BaseLevel[e]]]
        /\ queue' = queue \/ queue' = PqPush(queue, e, BaseLevel[e])
    BY <1>9 DEF Receive, Born, PushWaiting
  <2>. QED
    BY <1>8, <2>1, <2>2, <2>3, StaysClean
<1>10. CASE UpdaterPromote
  <2>. DEFINE l == NextLevel(priority[uCarry])
  <2>1. uCarry \in Emergency /\ l \in Level
    BY <1>0, <1>10, NextLevelType DEF UpdaterPromote, OwnInv, TypeInv, TypeOK, Known
  <2>2. uPc = "requeue" /\ uPc' = "promote"
    BY <1>10 DEF UpdaterPromote
  <2>3. timeoutTimer' = [timeoutTimer EXCEPT ![uCarry] = TimeBeforeTimeout[l]]
    BY <1>0, <1>10 DEF UpdaterPromote, Promote, TypeOK
  <2>4. promotionTimer' = [promotionTimer EXCEPT ![uCarry] = TimeBeforePromotion[l]]
    BY <1>0, <1>10 DEF UpdaterPromote, Promote, TypeOK
  <2>5. queue' = queue \/ queue' = PqPush(queue, uCarry, l)
    BY <1>10 DEF UpdaterPromote, PushWaiting
  <2>. HIDE DEF l
  <2>. QED
    BY <1>8, <2>1, <2>2, <2>3, <2>4, <2>5, StaysClean
<1>. QED
  BY <1>1, <1>2, <1>3, <1>4, <1>5, <1>6, <1>7, <1>9, <1>10, QueueUntouched
  DEF UpdaterStep

\* When the updater has finished a round it has left nothing in the queue
\* that should have expired or been promoted, for any number of workers that
\* pop and of requests that arrive during the round
\* (thread_updater.c:34-36, 161-206).
THEOREM RoundsFinish == Spec => []NothingOverdue
<1>1. Init => OwnInv /\ OverdueInv
  <2>. SUFFICES ASSUME Init PROVE OverdueInv
    BY InitOwnInv
  <2>. QED
    BY NoneQueued DEF OverdueInv
<1>2. OwnInv /\ OverdueInv /\ [Next]_vars => (OwnInv /\ OverdueInv)'
  BY OwnNext, OverdueNext
<1>3. OwnInv /\ OverdueInv => NothingOverdue
  BY DEF OverdueInv, NothingOverdue
<1>. QED
  BY <1>1, <1>2, <1>3, PTL DEF Spec

-----------------------------------------------------------------------------
(***************************************************************************)
(* No wake-up is lost.  main broadcasts to the emergencies in the slots,   *)
(* so a sleeping worker must have its emergency there; no worker may go to *)
(* sleep once main has broadcast, so the flag must be up by then; and no   *)
(* other worker may settle the emergency silently, so the two must not     *)
(* work on the same one.                                                   *)
(***************************************************************************)
FlagUp == mPc \in {"stopping", "closing", "joining", "closed"} => stop

WakeInv == SlotInv /\ FlagUp /\ NoLostWakeup

\* main raises the flag before anything else, and nobody lowers it
\* (main.c:67-71).
LEMMA FlagUpNext == FlagUp /\ [Next]_vars => FlagUp'
<1>. SUFFICES ASSUME FlagUp, [Next]_vars PROVE FlagUp'
  OBVIOUS
<1>. USE DEF FlagUp
<1>1. CASE UNCHANGED vars
  BY <1>1 DEF vars, threadVars
<1>2. CASE ReceiverStep
  BY <1>2 DEF ReceiverStep, ReceiverLoop, ReceiverDiscard, ReceiverStop, Receive
<1>3. ASSUME NEW w \in Worker, WorkerStep(w)
      PROVE  FlagUp'
  BY <1>3 DEF WorkerStep, WorkerLoop, WorkerPop, WorkerPopClosed, WorkerOpen,
       WorkerInner, WorkerFindNothing, WorkerFindFails, WorkerFindOverrun,
       WorkerFind, WorkerWait, WorkerDispatch, WorkerComplete, WorkerTimeout,
       WorkerRelease, WorkerCancel, BecomeUndefined
<1>4. CASE UpdaterStep
  BY <1>4 DEF UpdaterStep, UpdaterLoop, UpdaterTick, UpdaterAstray, UpdaterMap,
       UpdaterExpire, UpdaterExpired, UpdaterExtract, UpdaterPromote,
       UpdaterPromoted, BecomeUndefined, threadVars
<1>5. CASE MainStep \/ \E sig \in Signal : MainSignal(sig)
  BY <1>5 DEF MainStep, MainSignal, MainCloseQueue, MainBroadcast, MainJoin
<1>. QED
  BY <1>1, <1>2, <1>3, <1>4, <1>5 DEF Next, Step, Over

\* A worker goes to sleep only after it has seen, in the same critical
\* section, that it need not stay awake; another one that pauses its
\* emergency wakes it (thread_worker.c:67-74, 191-194).
LEMMA WakeWorker ==
    ASSUME NEW w \in Worker, WakeInv, WorkerStep(w)
    PROVE  NoLostWakeup'
<1>. USE DEF WakeInv, SlotInv, OwnInv, NoLostWakeup, Goto, TypeInv, TypeOK
<1>1. CASE WorkerLoop(w) \/ WorkerPopClosed(w) \/ WorkerInner(w)
           \/ WorkerFindNothing(w) \/ WorkerFindFails(w) \/ WorkerDispatch(w)
  BY <1>1 DEF WorkerLoop, WorkerPopClosed, WorkerInner, WorkerFindNothing,
       WorkerFindFails, WorkerDispatch, emergencyVars
<1>2. CASE WorkerPop(w) \/ WorkerRelease(w)
  BY <1>2 DEF WorkerPop, WorkerRelease, emergencyVars
<1>3. CASE WorkerOpen(w)
  BY <1>3 DEF WorkerOpen
<1>4. CASE WorkerFindOverrun(w)
  BY <1>4 DEF WorkerFindOverrun, BecomeUndefined
<1>5. CASE WorkerFind(w)
  <2>1. PICK C \in SUBSET Twin :
            /\ Preempt(wEm[w], C)
            /\ wPc' = [Woken(NewlyPaused(C)) EXCEPT ![w] = "wait"]
    BY <1>5 DEF WorkerFind, Candidates, Eligible
  <2>2. UNCHANGED <<wEm, mPc>>
    BY <1>5 DEF WorkerFind
  <2>3. ASSUME NEW v \in Worker, wPc'[v] = "sleep"
        PROVE  /\ status'[wEm[v]] \notin {"PAUSED", "COMPLETED"}
               /\ mPc \notin {"joining", "closed"}
    <3>1. wPc[v] = "sleep" /\ wEm[v] \notin NewlyPaused(C)
      BY <2>1, <2>3 DEF Woken
    <3>2. wEm[v] \in Emergency
      BY <3>1 DEF Known, Holding, Working
    <3>3. status[wEm[v]] # "PAUSED" /\ status[wEm[v]] # "COMPLETED"
      BY <3>1
    <3>4. Stolen(C, wEm[v]) = {}
      BY <3>1, <3>2, <3>3 DEF NewlyPaused
    <3>5. status'[wEm[v]] = status[wEm[v]]
      BY <2>1, <3>2, <3>4 DEF Preempt
    <3>. QED
      BY <3>1, <3>3, <3>5
  <2>. QED
    BY <2>2, <2>3
<1>6. CASE WorkerWait(w)
  BY <1>6 DEF WorkerWait, FlagUp, emergencyVars
<1>7. CASE WorkerComplete(w) \/ WorkerTimeout(w) \/ WorkerCancel(w)
  <2>1. PICK news : status' = [status EXCEPT ![wEm[w]] = news]
    BY <1>7 DEF WorkerComplete, WorkerTimeout, WorkerCancel, StoreAs
  <2>2. /\ \A v \in Worker : wPc'[v] = "sleep" => v # w /\ wPc[v] = "sleep"
        /\ wPc[w] \in Holding
        /\ UNCHANGED <<wEm, mPc>>
    BY <1>7 DEF WorkerComplete, WorkerTimeout, WorkerCancel, Holding, Working
  <2>3. ASSUME NEW v \in Worker, wPc'[v] = "sleep"
        PROVE  /\ status'[wEm[v]] \notin {"PAUSED", "COMPLETED"}
               /\ mPc \notin {"joining", "closed"}
    <3>1. v # w /\ wPc[v] = "sleep" /\ wPc[v] \in Holding
      BY <2>2, <2>3 DEF Holding, Working
    <3>2. wEm[v] # wEm[w] /\ wEm[v] \in Emergency
      BY <2>2, <3>1 DEF OneOwner, Known
    <3>3. status'[wEm[v]] = status[wEm[v]]
      BY <2>1, <3>2
    <3>. QED
      BY <3>1, <3>3
  <2>. QED
    BY <2>2, <2>3
<1>. QED
  BY <1>1, <1>2, <1>3, <1>4, <1>5, <1>6, <1>7 DEF WorkerStep

\* The updater signals every emergency it completes (thread_updater.c:153).
LEMMA WakeUpdater ==
    ASSUME WakeInv, UpdaterStep
    PROVE  NoLostWakeup'
<1>. USE DEF WakeInv, SlotInv, OwnInv, NoLostWakeup
<1>1. CASE UpdaterTick
  <2>1. UpdateActive /\ UNCHANGED <<wEm, mPc>>
    BY <1>1 DEF UpdaterTick
  <2>2. ASSUME NEW v \in Worker, wPc'[v] = "sleep"
        PROVE  /\ status'[wEm[v]] \notin {"PAUSED", "COMPLETED"}
               /\ mPc \notin {"joining", "closed"}
    <3>1. wPc[v] = "sleep" /\ wEm[v] \notin Done
      BY <2>1, <2>2 DEF UpdateActive, Woken
    <3>2. wEm[v] \in Emergency
      BY <3>1 DEF TypeInv, TypeOK, Known, Holding, Working
    <3>3. status'[wEm[v]] \in {"IN_PROGRESS", status[wEm[v]]}
      BY <2>1, <3>1, <3>2 DEF UpdateActive
    <3>. QED
      BY <3>1, <3>3
  <2>. QED
    BY <2>1, <2>2
<1>2. CASE UpdaterExpire
  <2>1. PICK e : status' = [status EXCEPT ![e] = "TIMEOUT"]
    BY <1>2 DEF UpdaterExpire
  <2>2. \A o : status'[o] \in {"PAUSED", "COMPLETED"} => status'[o] = status[o]
    BY <2>1
  <2>3. UNCHANGED <<wPc, wEm, mPc>>
    BY <1>2 DEF UpdaterExpire, threadVars
  <2>. QED
    BY <2>2, <2>3
<1>3. CASE UpdaterStep /\ ~ UpdaterTick /\ ~ UpdaterExpire
  BY <1>3 DEF UpdaterStep, UpdaterLoop, UpdaterAstray, UpdaterMap,
       UpdaterExpired, UpdaterExtract, UpdaterPromote, UpdaterPromoted,
       BecomeUndefined, emergencyVars
<1>. QED
  BY <1>1, <1>2, <1>3

\* main raises the flag first and broadcasts then, to every sleeping worker,
\* because its emergency is in its slot (main.c:70-81).
LEMMA WakeMain ==
    ASSUME WakeInv, MainStep \/ \E sig \in Signal : MainSignal(sig)
    PROVE  NoLostWakeup'
<1>. USE DEF WakeInv, SlotInv, OwnInv, NoLostWakeup, emergencyVars
<1>1. ASSUME NEW sig \in Signal, MainSignal(sig)
      PROVE  NoLostWakeup'
  BY <1>1 DEF MainSignal
<1>2. CASE MainCloseQueue
  BY <1>2 DEF MainCloseQueue
<1>3. CASE MainBroadcast
  <2>1. ASSUME NEW w \in Worker, wPc[w] = "sleep"
        PROVE  wEm[w] \in Active
    <3>1. slot[w] = wEm[w]
      BY <2>1 DEF SlotOwned, Working
    <3>2. wEm[w] # NoEmergency
      BY <2>1, CardinalityAssumption DEF TypeInv, TypeOK, Known, Holding, Working
    <3>. QED
      BY <3>1, <3>2 DEF Active
  <2>. QED
    BY <1>3, <2>1 DEF MainBroadcast, Woken
<1>4. CASE MainJoin
  BY <1>4 DEF MainJoin
<1>. QED
  BY <1>1, <1>2, <1>3, <1>4 DEF MainStep

\* Every step.
LEMMA WakeNext == WakeInv /\ [Next]_vars => NoLostWakeup'
<1>. SUFFICES ASSUME WakeInv, [Next]_vars PROVE NoLostWakeup'
  OBVIOUS
<1>1. CASE UNCHANGED vars
  BY <1>1 DEF WakeInv, SlotInv, OwnInv, NoLostWakeup, vars, emergencyVars, threadVars
<1>2. ASSUME NEW e \in Emergency, Receive(e)
      PROVE  NoLostWakeup'
  BY <1>2 DEF WakeInv, SlotInv, OwnInv, NoLostWakeup, Receive, Born, TypeInv, TypeOK
<1>3. CASE ReceiverLoop \/ ReceiverDiscard \/ ReceiverStop
  BY <1>3 DEF WakeInv, SlotInv, OwnInv, NoLostWakeup, ReceiverLoop, ReceiverDiscard,
       ReceiverStop, emergencyVars
<1>. QED
  BY <1>1, <1>2, <1>3, WakeWorker, WakeUpdater, WakeMain
  DEF Next, Step, Over, ReceiverStep

\* A worker never sleeps through the end of its emergency, the theft of one
\* of its twins or the end of the server, for any number of threads, twins
\* and emergencies (thread_worker.c:67-74, main.c:70-81).
THEOREM WakeupsArrive == Spec => []NoLostWakeup
<1>1. Init => WakeInv
  BY InitSlotInv DEF Init, WakeInv, FlagUp, NoLostWakeup
<1>2. WakeInv /\ [Next]_vars => WakeInv'
  <2>1. WakeInv /\ [Next]_vars => SlotInv' /\ FlagUp'
    BY SlotInvNext, FlagUpNext DEF WakeInv
  <2>. QED
    BY <2>1, WakeNext DEF WakeInv
<1>3. WakeInv => NoLostWakeup
  BY DEF WakeInv
<1>. QED
  BY <1>1, <1>2, <1>3, PTL DEF Spec

-----------------------------------------------------------------------------
(***************************************************************************)
(* No emergency is lost or duplicated.  OneOwner bounds the hands that     *)
(* hold one from above; Conservation also needs that they are never none,  *)
(* and that what has been stored is in no hands any more.  The hands are   *)
(* given by the data alone, because a program that has gone wrong keeps    *)
(* its data; what a worker's place tells of its emergency comes with them. *)
(* The parts speak of the server that stops, too: what it may lose then    *)
(* and store twice is the difference between Conservation and the life of  *)
(* an emergency that the next section maps to.                             *)
(***************************************************************************)
StoredTimes(e) == completed[e] + canceled[e]

\* What a worker holds is of nobody else's.
HeldApart ==
    /\ \A w \in Worker : wEm[w] \in received \cup {NoEmergency}
    /\ \A w \in Worker : wEm[w] # NoEmergency =>
           wEm[w] # uCarry /\ wEm[w] \notin PqItems(queue)
    /\ \A v, w \in Worker : wEm[v] = wEm[w] /\ wEm[w] # NoEmergency => v = w

StoredOnce ==
    \A e \in Emergency :
        /\ StoredTimes(e) > 0 => e \in received /\ e # uCarry /\ e \notin PqItems(queue)
        /\ ~ stop => StoredTimes(e) \in {0, 1}

\* A closed queue loses what is pushed.
KeptSomewhere ==
    \A e \in received : \/ e \in PqItems(queue)
                        \/ e = uCarry
                        \/ \E w \in Worker : wEm[w] = e
                        \/ StoredTimes(e) > 0
                        \/ closed

\* A worker holds nothing between two emergencies, and stores the one it
\* holds just before it lets go of it.
PlaceTells ==
    \A w \in Worker :
        /\ wPc[w] \in {"loop", "pop"} => wEm[w] = NoEmergency
        /\ wPc[w] \in Holding \ {"after"} => StoredTimes(wEm[w]) = 0
        /\ wPc[w] = "after" => stop \/ StoredTimes(wEm[w]) > 0

\* The queue is closed after the flag is raised.
ClosedLate == closed => stop

KeptInv == HeldApart /\ StoredOnce /\ KeptSomewhere /\ PlaceTells

ConserveInv == SlotInv /\ FlagUp /\ ClosedLate /\ KeptInv

\* The flag and the queue only change once, the flag first (main.c:67-71).
LEMMA ClosedLateNext ==
    FlagUp /\ ClosedLate /\ [Next]_vars =>
        ClosedLate' /\ (stop => stop') /\ (closed => closed')
<1>. SUFFICES ASSUME FlagUp, ClosedLate, [Next]_vars
              PROVE  ClosedLate' /\ (stop => stop') /\ (closed => closed')
  OBVIOUS
<1>. USE DEF FlagUp, ClosedLate
<1>1. CASE UNCHANGED vars
  BY <1>1 DEF vars
<1>2. CASE ReceiverStep
  BY <1>2 DEF ReceiverStep, ReceiverLoop, ReceiverDiscard, ReceiverStop, Receive
<1>3. ASSUME NEW w \in Worker, WorkerStep(w)
      PROVE  ClosedLate' /\ (stop => stop') /\ (closed => closed')
  BY <1>3 DEF WorkerStep, WorkerLoop, WorkerPop, WorkerPopClosed, WorkerOpen,
       WorkerInner, WorkerFindNothing, WorkerFindFails, WorkerFindOverrun,
       WorkerFind, WorkerWait, WorkerDispatch, WorkerComplete, WorkerTimeout,
       WorkerRelease, WorkerCancel, BecomeUndefined
<1>4. CASE UpdaterStep
  BY <1>4 DEF UpdaterStep, UpdaterLoop, UpdaterTick, UpdaterAstray, UpdaterMap,
       UpdaterExpire, UpdaterExpired, UpdaterExtract, UpdaterPromote,
       UpdaterPromoted, BecomeUndefined
<1>5. CASE MainStep \/ \E sig \in Signal : MainSignal(sig)
  BY <1>5 DEF MainStep, MainSignal, MainCloseQueue, MainBroadcast, MainJoin
<1>. QED
  BY <1>1, <1>2, <1>3, <1>4, <1>5 DEF Next, Step, Over

(***************************************************************************)
(* What a step can do to where the emergencies are.                        *)
(***************************************************************************)

\* It only moves a thread along,
Still ==
    /\ stop => stop'
    /\ closed => closed'
    /\ UNCHANGED <<queue, completed, canceled, received, wEm, uCarry>>
    /\ \A w \in Worker :
          \/ wPc'[w] \in {wPc[w], "dead", "undefined"}
          \/ wPc[w] = "loop" /\ wPc'[w] = "pop"
          \/ /\ wPc[w] \in Holding \ {"after"}
             /\ wPc'[w] \in Holding
             /\ wPc'[w] = "after" => stop'

\* or e is received, taken out of the queue by the updater or put back,
Enters(e) ==
    /\ e \notin received /\ received' = received \cup {e} /\ uCarry' = uCarry
    /\ PqItems(queue') = PqItems(queue) \cup (IF closed THEN {} ELSE {e})

Extracted(e) ==
    /\ e \in PqItems(queue) /\ uCarry = NoEmergency /\ uCarry' = e
    /\ received' = received
    /\ PqItems(queue') = PqItems(queue) \ {e}

Requeued(e) ==
    /\ e = uCarry /\ uCarry' = NoEmergency /\ received' = received
    /\ PqItems(queue') = PqItems(queue) \cup (IF closed THEN {} ELSE {e})

QueueMove(e) ==
    /\ UNCHANGED <<completed, canceled, wPc, wEm, stop, closed>>
    /\ Enters(e) \/ Extracted(e) \/ Requeued(e)

\* or popped by a worker,
PopMove(w, e) ==
    /\ UNCHANGED <<completed, canceled, received, uCarry, stop, closed>>
    /\ e \in PqItems(queue) /\ PqItems(queue') = PqItems(queue) \ {e}
    /\ wPc[w] = "pop" /\ wPc' = [wPc EXCEPT ![w] = "open"]
    /\ wEm' = [wEm EXCEPT ![w] = e]

\* or stored by the updater that takes it out of the queue, by its worker, or
\* by a worker that ends, or let go of by its worker.
Store(e) ==
    \/ completed' = [completed EXCEPT ![e] = @ + 1] /\ UNCHANGED canceled
    \/ canceled' = [canceled EXCEPT ![e] = @ + 1] /\ UNCHANGED completed

StoreMove(e) ==
    /\ Store(e)
    /\ UNCHANGED <<received, wEm, uCarry, stop, closed>>
    /\ \/ /\ e \in PqItems(queue) /\ wPc' = wPc
          /\ PqItems(queue') = PqItems(queue) \ {e}
          /\ UNCHANGED completed
       \/ \E w \in Worker :
             /\ wEm[w] = e /\ queue' = queue
             /\ \/ /\ wPc[w] \in Holding \ {"after"}
                   /\ wPc' = [wPc EXCEPT ![w] = "after"]
                \/ /\ stop /\ wPc[w] = "after"
                   /\ wPc' = [wPc EXCEPT ![w] = "dead"]
                   /\ UNCHANGED completed

LEMMA StillKeeps ==
    ASSUME ConserveInv, Still
    PROVE  KeptInv'
<1>0. HeldApart /\ StoredOnce /\ KeptSomewhere /\ PlaceTells
  BY DEF ConserveInv, KeptInv
<1>1. HeldApart' /\ KeptSomewhere' /\ StoredOnce'
  BY <1>0 DEF Still, HeldApart, StoredOnce, KeptSomewhere, StoredTimes
<1>2. PlaceTells'
  BY <1>0 DEF Still, PlaceTells, StoredTimes, Holding, Working
<1>. QED
  BY <1>1, <1>2 DEF KeptInv

LEMMA QueueMoveKeeps ==
    ASSUME ConserveInv, NEW e \in Emergency, QueueMove(e)
    PROVE  KeptInv'
<1>. USE DEF QueueMove, Enters, Extracted, Requeued
<1>1. HeldApart /\ StoredOnce /\ KeptSomewhere /\ PlaceTells
  BY DEF ConserveInv, KeptInv
<1>2. /\ NoEmergency \notin Emergency
      /\ received \subseteq Emergency
      /\ uCarry \in received \cup {NoEmergency}
      /\ PqItems(queue) \subseteq received
  BY CardinalityAssumption, ItemsType
  DEF ConserveInv, SlotInv, OwnInv, TypeInv, TypeOK, Known, CarriesAtMostOne
<1>3. HeldApart'
  BY <1>1, <1>2 DEF HeldApart
<1>4. StoredOnce'
  BY <1>1, <1>2 DEF StoredOnce, StoredTimes
<1>5. KeptSomewhere'
  BY <1>1, <1>2 DEF KeptSomewhere, StoredTimes
<1>6. PlaceTells'
  BY <1>1 DEF PlaceTells, StoredTimes
<1>. QED
  BY <1>3, <1>4, <1>5, <1>6 DEF KeptInv

LEMMA PopMoveKeeps ==
    ASSUME ConserveInv, NEW w \in Worker, NEW e \in Emergency, PopMove(w, e)
    PROVE  KeptInv'
<1>. USE DEF PopMove
<1>1. HeldApart /\ StoredOnce /\ KeptSomewhere /\ PlaceTells
  BY DEF ConserveInv, KeptInv
<1>2. /\ NoEmergency \notin Emergency
      /\ received \subseteq Emergency
      /\ e \in received /\ e # uCarry
      /\ wPc \in [Worker -> WorkerPc]
      /\ wEm \in [Worker -> Emergency \cup {NoEmergency}]
      /\ StoredTimes(e) \in Nat
  <2>1. completed[e] \in Nat /\ canceled[e] \in Nat
    BY DEF ConserveInv, SlotInv, OwnInv, TypeInv, TypeOK
  <2>2. PqItems(queue) \subseteq received
    BY ItemsType DEF ConserveInv, SlotInv, OwnInv, TypeInv, Known
  <2>. QED
    BY <2>1, <2>2, CardinalityAssumption
    DEF ConserveInv, SlotInv, OwnInv, TypeInv, TypeOK, OneOwner, StoredTimes
<1>3. wEm[w] = NoEmergency /\ StoredTimes(e) = 0
  BY <1>1, <1>2 DEF PlaceTells, StoredOnce
<1>4. \A v \in Worker : /\ wEm'[v] = IF v = w THEN e ELSE wEm[v]
                        /\ wPc'[v] = IF v = w THEN "open" ELSE wPc[v]
                        /\ wEm[v] # e
  BY <1>1, <1>2 DEF HeldApart
<1>5. HeldApart'
  BY <1>1, <1>2, <1>4 DEF HeldApart
<1>6. StoredOnce'
  BY <1>1 DEF StoredOnce, StoredTimes
<1>7. KeptSomewhere'
  BY <1>1, <1>2, <1>3, <1>4 DEF KeptSomewhere, StoredTimes
<1>8. PlaceTells'
  BY <1>1, <1>3, <1>4 DEF PlaceTells, StoredTimes, Holding, Working
<1>. QED
  BY <1>5, <1>6, <1>7, <1>8 DEF KeptInv

\* A store counts one emergency once.
LEMMA StoreCounts ==
    ASSUME TypeOK, NEW e \in Emergency, Store(e)
    PROVE  /\ StoredTimes(e) \in Nat /\ StoredTimes(e)' = StoredTimes(e) + 1
           /\ \A o \in Emergency \ {e} : StoredTimes(o)' = StoredTimes(o)
<1>1. /\ completed[e] \in Nat /\ canceled[e] \in Nat
      /\ completed \in [Emergency -> Nat] /\ canceled \in [Emergency -> Nat]
  BY DEF TypeOK
<1>2. CASE completed' = [completed EXCEPT ![e] = @ + 1] /\ UNCHANGED canceled
  BY <1>1, <1>2 DEF StoredTimes
<1>3. CASE canceled' = [canceled EXCEPT ![e] = @ + 1] /\ UNCHANGED completed
  BY <1>1, <1>3 DEF StoredTimes
<1>. QED
  BY <1>2, <1>3 DEF Store

LEMMA StoreMoveKeeps ==
    ASSUME ConserveInv, NEW e \in Emergency, StoreMove(e)
    PROVE  KeptInv'
<1>. USE DEF StoreMove
<1>1. HeldApart /\ StoredOnce /\ KeptSomewhere /\ PlaceTells
  BY DEF ConserveInv, KeptInv
<1>2. /\ NoEmergency \notin Emergency
      /\ received \subseteq Emergency
      /\ PqItems(queue) \subseteq received
      /\ uCarry \notin PqItems(queue)
      /\ wPc \in [Worker -> WorkerPc]
      /\ TypeOK
  BY CardinalityAssumption, ItemsType
  DEF ConserveInv, SlotInv, OwnInv, TypeInv, TypeOK, Known, OneOwner
<1>3. /\ StoredTimes(e) \in Nat /\ StoredTimes(e)' = StoredTimes(e) + 1
      /\ \A o \in Emergency \ {e} : StoredTimes(o)' = StoredTimes(o)
  BY <1>2, StoreCounts
<1>4. /\ stop \/ StoredTimes(e) = 0
      /\ e \in received /\ e # uCarry
      /\ e \notin PqItems(queue') /\ PqItems(queue') \subseteq PqItems(queue)
      /\ PqItems(queue) \subseteq PqItems(queue') \cup {e}
  <2>1. CASE e \in PqItems(queue) /\ PqItems(queue') = PqItems(queue) \ {e}
    BY <1>1, <1>2, <1>3, <2>1 DEF StoredOnce
  <2>2. CASE \E w \in Worker : /\ wEm[w] = e /\ queue' = queue
                               /\ stop \/ wPc[w] \in Holding \ {"after"}
    BY <1>1, <1>2, <2>2 DEF PlaceTells, HeldApart
  <2>. QED
    BY <2>1, <2>2
<1>5. HeldApart'
  BY <1>1, <1>2, <1>4 DEF HeldApart
<1>6. StoredOnce'
  BY <1>1, <1>3, <1>4 DEF StoredOnce
<1>7. KeptSomewhere'
  BY <1>1, <1>2, <1>3, <1>4 DEF KeptSomewhere
<1>8. PlaceTells'
  <2>1. CASE e \in PqItems(queue) /\ wPc' = wPc
    <3>1. \A v \in Worker : wPc[v] \in Holding => wEm[v] \in Emergency \ {e}
      BY <1>1, <1>2, <2>1 DEF HeldApart, Holding, Working, ConserveInv, SlotInv,
           OwnInv, TypeInv, TypeOK, Known
    <3>2. \A v \in Worker : wPc[v] \in Holding =>
              StoredTimes(wEm[v])' = StoredTimes(wEm[v])
      BY <1>3, <3>1
    <3>. QED
      BY <1>1, <2>1, <3>2 DEF PlaceTells, Holding
  <2>2. ASSUME NEW w \in Worker, wEm[w] = e, wPc[w] \in Holding,
               NEW to \in {"after", "dead"}, wPc' = [wPc EXCEPT ![w] = to]
        PROVE  PlaceTells'
    <3>1. \A v \in Worker \ {w} : wPc[v] \in Holding => wEm[v] \in Emergency \ {e}
      BY <1>2, <2>2 DEF ConserveInv, SlotInv, OwnInv, OneOwner, TypeInv, TypeOK, Known
    <3>2. \A v \in Worker \ {w} : /\ wPc'[v] = wPc[v]
                                  /\ wPc[v] \in Holding =>
                                        StoredTimes(wEm[v])' = StoredTimes(wEm[v])
      BY <1>2, <1>3, <2>2, <3>1
    <3>3. wPc'[w] = to /\ StoredTimes(wEm[w])' > 0
      BY <1>2, <1>3, <2>2
    <3>. QED
      BY <1>1, <2>2, <3>2, <3>3 DEF PlaceTells, Holding, Working
  <2>. QED
    BY <2>1, <2>2 DEF Holding
<1>. QED
  BY <1>5, <1>6, <1>7, <1>8 DEF KeptInv

LEMMA ReleaseKeeps ==
    ASSUME ConserveInv, NEW w \in Worker, WorkerRelease(w)
    PROVE  KeptInv'
<1>1. HeldApart /\ StoredOnce /\ KeptSomewhere /\ PlaceTells
  BY DEF ConserveInv, KeptInv, WorkerRelease
<1>2. /\ wPc \in [Worker -> WorkerPc]
      /\ wEm \in [Worker -> Emergency \cup {NoEmergency}]
  BY DEF ConserveInv, SlotInv, OwnInv, TypeInv, TypeOK
<1>3. StoredTimes(wEm[w]) > 0
  BY <1>1 DEF PlaceTells, WorkerRelease, Goto
<1>4. /\ \A v \in Worker : /\ wEm'[v] = IF v = w THEN NoEmergency ELSE wEm[v]
                           /\ wPc'[v] = IF v = w THEN "loop" ELSE wPc[v]
      /\ UNCHANGED <<queue, closed, stop, completed, canceled, received, uCarry>>
  BY <1>2 DEF WorkerRelease, Goto, storeVars
<1>5. HeldApart'
  BY <1>1, <1>4 DEF HeldApart
<1>6. StoredOnce'
  BY <1>1, <1>4 DEF StoredOnce, StoredTimes
<1>7. KeptSomewhere'
  BY <1>1, <1>3, <1>4 DEF KeptSomewhere, StoredTimes
<1>8. PlaceTells'
  BY <1>1, <1>4 DEF PlaceTells, StoredTimes, Holding, Working
<1>. QED
  BY <1>5, <1>6, <1>7, <1>8 DEF KeptInv

\* A step of a worker is one of these.
LEMMA WorkerShape ==
    ASSUME ConserveInv, stop => stop', closed => closed',
           NEW w \in Worker, WorkerStep(w), ~ WorkerRelease(w)
    PROVE  \/ Still
           \/ \E e \in Emergency : PopMove(w, e) \/ StoreMove(e)
<1>0. /\ wPc \in [Worker -> WorkerPc]
      /\ wEm \in [Worker -> Emergency \cup {NoEmergency}]
      /\ queue \in [Level -> Seq(Emergency)] /\ NoTwice(queue)
      /\ stop \in BOOLEAN
      /\ \A v \in Worker : wPc[v] \in Holding => wEm[v] \in Emergency
  BY DEF ConserveInv, SlotInv, OwnInv, TypeInv, TypeOK, Known, OneOwner
<1>1. CASE WorkerLoop(w) \/ WorkerPopClosed(w)
  <2>1. /\ UNCHANGED <<queue, completed, canceled, received, wEm, uCarry>>
        /\ \/ wPc[w] = "loop" /\ wPc' = [wPc EXCEPT ![w] = "pop"]
           \/ wPc' = [wPc EXCEPT ![w] = "dead"]
    BY <1>1 DEF WorkerLoop, WorkerPopClosed, Goto, storeVars
  <2>. QED
    BY <1>0, <2>1 DEF Still
<1>2. CASE WorkerOpen(w) \/ WorkerInner(w) \/ WorkerFindNothing(w)
           \/ WorkerFindFails(w) \/ WorkerWait(w) \/ WorkerDispatch(w)
  <2>1. UNCHANGED <<queue, completed, canceled, received, wEm, uCarry, stop>>
    BY <1>2 DEF WorkerOpen, WorkerInner, WorkerFindNothing, WorkerFindFails,
         WorkerWait, WorkerDispatch, storeVars
  <2>2. wPc[w] = "dispatch" => stop \/ status[wEm[w]] \in {"PAUSED", "COMPLETED"}
    BY DEF ConserveInv, SlotInv, DispatchSettled
  <2>3. PICK to \in Holding : /\ wPc[w] \in Holding \ {"after"}
                              /\ wPc' = [wPc EXCEPT ![w] = to]
                              /\ to = "after" => stop
    BY <1>2, <2>2 DEF WorkerOpen, WorkerInner, WorkerFindNothing,
       WorkerFindFails, WorkerWait, WorkerDispatch, Goto, Holding, Working
  <2>. QED
    BY <1>0, <2>1, <2>3 DEF Still
<1>3. CASE WorkerFindOverrun(w)
  <2>1. /\ UNCHANGED <<queue, completed, canceled, received, wEm, uCarry>>
        /\ \A v \in Worker : wPc'[v] = "undefined"
    BY <1>3 DEF WorkerFindOverrun, BecomeUndefined, storeVars
  <2>. QED
    BY <2>1 DEF Still
<1>4. CASE WorkerFind(w)
  <2>1. PICK C \in SUBSET Twin :
            wPc' = [Woken(NewlyPaused(C)) EXCEPT ![w] = "wait"]
    BY <1>4 DEF WorkerFind, Candidates, Eligible
  <2>2. /\ wPc[w] = "find"
        /\ UNCHANGED <<queue, completed, canceled, received, wEm, uCarry>>
    BY <1>4 DEF WorkerFind, storeVars
  <2>3. \A v \in Worker : \/ wPc'[v] = wPc[v]
                          \/ wPc[v] \in {"find", "sleep"} /\ wPc'[v] = "wait"
    BY <1>0, <2>1, <2>2 DEF Woken
  <2>. QED
    BY <2>2, <2>3 DEF Still, Holding, Working
<1>5. CASE WorkerPop(w)
  <2>1. PICK l \in Level : /\ queue[l] # <<>>
                           /\ wEm' = [wEm EXCEPT ![w] = Head(queue[l])]
                           /\ queue' = PqPop(queue, l)
    BY <1>5 DEF WorkerPop, PqTop
  <2>2. /\ PqItems(PqPop(queue, l)) = PqItems(queue) \ {Head(queue[l])}
        /\ Head(queue[l]) \in PqItems(queue)
    BY <1>0, <2>1, PopOnce
  <2>3. /\ wPc[w] = "pop" /\ wPc' = [wPc EXCEPT ![w] = "open"]
        /\ UNCHANGED <<completed, canceled, received, uCarry, stop, closed>>
    BY <1>5 DEF WorkerPop, Goto, storeVars
  <2>4. Head(queue[l]) \in Emergency
    BY <1>0, <2>2, ItemsType
  <2>. QED
    BY <2>1, <2>2, <2>3, <2>4 DEF PopMove
<1>6. CASE WorkerComplete(w) \/ WorkerTimeout(w)
  <2>1. UNCHANGED <<queue, received, wEm, uCarry, stop, closed>>
    BY <1>6 DEF WorkerComplete, WorkerTimeout
  <2>2. wPc[w] \in Holding \ {"after"} /\ wPc' = [wPc EXCEPT ![w] = "after"]
    BY <1>6 DEF WorkerComplete, WorkerTimeout, Goto, Holding, Working
  <2>3. Store(wEm[w])
    BY <1>6 DEF WorkerComplete, WorkerTimeout, StoreAs, StoreCanceled, Store
  <2>. QED
    BY <1>0, <2>1, <2>2, <2>3 DEF StoreMove
<1>7. CASE WorkerCancel(w)
  <2>1. /\ UNCHANGED <<queue, received, wEm, uCarry, stop, closed, completed>>
        /\ stop /\ wPc[w] = "after" /\ wPc' = [wPc EXCEPT ![w] = "dead"]
        /\ Store(wEm[w])
    BY <1>7 DEF WorkerCancel, Goto, StoreAs, StoreCanceled, Store
  <2>. QED
    BY <1>0, <2>1 DEF StoreMove, Holding
<1>. QED
  BY <1>1, <1>2, <1>3, <1>4, <1>5, <1>6, <1>7 DEF WorkerStep

\* So is one of the updater.
LEMMA UpdaterShape ==
    ASSUME ConserveInv, stop => stop', closed => closed', UpdaterStep
    PROVE  Still \/ \E e \in Emergency : QueueMove(e) \/ StoreMove(e)
<1>0. queue \in [Level -> Seq(Emergency)] /\ NoTwice(queue)
  BY DEF ConserveInv, SlotInv, OwnInv, TypeInv, TypeOK, OneOwner
<1>1. CASE UpdaterLoop \/ UpdaterAstray \/ UpdaterMap \/ UpdaterExpired \/ UpdaterPromoted
  <2>1. /\ UNCHANGED <<queue, completed, canceled, received, wEm, uCarry>>
        /\ \A v \in Worker : wPc'[v] \in {wPc[v], "undefined"}
    BY <1>1 DEF UpdaterLoop, UpdaterAstray, UpdaterMap, UpdaterExpired,
       UpdaterPromoted, BecomeUndefined, storeVars
  <2>. QED
    BY <2>1 DEF Still
<1>2. CASE UpdaterTick
  <2>1. /\ UNCHANGED <<queue, completed, canceled, received, wEm, uCarry>>
        /\ wPc' = Woken(Done)
    BY <1>2 DEF UpdaterTick, UpdateActive, storeVars
  <2>2. \A v \in Worker : \/ wPc'[v] = wPc[v]
                          \/ wPc[v] = "sleep" /\ wPc'[v] = "wait"
    BY <2>1 DEF Woken
  <2>. QED
    BY <2>1, <2>2 DEF Still, Holding, Working
<1>3. CASE UpdaterExpire
  <2>1. PICK l \in Level : \E i \in 1 .. Len(queue[l]) :
            /\ queue' = PqExtract(queue, l, i)
            /\ StoreCanceled(queue[l][i])
    BY <1>3 DEF UpdaterExpire
  <2>2. PICK i \in 1 .. Len(queue[l]) : /\ queue' = PqExtract(queue, l, i)
                                        /\ StoreCanceled(queue[l][i])
    BY <2>1
  <2>3. /\ PqItems(PqExtract(queue, l, i)) = PqItems(queue) \ {queue[l][i]}
        /\ queue[l][i] \in PqItems(queue) /\ queue[l][i] \in Emergency
    BY <1>0, ExtractOnce
  <2>4. UNCHANGED <<completed, received, wPc, wEm, uCarry, stop, closed>>
    BY <1>3 DEF UpdaterExpire, threadVars
  <2>5. Store(queue[l][i])
    BY <2>2, <2>4 DEF Store, StoreCanceled
  <2>6. StoreMove(queue[l][i])
    BY <2>2, <2>3, <2>4, <2>5 DEF StoreMove
  <2>. QED
    BY <2>3, <2>6
<1>4. CASE UpdaterExtract
  <2>1. PICK l \in Level : \E i \in 1 .. Len(queue[l]) :
            /\ queue' = PqExtract(queue, l, i)
            /\ uCarry' = queue[l][i]
    BY <1>4 DEF UpdaterExtract
  <2>2. PICK i \in 1 .. Len(queue[l]) : /\ queue' = PqExtract(queue, l, i)
                                        /\ uCarry' = queue[l][i]
    BY <2>1
  <2>3. /\ PqItems(PqExtract(queue, l, i)) = PqItems(queue) \ {queue[l][i]}
        /\ queue[l][i] \in PqItems(queue) /\ queue[l][i] \in Emergency
    BY <1>0, ExtractOnce
  <2>4. /\ UNCHANGED <<completed, canceled, received, wPc, wEm, stop, closed>>
        /\ uPc = "promote"
    BY <1>4 DEF UpdaterExtract, storeVars
  <2>5. uCarry = NoEmergency
    BY <2>4 DEF ConserveInv, SlotInv, OwnInv, CarriesAtMostOne
  <2>6. QueueMove(queue[l][i])
    BY <2>2, <2>3, <2>4, <2>5 DEF QueueMove, Extracted
  <2>. QED
    BY <2>3, <2>6
<1>5. CASE UpdaterPromote
  <2>. DEFINE l == NextLevel(priority[uCarry])
  <2>1. uCarry \in Emergency /\ l \in Level
    BY <1>5, NextLevelType DEF UpdaterPromote, ConserveInv, SlotInv, OwnInv,
       TypeInv, TypeOK, Known
  <2>2. l \in Int
    BY <2>1, LevelsAssumption DEF Level
  <2>3. queue' = IF closed THEN queue ELSE PqPush(queue, uCarry, l)
    BY <1>5 DEF UpdaterPromote, PushWaiting
  <2>. HIDE DEF l
  <2>4. PqItems(PqPush(queue, uCarry, l)) = PqItems(queue) \cup {uCarry}
    BY <1>0, <2>1, <2>2, PushItems
  <2>5. UNCHANGED <<completed, canceled, received, wPc, wEm, stop, closed>>
    BY <1>5 DEF UpdaterPromote, storeVars
  <2>6. uCarry' = NoEmergency
    BY <1>5 DEF UpdaterPromote
  <2>7. QueueMove(uCarry)
    BY <2>3, <2>4, <2>5, <2>6 DEF QueueMove, Requeued
  <2>. QED
    BY <2>1, <2>7
<1>. QED
  BY <1>1, <1>2, <1>3, <1>4, <1>5 DEF UpdaterStep

\* A request is received.
LEMMA ReceiveShape ==
    ASSUME ConserveInv, NEW e \in Emergency, Receive(e)
    PROVE  QueueMove(e)
<1>1. /\ queue \in [Level -> Seq(Emergency)]
      /\ BaseLevel[e] \in Int
  <2>1. BaseLevel[e] \in Level
    BY CatalogueTypes
  <2>2. BaseLevel[e] \in Int
    BY <2>1, LevelsAssumption DEF Level
  <2>. QED
    BY <2>2 DEF ConserveInv, SlotInv, OwnInv, TypeInv, TypeOK
<1>2. queue' = IF closed THEN queue ELSE PqPush(queue, e, BaseLevel[e])
  BY DEF Receive, PushWaiting
<1>3. PqItems(PqPush(queue, e, BaseLevel[e])) = PqItems(queue) \cup {e}
  BY <1>1, PushItems
<1>4. /\ UNCHANGED <<completed, canceled, wPc, wEm, uCarry, stop, closed>>
      /\ e \notin received /\ received' = received \cup {e}
  BY DEF Receive, storeVars
<1>. QED
  BY <1>2, <1>3, <1>4 DEF QueueMove, Enters

\* And every other step.
LEMMA StepShape ==
    ConserveInv /\ [Next]_vars =>
        \/ Still
        \/ \E e \in Emergency : \/ QueueMove(e) \/ StoreMove(e)
                                \/ \E w \in Worker : PopMove(w, e)
        \/ \E w \in Worker : WorkerRelease(w)
<1>. SUFFICES ASSUME ConserveInv, [Next]_vars
              PROVE  \/ Still
                     \/ \E e \in Emergency : \/ QueueMove(e) \/ StoreMove(e)
                                             \/ \E w \in Worker : PopMove(w, e)
                     \/ \E w \in Worker : WorkerRelease(w)
  OBVIOUS
<1>1. (stop => stop') /\ (closed => closed')
  BY ClosedLateNext DEF ConserveInv
<1>2. CASE \/ UNCHANGED vars
           \/ MainStep \/ \E sig \in Signal : MainSignal(sig)
           \/ ReceiverLoop \/ ReceiverDiscard \/ ReceiverStop
  <2>1. /\ UNCHANGED <<queue, completed, canceled, received, wEm, uCarry>>
        /\ wPc' = wPc \/ wPc' = Woken(Active)
    BY <1>2 DEF vars, threadVars, storeVars, MainStep, MainSignal, MainCloseQueue,
       MainBroadcast, MainJoin, ReceiverLoop, ReceiverDiscard, ReceiverStop
  <2>2. \A v \in Worker : \/ wPc'[v] = wPc[v]
                          \/ wPc[v] = "sleep" /\ wPc'[v] = "wait"
    BY <2>1 DEF Woken
  <2>. QED
    BY <1>1, <2>1, <2>2 DEF Still, Holding, Working
<1>3. ASSUME NEW e \in Emergency, Receive(e)
      PROVE  QueueMove(e)
  BY <1>3, ReceiveShape
<1>4. CASE UpdaterStep
  BY <1>1, <1>4, UpdaterShape
<1>5. ASSUME NEW w \in Worker, WorkerStep(w), ~ WorkerRelease(w)
      PROVE  Still \/ \E e \in Emergency : PopMove(w, e) \/ StoreMove(e)
  BY <1>1, <1>5, WorkerShape
<1>. QED
  BY <1>2, <1>3, <1>4, <1>5 DEF Next, Step, Over, ReceiverStep

\* Every step.
LEMMA ConserveNext == ConserveInv /\ [Next]_vars => ConserveInv'
<1>. SUFFICES ASSUME ConserveInv, [Next]_vars PROVE ConserveInv'
  OBVIOUS
<1>1. SlotInv' /\ FlagUp' /\ ClosedLate'
  BY SlotInvNext, FlagUpNext, ClosedLateNext DEF ConserveInv
<1>2. KeptInv'
  BY StepShape, StillKeeps, QueueMoveKeeps, StoreMoveKeeps, PopMoveKeeps, ReleaseKeeps
<1>. QED
  BY <1>1, <1>2 DEF ConserveInv

\* At the start nothing has been received.
LEMMA InitConserve == Init => ConserveInv
<1>. SUFFICES ASSUME Init PROVE ConserveInv
  OBVIOUS
<1>1. PqItems(queue) = {}
  BY NoneQueued
<1>2. SlotInv
  BY InitSlotInv
<1>3. FlagUp /\ ClosedLate
  BY DEF Init, FlagUp, ClosedLate
<1>4. KeptInv
  BY <1>1 DEF Init, KeptInv, HeldApart, StoredOnce, KeptSomewhere, PlaceTells,
       StoredTimes, Holding, Working
<1>. QED
  BY <1>2, <1>3, <1>4 DEF ConserveInv

\* The entries of a queue without twins that hold an emergency: one or none.
LEMMA QueuedCount ==
    ASSUME queue \in [Level -> Seq(Emergency)], NoTwice(queue), NEW e
    PROVE  Cardinality(Queued(e)) = IF e \in PqItems(queue) THEN 1 ELSE 0
<1>1. \A x : x \in Queued(e) <=> \E l \in Level : \E i \in 1 .. Len(queue[l]) :
                                     x = <<l, i>> /\ queue[l][i] = e
  BY DEF Queued
<1>2. CASE e \in PqItems(queue)
  <2>1. PICK l \in Level : \E i \in 1 .. Len(queue[l]) : queue[l][i] = e
    BY <1>2, Places
  <2>2. PICK i \in 1 .. Len(queue[l]) : queue[l][i] = e
    BY <2>1
  <2>3. \A m \in Level : \A j \in 1 .. Len(queue[m]) : queue[m][j] = e => m = l /\ j = i
    BY <2>2 DEF NoTwice
  <2>4. Queued(e) = {<<l, i>>}
    BY <1>1, <2>2, <2>3
  <2>. QED
    BY <1>2, <2>4, FS_Singleton
<1>3. CASE e \notin PqItems(queue)
  <2>1. Queued(e) = {}
    BY <1>1, <1>3, Places
  <2>. QED
    BY <1>3, <2>1, FS_EmptySet
<1>. QED
  BY <1>2, <1>3

\* The workers that hold an emergency without having stored it: one or none.
LEMMA HoldersCount ==
    ASSUME HeldApart, NoEmergency \notin Emergency, NEW e \in Emergency
    PROVE  Cardinality(Holders(e)) =
               IF StoredTimes(e) = 0 /\ \E w \in Worker : wEm[w] = e THEN 1 ELSE 0
<1>1. CASE StoredTimes(e) = 0 /\ \E w \in Worker : wEm[w] = e
  <2>1. PICK w \in Worker : wEm[w] = e
    BY <1>1
  <2>2. Holders(e) = {w}
    BY <1>1, <2>1 DEF Holders, HeldApart, StoredTimes
  <2>. QED
    BY <1>1, <2>2, FS_Singleton
<1>2. CASE ~ (StoredTimes(e) = 0 /\ \E w \in Worker : wEm[w] = e)
  <2>1. Holders(e) = {}
    BY <1>2 DEF Holders, StoredTimes
  <2>. QED
    BY <1>2, <2>1, FS_EmptySet
<1>. QED
  BY <1>1, <1>2

\* No emergency is lost or duplicated while the server runs, for any number
\* of workers and any order of their steps, the receiver's and the
\* updater's (thread_worker.c:55, 32; thread_updater.c:182-185, 200-202).
THEOREM NothingLost == Spec => []Conservation
<1>1. ConserveInv => Conservation
  <2>. SUFFICES ASSUME ConserveInv, ~ stop, NEW e \in Emergency
                PROVE  Cardinality(Queued(e)) + Cardinality(Holders(e)) + Carried(e)
                           + completed[e] + canceled[e] =
                               IF e \in received THEN 1 ELSE 0
    BY DEF Conservation
  <2>1. HeldApart /\ StoredOnce /\ KeptSomewhere /\ ~ closed
    BY DEF ConserveInv, KeptInv, ClosedLate
  <2>2. /\ NoEmergency \notin Emergency
        /\ queue \in [Level -> Seq(Emergency)] /\ NoTwice(queue)
        /\ PqItems(queue) \subseteq received
        /\ uCarry \in received \cup {NoEmergency}
        /\ uCarry \notin PqItems(queue)
        /\ completed[e] \in Nat /\ canceled[e] \in Nat
    BY CardinalityAssumption, ItemsType DEF ConserveInv, SlotInv, OwnInv, OneOwner,
       CarriesAtMostOne, TypeInv, TypeOK, Known
  <2>3. /\ Cardinality(Queued(e)) = IF e \in PqItems(queue) THEN 1 ELSE 0
        /\ Cardinality(Holders(e)) =
               IF StoredTimes(e) = 0 /\ \E w \in Worker : wEm[w] = e THEN 1 ELSE 0
        /\ Carried(e) = IF e = uCarry THEN 1 ELSE 0
    BY <2>1, <2>2, QueuedCount, HoldersCount DEF Carried
  <2>. DEFINE inQueue == e \in PqItems(queue)
              held    == \E w \in Worker : wEm[w] = e
              carried == e = uCarry
              known   == e \in received
  <2>4. /\ inQueue => ~ held /\ ~ carried /\ StoredTimes(e) = 0 /\ known
        /\ held => ~ carried /\ known
        /\ carried => StoredTimes(e) = 0 /\ known
        /\ StoredTimes(e) = 1 => known
        /\ StoredTimes(e) \in {0, 1}
        /\ known => inQueue \/ carried \/ held \/ StoredTimes(e) = 1
    BY <2>1, <2>2 DEF HeldApart, StoredOnce, KeptSomewhere
  <2>5. /\ Cardinality(Queued(e)) = IF inQueue THEN 1 ELSE 0
        /\ Cardinality(Holders(e)) = IF StoredTimes(e) = 0 /\ held THEN 1 ELSE 0
        /\ Carried(e) = IF carried THEN 1 ELSE 0
        /\ completed[e] + canceled[e] = StoredTimes(e)
    BY <2>3 DEF StoredTimes
  <2>. HIDE DEF inQueue, held, carried, known
  <2>6. Cardinality(Queued(e)) + Cardinality(Holders(e)) + Carried(e) + StoredTimes(e) =
            IF known THEN 1 ELSE 0
    BY <2>4, <2>5
  <2>7. Cardinality(Queued(e)) + Cardinality(Holders(e)) + Carried(e)
            \in Nat
    BY <2>5
  <2>8. Cardinality(Queued(e)) + Cardinality(Holders(e)) + Carried(e)
            + completed[e] + canceled[e] = IF known THEN 1 ELSE 0
    BY <2>2, <2>5, <2>6, <2>7
  <2>. QED
    BY <2>8 DEF known
<1>. QED
  BY <1>1, InitConserve, ConserveNext, PTL DEF Spec

-----------------------------------------------------------------------------
(***************************************************************************)
(* The life of an emergency.  A step takes at most one emergency from one  *)
(* place of EmergencyLife to the next: the conservation of the last        *)
(* section says where it was, the shape of the step where it goes.         *)
(***************************************************************************)

\* An emergency stays where it is when what tells its place does.
LEMMA PlaceKept ==
    ASSUME TypeOK, NEW o \in Emergency, o \in received' <=> o \in received,
           completed'[o] = completed[o], canceled'[o] = canceled[o],
           \/ StoredTimes(o) > 0
           \/ /\ o \in PqItems(queue') <=> o \in PqItems(queue)
              /\ o = uCarry' <=> o = uCarry
              /\ (\E w \in Worker : wEm'[w] = o) <=> (\E w \in Worker : wEm[w] = o)
    PROVE  PlaceOf(o)' = PlaceOf(o)
<1>1. completed[o] \in Nat /\ canceled[o] \in Nat
  BY DEF TypeOK
<1>. QED
  BY <1>1 DEF PlaceOf, StoredTimes

\* When only e moves, the step is the move of e.
LEMMA OneMoves ==
    ASSUME NEW e \in Emergency, stop' = stop,
           \A o \in Emergency \ {e} : PlaceOf(o)' = PlaceOf(o)
    PROVE  Life!Move(e, PlaceOf(e), PlaceOf(e)')
BY DEF Life!Move

LEMMA NoneMoves ==
    ASSUME stop' = stop, \A o \in Emergency : PlaceOf(o)' = PlaceOf(o)
    PROVE  UNCHANGED Life!vars
BY DEF Life!vars

\* A step that moves no emergency: the flag may be raised.
LEMMA StillLives ==
    ASSUME ConserveInv, Still, stop' \in BOOLEAN
    PROVE  [Life!Next]_(Life!vars)
<1>1. stop \in BOOLEAN /\ (stop => stop')
  BY DEF Still, ConserveInv, SlotInv, OwnInv, TypeInv, TypeOK
<1>2. \A o \in Emergency : PlaceOf(o)' = PlaceOf(o)
  BY DEF Still, PlaceOf
<1>3. CASE stop' = stop
  BY <1>2, <1>3, NoneMoves
<1>4. CASE stop' # stop
  <2>1. Life!Stop
    BY <1>1, <1>2, <1>4 DEF Life!Stop
  <2>. QED
    BY <2>1 DEF Life!Next
<1>. QED
  BY <1>3, <1>4

\* The receiver and the updater at the queue (thread_reciever.c:35-37;
\* thread_updater.c:198-203): a push into the closed queue loses the emergency.
LEMMA QueueMoveLives ==
    ASSUME ConserveInv, NEW e \in Emergency, QueueMove(e)
    PROVE  Life!Next
<1>1. HeldApart /\ StoredOnce
  BY DEF ConserveInv, KeptInv
<1>2. /\ TypeOK /\ NoEmergency \notin Emergency
      /\ completed[e] \in Nat /\ canceled[e] \in Nat
      /\ uCarry \in received \cup {NoEmergency} /\ uCarry \notin PqItems(queue)
      /\ closed => stop
  BY CardinalityAssumption DEF ConserveInv, SlotInv, OwnInv, TypeInv, TypeOK,
     CarriesAtMostOne, OneOwner, ClosedLate
<1>3. PqItems(queue) \subseteq received
  BY ItemsType DEF ConserveInv, SlotInv, OwnInv, TypeInv, Known
<1>4. completed[e] = 0 /\ canceled[e] = 0
  BY <1>1, <1>2 DEF QueueMove, Enters, Extracted, Requeued, StoredOnce, StoredTimes
<1>5. Life!Move(e, PlaceOf(e), PlaceOf(e)')
  <2>1. \A o \in Emergency \ {e} : PlaceOf(o)' = PlaceOf(o)
    BY <1>2, PlaceKept DEF QueueMove, Enters, Extracted, Requeued
  <2>. QED
    BY <2>1, OneMoves DEF QueueMove
<1>6. ~ \E w \in Worker : wEm[w] = e
  BY <1>1, <1>2 DEF QueueMove, Enters, Extracted, Requeued, HeldApart
<1>7. CASE Enters(e)
  <2>1. PlaceOf(e) = "nowhere"
    BY <1>7 DEF Enters, PlaceOf
  <2>2. PlaceOf(e)' = IF closed THEN "lost" ELSE "waiting"
    BY <1>2, <1>3, <1>4, <1>6, <1>7 DEF QueueMove, Enters, PlaceOf
  <2>. QED
    BY <1>2, <1>5, <2>1, <2>2 DEF Life!Next, Life!Accept, Life!Lose
<1>8. CASE Extracted(e)
  <2>1. PlaceOf(e) = "waiting"
    BY <1>3, <1>4, <1>8 DEF Extracted, PlaceOf
  <2>2. PlaceOf(e)' = "promoted"
    BY <1>3, <1>4, <1>8 DEF QueueMove, Extracted, PlaceOf
  <2>. QED
    BY <1>5, <2>1, <2>2 DEF Life!Next, Life!TakeOut
<1>9. CASE Requeued(e)
  <2>1. PlaceOf(e) = "promoted"
    BY <1>2, <1>4, <1>9 DEF Requeued, PlaceOf
  <2>2. PlaceOf(e)' = IF closed THEN "lost" ELSE "waiting"
    BY <1>2, <1>4, <1>6, <1>9 DEF QueueMove, Requeued, PlaceOf
  <2>. QED
    BY <1>2, <1>5, <2>1, <2>2 DEF Life!Next, Life!PutBack, Life!Lose
<1>. QED
  BY <1>7, <1>8, <1>9 DEF QueueMove

\* A worker takes an emergency out of the queue (thread_worker.c:55).
LEMMA PopMoveLives ==
    ASSUME ConserveInv, NEW w \in Worker, NEW e \in Emergency, PopMove(w, e)
    PROVE  Life!Next
<1>1. StoredOnce /\ wEm[w] = NoEmergency
  BY DEF ConserveInv, KeptInv, PlaceTells, PopMove
<1>2. /\ TypeOK /\ NoEmergency \notin Emergency
      /\ completed[e] \in Nat /\ canceled[e] \in Nat
      /\ wEm \in [Worker -> Emergency \cup {NoEmergency}]
      /\ uCarry \notin PqItems(queue)
  BY CardinalityAssumption DEF ConserveInv, SlotInv, OwnInv, TypeInv, TypeOK, OneOwner
<1>3. PqItems(queue) \subseteq received
  BY ItemsType DEF ConserveInv, SlotInv, OwnInv, TypeInv, Known
<1>4. completed[e] = 0 /\ canceled[e] = 0
  BY <1>1, <1>2 DEF PopMove, StoredOnce, StoredTimes
<1>5. \A v \in Worker : wEm'[v] = IF v = w THEN e ELSE wEm[v]
  BY <1>2 DEF PopMove
<1>6. \A o \in Emergency \ {e} : PlaceOf(o)' = PlaceOf(o)
  <2>1. \A o \in Emergency \ {e} :
            (\E v \in Worker : wEm'[v] = o) <=> (\E v \in Worker : wEm[v] = o)
    BY <1>1, <1>2, <1>5
  <2>. QED
    BY <1>2, <2>1, PlaceKept DEF PopMove
<1>7. Life!Move(e, PlaceOf(e), PlaceOf(e)')
  BY <1>6, OneMoves DEF PopMove
<1>8. PlaceOf(e) = "waiting"
  BY <1>3, <1>4 DEF PopMove, PlaceOf
<1>9. PlaceOf(e)' = "served"
  BY <1>2, <1>3, <1>4, <1>5 DEF PopMove, PlaceOf
<1>. QED
  BY <1>7, <1>8, <1>9 DEF Life!Next, Life!Serve

\* An emergency is stored.  Only a worker that ends stores one that is stored
\* already, and only as canceled (thread_worker.c:85-88).
LEMMA StoreMoveLives ==
    ASSUME ConserveInv, NEW e \in Emergency, StoreMove(e)
    PROVE  [Life!Next]_(Life!vars)
<1>1. HeldApart /\ StoredOnce /\ PlaceTells
  BY DEF ConserveInv, KeptInv
<1>2. /\ TypeOK /\ NoEmergency \notin Emergency
      /\ completed \in [Emergency -> Nat] /\ canceled \in [Emergency -> Nat]
      /\ completed[e] \in Nat /\ canceled[e] \in Nat
  BY CardinalityAssumption DEF ConserveInv, SlotInv, OwnInv, TypeInv, TypeOK
<1>3. PqItems(queue) \subseteq received
  BY ItemsType DEF ConserveInv, SlotInv, OwnInv, TypeInv, Known
<1>4. \A o \in Emergency \ {e} : PlaceOf(o)' = PlaceOf(o)
  <2>1. \A o \in Emergency \ {e} : completed'[o] = completed[o] /\ canceled'[o] = canceled[o]
    BY <1>2 DEF StoreMove, Store
  <2>2. \A o \in Emergency \ {e} : o \in PqItems(queue') <=> o \in PqItems(queue)
    BY DEF StoreMove
  <2>. QED
    BY <1>2, <2>1, <2>2, PlaceKept DEF StoreMove
<1>5. Life!Move(e, PlaceOf(e), PlaceOf(e)')
  BY <1>4, OneMoves DEF StoreMove
<1>6. \/ completed'[e] = completed[e] + 1 /\ canceled'[e] = canceled[e]
      \/ canceled'[e] = canceled[e] + 1 /\ completed'[e] = completed[e]
  BY <1>2 DEF StoreMove, Store
<1>7. e \in received /\ received' = received
  BY <1>1, <1>2, <1>3 DEF StoreMove, HeldApart
<1>8. PlaceOf(e)' = IF completed'[e] > 0
                    THEN IF canceled'[e] > 0 THEN "twice" ELSE "completed"
                    ELSE "canceled"
  BY <1>2, <1>6, <1>7 DEF PlaceOf
<1>9. CASE e \in PqItems(queue) /\ UNCHANGED completed
  <2>1. completed[e] = 0 /\ canceled[e] = 0
    BY <1>1, <1>2, <1>9 DEF StoredOnce, StoredTimes
  <2>2. PlaceOf(e) = "waiting" /\ PlaceOf(e)' = "canceled"
    BY <1>6, <1>7, <1>8, <1>9, <2>1 DEF PlaceOf
  <2>. QED
    BY <1>5, <2>2 DEF Life!Next, Life!Expire
<1>10. ASSUME NEW w \in Worker, wEm[w] = e, completed[e] = 0, canceled[e] = 0
       PROVE  Life!Next
  <2>1. e # uCarry /\ e \notin PqItems(queue)
    BY <1>1, <1>2, <1>10 DEF HeldApart
  <2>2. PlaceOf(e) = "served"
    BY <1>2, <1>7, <1>10, <2>1 DEF PlaceOf
  <2>3. PlaceOf(e)' \in {"completed", "canceled"}
    BY <1>6, <1>8, <1>10
  <2>. QED
    BY <1>5, <2>2, <2>3 DEF Life!Next, Life!Complete, Life!GiveUp
<1>11. ASSUME StoredTimes(e) > 0, stop, UNCHANGED completed
       PROVE  [Life!Next]_(Life!vars)
  <2>1. CASE completed[e] > 0 /\ canceled[e] = 0
    <3>1. PlaceOf(e) = "completed" /\ PlaceOf(e)' = "twice"
      BY <1>2, <1>6, <1>7, <1>8, <1>11, <2>1 DEF PlaceOf
    <3>. QED
      BY <1>5, <1>11, <3>1 DEF Life!Next, Life!StoreTwice
  <2>2. CASE canceled[e] > 0
    <3>1. PlaceOf(e)' = PlaceOf(e)
      BY <1>2, <1>6, <1>7, <1>8, <1>11, <2>2 DEF PlaceOf
    <3>. QED
      BY <1>4, <3>1, NoneMoves DEF StoreMove
  <2>. QED
    BY <1>2, <1>11, <2>1, <2>2 DEF StoredTimes
<1>12. ASSUME NEW w \in Worker, wEm[w] = e, wPc[w] \in Holding \ {"after"}
       PROVE  completed[e] = 0 /\ canceled[e] = 0
  BY <1>1, <1>2, <1>12 DEF PlaceTells, StoredTimes
<1>13. (completed[e] = 0 /\ canceled[e] = 0) \/ StoredTimes(e) > 0
  BY <1>2 DEF StoredTimes
<1>. QED
  BY <1>9, <1>10, <1>11, <1>12, <1>13 DEF StoreMove

\* What a worker lets go of is stored (thread_worker.c:90).
LEMMA ReleaseLives ==
    ASSUME ConserveInv, NEW w \in Worker, WorkerRelease(w)
    PROVE  UNCHANGED Life!vars
<1>1. /\ TypeOK /\ NoEmergency \notin Emergency
      /\ wEm \in [Worker -> Emergency \cup {NoEmergency}]
  BY CardinalityAssumption DEF ConserveInv, SlotInv, OwnInv, TypeInv, TypeOK
<1>2. StoredTimes(wEm[w]) > 0
  BY DEF ConserveInv, KeptInv, PlaceTells, WorkerRelease, Goto
<1>3. \A v \in Worker : wEm'[v] = IF v = w THEN NoEmergency ELSE wEm[v]
  BY <1>1 DEF WorkerRelease
<1>4. UNCHANGED <<queue, stop, completed, canceled, received, uCarry>>
  BY DEF WorkerRelease, storeVars
<1>5. \A o \in Emergency : \/ StoredTimes(o) > 0
                           \/ (\E v \in Worker : wEm'[v] = o)
                                  <=> (\E v \in Worker : wEm[v] = o)
  BY <1>1, <1>2, <1>3
<1>6. \A o \in Emergency : PlaceOf(o)' = PlaceOf(o)
  BY <1>1, <1>4, <1>5, PlaceKept
<1>. QED
  BY <1>4, <1>6, NoneMoves

\* The threads give every emergency the life its sender may expect, for any
\* number of threads, emergencies and levels and any order of the steps: it
\* passes from hand to hand in one order only, it leaves the stores never, and
\* a dropped push or a second store is all that may happen to it while the
\* server stops (thread_worker.c:54-91; thread_updater.c:161-206;
\* priority_queue.c:84-88).
THEOREM LifeImplemented == Spec => ImplementsLife
<1>1. Init => Life!Init
  BY DEF Init, Life!Init, PlaceOf
<1>2. ConserveInv /\ ConserveInv' /\ [Next]_vars => [Life!Next]_(Life!vars)
  <2>. SUFFICES ASSUME ConserveInv, ConserveInv', [Next]_vars
                PROVE  [Life!Next]_(Life!vars)
    OBVIOUS
  <2>1. stop' \in BOOLEAN
    BY DEF ConserveInv, SlotInv, OwnInv, TypeInv, TypeOK
  <2>. QED
    BY <2>1, StepShape, StillLives, QueueMoveLives, StoreMoveLives, PopMoveLives,
       ReleaseLives
<1>. QED
  BY <1>1, <1>2, InitConserve, ConserveNext, PTL DEF Spec, ImplementsLife, Life!Spec

-----------------------------------------------------------------------------
(***************************************************************************)
(* Complete means served.  The updater declares an emergency complete by   *)
(* its counter, which is zero only when nobody is at work and nobody is    *)
(* wanted: that is Accounting.  Later it must stay so, and the worker that *)
(* writes the status a second time must write it of a complete emergency.  *)
(***************************************************************************)
CompleteSettled ==
    \A w \in Worker : wPc[w] = "complete" => status[wEm[w]] = "COMPLETED"

ServedInv == /\ OwnInv /\ CrewsMatch /\ Accounting
             /\ CompletedMeansServed /\ CompleteSettled

\* The counter at zero.
LEMMA ZeroMeansServed ==
    ASSUME NEW c \in SUBSET Twin, NEW m \in [RescuerType -> Nat],
           Cardinality(c) + Cardinality(Units(m)) <= 0
    PROVE  c = {} /\ m = NoDemand
<1>1. /\ IsFiniteSet(c)
      /\ Cardinality(c) \in Nat /\ Cardinality(Units(m)) \in Nat
  BY TwinsFinite, UnitsFinite
<1>2. Cardinality(c) = 0 /\ Cardinality(Units(m)) = 0
  BY <1>1
<1>. QED
  BY <1>1, <1>2, NoUnits, FS_EmptySet

\* Steps that touch no crew and no demand, and complete nothing anew.
LEMMA ServedKept ==
    ASSUME CompletedMeansServed, UNCHANGED <<crew, missing>>,
           \A e \in Emergency : status'[e] = "COMPLETED" => status[e] = "COMPLETED"
    PROVE  CompletedMeansServed'
BY DEF CompletedMeansServed

LEMMA SettledCompleteKept ==
    ASSUME CompleteSettled,
           \A w \in Worker : wPc'[w] = "complete" =>
               wPc[w] = "complete" /\ wEm'[w] = wEm[w] /\ status'[wEm[w]] = status[wEm[w]]
    PROVE  CompleteSettled'
BY DEF CompleteSettled

\* A new request wants somebody, or is not complete at any rate
\* (thread_reciever.c:45-94).
LEMMA ServedReceive ==
    ASSUME ServedInv, NEW e \in Emergency, Receive(e)
    PROVE  CompletedMeansServed' /\ CompleteSettled'
<1>1. /\ \A o \in Emergency : o # e => UNCHANGED <<status[o], crew[o], missing[o]>>
      /\ status'[e] = "WAITING"
  BY DEF Receive, Born, ServedInv, OwnInv, TypeInv, TypeOK
<1>2. UNCHANGED <<wPc, wEm>>
  BY DEF Receive
<1>3. \A w \in Worker : wPc[w] = "complete" => wEm[w] # e /\ wEm[w] \in Emergency
  BY DEF Receive, ServedInv, OwnInv, TypeInv, TypeOK, Known, Holding, Working
<1>. QED
  BY <1>1, <1>2, <1>3 DEF ServedInv, CompletedMeansServed, CompleteSettled

\* A search takes twins only from emergencies that have some, and they are
\* not complete; its own emergency wants some (thread_worker.c:177-198).
LEMMA FindSparesComplete ==
    ASSUME ServedInv, NEW w \in Worker, WorkerFind(w),
           NEW o \in Emergency, status[o] = "COMPLETED"
    PROVE  status'[o] = status[o] /\ crew'[o] = {} /\ missing'[o] = NoDemand
<1>0. TypeInv /\ CrewsMatch /\ CompletedMeansServed
  BY DEF ServedInv, OwnInv
<1>. DEFINE e == wEm[w]
<1>1. PICK C \in SUBSET Twin :
          Preempt(e, C) /\ Assign(e, C)
              /\ wPc' = [Woken(NewlyPaused(C)) EXCEPT ![w] = "wait"]
  BY DEF WorkerFind, Candidates, Eligible
<1>2. /\ e \in Emergency /\ wPc[w] = "find" /\ missing[e] # NoDemand
      /\ missing \in [Emergency -> [RescuerType -> Nat]]
  BY <1>0 DEF WorkerFind, TypeInv, TypeOK, Known, Holding, Working
<1>. HIDE DEF e
<1>3. crew[o] = {} /\ missing[o] = NoDemand
  BY <1>0 DEF CompletedMeansServed
<1>4. o # e /\ Stolen(C, o) = {}
  BY <1>0, <1>2, <1>3 DEF CrewsMatch, Stolen
<1>5. status'[o] = status[o] /\ crew'[o] = {}
  BY <1>1, <1>3, <1>4 DEF Preempt, Assign
<1>6. missing'[o] = [r \in RescuerType |->
                        missing[o][r] + Cardinality(OfType(Stolen(C, o), r))]
  BY <1>1, <1>4 DEF Preempt
<1>7. \A r \in RescuerType : Cardinality(OfType(Stolen(C, o), r)) = 0
  BY <1>4, FS_EmptySet DEF OfType
<1>8. missing'[o] = NoDemand
  BY <1>3, <1>6, <1>7 DEF NoDemand
<1>. QED
  BY <1>5, <1>8

LEMMA ServedFind ==
    ASSUME ServedInv, NEW w \in Worker, WorkerFind(w)
    PROVE  CompletedMeansServed' /\ CompleteSettled'
<1>0. TypeInv /\ CompletedMeansServed /\ CompleteSettled
  BY DEF ServedInv, OwnInv
<1>1. PICK C \in SUBSET Twin :
          /\ Preempt(wEm[w], C)
          /\ wPc' = [Woken(NewlyPaused(C)) EXCEPT ![w] = "wait"]
  BY DEF WorkerFind, Candidates, Eligible
<1>2. wPc \in [Worker -> WorkerPc] /\ wEm' = wEm
  BY <1>0 DEF WorkerFind, TypeInv, TypeOK
<1>3. \A o \in Emergency : status[o] = "COMPLETED" =>
          status'[o] = status[o] /\ crew'[o] = {} /\ missing'[o] = NoDemand
  BY FindSparesComplete
<1>4. ASSUME NEW o \in Emergency, status'[o] = "COMPLETED"
      PROVE  status[o] = "COMPLETED"
  BY <1>1, <1>4 DEF Preempt
<1>5. CompletedMeansServed'
  BY <1>3, <1>4 DEF CompletedMeansServed
<1>6. \A v \in Worker : wPc'[v] = "complete" => wPc[v] = "complete"
  BY <1>1, <1>2 DEF Woken
<1>7. \A v \in Worker : wPc[v] = "complete" => wEm[v] \in Emergency
  BY <1>0 DEF TypeInv, TypeOK, Known, Holding, Working
<1>8. CompleteSettled'
  BY <1>0, <1>2, <1>3, <1>6, <1>7 DEF CompleteSettled
<1>. QED
  BY <1>5, <1>8

\* The other steps of a worker.
LEMMA ServedWorker ==
    ASSUME ServedInv, NEW w \in Worker, WorkerStep(w), ~ WorkerFind(w)
    PROVE  CompletedMeansServed' /\ CompleteSettled'
<1>0. /\ TypeInv /\ OneOwner /\ CompletedMeansServed /\ CompleteSettled
      /\ wPc \in [Worker -> WorkerPc]
      /\ wEm \in [Worker -> Emergency \cup {NoEmergency}]
      /\ status \in [Emergency -> EmergencyStatus]
      /\ \A v \in Worker : wPc[v] \in Holding => wEm[v] \in Emergency
  BY DEF ServedInv, OwnInv, TypeInv, TypeOK, Known
<1>1. CASE WorkerLoop(w) \/ WorkerPop(w) \/ WorkerPopClosed(w) \/ WorkerInner(w)
           \/ WorkerFindNothing(w) \/ WorkerFindFails(w) \/ WorkerFindOverrun(w)
           \/ WorkerWait(w) \/ WorkerRelease(w)
  <2>1. UNCHANGED <<status, crew, missing>>
    BY <1>1 DEF WorkerLoop, WorkerPop, WorkerPopClosed, WorkerInner,
       WorkerFindNothing, WorkerFindFails, WorkerFindOverrun, WorkerWait,
       WorkerRelease, BecomeUndefined, emergencyVars
  <2>2. \A v \in Worker : wPc'[v] = "complete" =>
            wPc[v] = "complete" /\ wEm'[v] = wEm[v]
    BY <1>0, <1>1 DEF WorkerLoop, WorkerPop, WorkerPopClosed, WorkerInner,
       WorkerFindNothing, WorkerFindFails, WorkerFindOverrun, WorkerWait,
       WorkerRelease, BecomeUndefined, Goto
  <2>. QED
    BY <1>0, <2>1, <2>2, ServedKept, SettledCompleteKept
<1>2. CASE WorkerDispatch(w)
  <2>1. UNCHANGED <<status, crew, missing, wEm>>
    BY <1>2 DEF WorkerDispatch, emergencyVars
  <2>2. \A v \in Worker : wPc'[v] = "complete" =>
            \/ wPc[v] = "complete"
            \/ v = w /\ status[wEm[w]] = "COMPLETED"
    <3>1. PICK to : wPc' = [wPc EXCEPT ![w] = to]
      BY <1>2 DEF WorkerDispatch, Goto
    <3>2. \A v \in Worker : v # w => wPc'[v] = wPc[v]
      BY <1>0, <3>1
    <3>3. wPc'[w] = "complete" => status[wEm[w]] = "COMPLETED"
      BY <1>0, <1>2 DEF WorkerDispatch, Goto
    <3>. QED
      BY <3>2, <3>3
  <2>. QED
    BY <1>0, <2>1, <2>2, ServedKept DEF CompleteSettled
<1>3. CASE WorkerOpen(w) \/ WorkerTimeout(w) \/ WorkerCancel(w) \/ WorkerComplete(w)
  <2>1. UNCHANGED <<crew, missing, wEm>>
    BY <1>3 DEF WorkerOpen, WorkerTimeout, WorkerCancel, WorkerComplete
  <2>2. PICK news : /\ status' = [status EXCEPT ![wEm[w]] = news]
                    /\ news = "COMPLETED" => wPc[w] = "complete"
    BY <1>3 DEF WorkerOpen, WorkerTimeout, WorkerCancel, WorkerComplete, StoreAs, Goto
  <2>3. wPc[w] \in Holding
    BY <1>3 DEF WorkerOpen, WorkerTimeout, WorkerCancel, WorkerComplete, Goto,
       Holding, Working
  <2>4. \A e \in Emergency : status'[e] = "COMPLETED" => status[e] = "COMPLETED"
    BY <1>0, <2>2 DEF CompleteSettled
  <2>5. \A v \in Worker : wPc'[v] = "complete" => wPc[v] = "complete" /\ v # w
    BY <1>0, <1>3 DEF WorkerOpen, WorkerTimeout, WorkerCancel, WorkerComplete, Goto
  <2>6. \A v \in Worker : wPc[v] = "complete" /\ v # w =>
            wEm[v] # wEm[w] /\ wEm[v] \in Emergency
    BY <1>0, <2>3 DEF OneOwner, Holding, Working
  <2>. QED
    BY <1>0, <2>1, <2>2, <2>4, <2>5, <2>6, ServedKept, SettledCompleteKept
<1>. QED
  BY <1>1, <1>2, <1>3 DEF WorkerStep

\* A round declares complete those whose counter it has brought to zero
\* (thread_updater.c:132-159).
LEMMA ServedTick ==
    ASSUME ServedInv, UpdaterTick
    PROVE  CompletedMeansServed' /\ CompleteSettled'
<1>0. TypeInv /\ TypeInv' /\ Accounting' /\ CompletedMeansServed /\ CompleteSettled
  BY NextTypes, AccountingNext DEF ServedInv, OwnInv, Next, Step, UpdaterStep
<1>1. /\ UpdateTwins /\ UpdateActive /\ missing' = missing /\ wEm' = wEm
  BY DEF UpdaterTick
<1>2. \A e \in Emergency : status'[e] = "COMPLETED" =>
          e \in Done \/ status[e] = "COMPLETED"
  BY <1>1 DEF UpdateActive
<1>3. \A e \in Emergency : status[e] = "COMPLETED" => status'[e] = "COMPLETED"
  BY <1>1 DEF UpdateActive, Started
<1>4. ASSUME NEW e \in Emergency, e \in Done
      PROVE  crew'[e] = {} /\ missing'[e] = NoDemand
  <2>1. notDone'[e] <= 0
    BY <1>4 DEF Done
  <2>2. notDone'[e] = Cardinality(crew'[e]) + Cardinality(Units(missing'[e]))
    BY <1>0 DEF Accounting
  <2>3. crew'[e] \in SUBSET Twin /\ missing'[e] \in [RescuerType -> Nat]
    BY <1>0 DEF TypeInv, TypeOK
  <2>. QED
    BY <2>1, <2>2, <2>3, ZeroMeansServed
<1>5. \A e \in Emergency : crew'[e] \subseteq crew[e]
  BY <1>1 DEF UpdateTwins
<1>6. CompletedMeansServed'
  BY <1>0, <1>1, <1>2, <1>4, <1>5 DEF CompletedMeansServed
<1>7. \A v \in Worker : wPc'[v] = "complete" => wPc[v] = "complete"
  BY <1>1 DEF UpdateActive, Woken
<1>8. \A v \in Worker : wPc[v] = "complete" => wEm[v] \in Emergency
  BY <1>0 DEF TypeInv, TypeOK, Known, Holding, Working
<1>9. CompleteSettled'
  BY <1>0, <1>1, <1>3, <1>7, <1>8 DEF CompleteSettled
<1>. QED
  BY <1>6, <1>9

\* The other steps complete nothing, and touch no emergency at work.
LEMMA ServedOthers ==
    ASSUME ServedInv,
           \/ UpdaterStep /\ ~ UpdaterTick
           \/ MainStep \/ \E sig \in Signal : MainSignal(sig)
           \/ ReceiverLoop \/ ReceiverDiscard \/ ReceiverStop
           \/ UNCHANGED vars
    PROVE  CompletedMeansServed' /\ CompleteSettled'
<1>0. CompletedMeansServed /\ CompleteSettled
  BY DEF ServedInv
<1>1. CASE UpdaterExpire
  <2>1. PICK l \in Level : \E i \in 1 .. Len(queue[l]) :
            status' = [status EXCEPT ![queue[l][i]] = "TIMEOUT"]
    BY <1>1 DEF UpdaterExpire
  <2>2. PICK i \in 1 .. Len(queue[l]) : status' = [status EXCEPT ![queue[l][i]] = "TIMEOUT"]
    BY <2>1
  <2>3. queue[l][i] \in PqItems(queue)
    BY Places DEF ServedInv, OwnInv, TypeInv, TypeOK
  <2>4. UNCHANGED <<crew, missing, wPc, wEm>>
    BY <1>1 DEF UpdaterExpire, threadVars
  <2>5. \A w \in Worker : wPc[w] = "complete" => wEm[w] # queue[l][i]
    BY <2>3 DEF ServedInv, OwnInv, OneOwner, Holding, Working
  <2>6. \A o : o # queue[l][i] => status'[o] = status[o]
    BY <2>2
  <2>7. \A o \in Emergency : status'[o] = "COMPLETED" => status[o] = "COMPLETED"
    BY <2>2 DEF ServedInv, OwnInv, TypeInv, TypeOK
  <2>. QED
    BY <1>0, <2>4, <2>5, <2>6, <2>7, ServedKept, SettledCompleteKept
<1>2. CASE ~ UpdaterExpire
  <2>1. UNCHANGED <<status, crew, missing, wEm>>
    BY <1>2 DEF UpdaterStep, UpdaterLoop, UpdaterAstray, UpdaterMap,
       UpdaterExpired, UpdaterExtract, UpdaterPromote, UpdaterPromoted,
       BecomeUndefined, MainStep, MainSignal, MainCloseQueue, MainBroadcast,
       MainJoin, ReceiverLoop, ReceiverDiscard, ReceiverStop, emergencyVars,
       threadVars, vars
  <2>2. \/ wPc' = wPc \/ wPc' = Woken(Active)
        \/ \A v \in Worker : wPc'[v] = "undefined"
    BY <1>2 DEF UpdaterStep, UpdaterLoop, UpdaterAstray, UpdaterMap,
       UpdaterExpired, UpdaterExtract, UpdaterPromote, UpdaterPromoted,
       BecomeUndefined, MainStep, MainSignal, MainCloseQueue, MainBroadcast,
       MainJoin, ReceiverLoop, ReceiverDiscard, ReceiverStop, vars, threadVars
  <2>3. \A v \in Worker : wPc'[v] = "complete" => wPc[v] = "complete"
    BY <2>2 DEF Woken
  <2>. QED
    BY <1>0, <2>1, <2>3, ServedKept, SettledCompleteKept
<1>. QED
  BY <1>1, <1>2

\* The invariant of this section.
LEMMA InitServed == Init => ServedInv
<1>1. Init => CrewsMatch
  BY CardinalityAssumption DEF Init, CrewsMatch
<1>2. Init => CompletedMeansServed /\ CompleteSettled
  BY DEF Init, CompletedMeansServed, CompleteSettled
<1>. QED
  BY <1>1, <1>2, InitOwnInv, InitAccounting DEF ServedInv

LEMMA ServedNext == ServedInv /\ [Next]_vars => ServedInv'
<1>. SUFFICES ASSUME ServedInv, [Next]_vars PROVE ServedInv'
  OBVIOUS
<1>1. OwnInv' /\ CrewsMatch' /\ Accounting'
  BY OwnNext, CrewsMatchNext, AccountingNext DEF ServedInv, OwnInv
<1>2. CompletedMeansServed' /\ CompleteSettled'
  BY ServedReceive, ServedFind, ServedWorker, ServedTick, ServedOthers
  DEF Next, Step, Over, ReceiverStep
<1>. QED
  BY <1>1, <1>2 DEF ServedInv

\* An emergency is declared complete only when everybody it asked for has
\* come, worked and left, whatever was stolen from it meanwhile and however
\* late its worker notices (thread_updater.c:152-154, thread_worker.c:80).
THEOREM CompleteIsServed == Spec => []CompletedMeansServed
<1>1. ServedInv => CompletedMeansServed
  BY DEF ServedInv
<1>. QED
  BY <1>1, InitServed, ServedNext, PTL DEF Spec

-----------------------------------------------------------------------------
(***************************************************************************)
(* What is completed stays so.  The emergency in the store has no twin any *)
(* more (the last section) and is in no hands that would change it (the    *)
(* section on conservation); a worker that ends may store it again.        *)
(***************************************************************************)
StatusStays ==
    \A e \in Emergency : completed[e] > 0 /\ canceled[e] = 0 => status[e] = "COMPLETED"

\* Steps that store nothing and change the status of nothing that is stored.
LEMMA StatusKept ==
    ASSUME StatusStays, UNCHANGED <<completed, canceled>>,
           \A e \in Emergency : completed[e] > 0 /\ status[e] = "COMPLETED" =>
               status'[e] = "COMPLETED"
    PROVE  StatusStays'
BY DEF StatusStays

\* A step of a worker (thread_worker.c:7, 26-34, 191-197).
LEMMA StaysWorker ==
    ASSUME ConserveInv, ServedInv, StatusStays, NEW w \in Worker, WorkerStep(w)
    PROVE  StatusStays'
<1>0. /\ status \in [Emergency -> EmergencyStatus]
      /\ completed \in [Emergency -> Nat] /\ canceled \in [Emergency -> Nat]
      /\ \A e \in Emergency : completed[e] \in Nat /\ canceled[e] \in Nat
      /\ wPc[w] \in Holding => wEm[w] \in Emergency
      /\ PlaceTells
  BY DEF ConserveInv, SlotInv, OwnInv, TypeInv, TypeOK, Known, KeptInv
<1>1. CASE WorkerLoop(w) \/ WorkerPop(w) \/ WorkerPopClosed(w) \/ WorkerInner(w)
           \/ WorkerFindNothing(w) \/ WorkerFindFails(w) \/ WorkerFindOverrun(w)
           \/ WorkerWait(w) \/ WorkerDispatch(w) \/ WorkerRelease(w)
  <2>1. UNCHANGED <<status, completed, canceled>>
    BY <1>1 DEF WorkerLoop, WorkerPop, WorkerPopClosed, WorkerInner,
       WorkerFindNothing, WorkerFindFails, WorkerFindOverrun, WorkerWait,
       WorkerDispatch, WorkerRelease, BecomeUndefined, emergencyVars, storeVars
  <2>. QED
    BY <2>1, StatusKept
<1>2. CASE WorkerFind(w)
  <2>1. UNCHANGED <<completed, canceled>>
    BY <1>2 DEF WorkerFind, storeVars
  <2>. QED
    BY <1>2, <2>1, FindSparesComplete, StatusKept
<1>3. CASE WorkerOpen(w)
  <2>1. /\ UNCHANGED <<completed, canceled>>
        /\ status' = [status EXCEPT ![wEm[w]] = "ASSIGNED"]
        /\ wPc[w] = "open"
    BY <1>3 DEF WorkerOpen, Goto, storeVars
  <2>2. completed[wEm[w]] = 0
    BY <1>0, <2>1 DEF PlaceTells, StoredTimes, Holding
  <2>. QED
    BY <1>0, <2>1, <2>2, StatusKept
<1>4. CASE WorkerComplete(w)
  <2>1. wEm[w] \in Emergency
    BY <1>0, <1>4 DEF WorkerComplete, Goto, Holding, Working
  <2>. QED
    BY <1>0, <1>4, <2>1 DEF WorkerComplete, StatusStays
<1>5. CASE WorkerTimeout(w) \/ WorkerCancel(w)
  <2>1. wEm[w] \in Emergency
    BY <1>0, <1>5 DEF WorkerTimeout, WorkerCancel, Goto, Holding, Working
  <2>2. PICK news : status' = [status EXCEPT ![wEm[w]] = news]
    BY <1>5 DEF WorkerTimeout, WorkerCancel, StoreAs
  <2>3. /\ canceled' = [canceled EXCEPT ![wEm[w]] = @ + 1]
        /\ completed' = completed
    BY <1>5 DEF WorkerTimeout, WorkerCancel, StoreAs, StoreCanceled
  <2>. QED
    BY <1>0, <2>1, <2>2, <2>3 DEF StatusStays
<1>. QED
  BY <1>1, <1>2, <1>3, <1>4, <1>5 DEF WorkerStep

\* A step of the updater: it expires only what is in the queue
\* (thread_updater.c:132-159, 180-189).
LEMMA StaysUpdater ==
    ASSUME ConserveInv, ServedInv, StatusStays, UpdaterStep
    PROVE  StatusStays'
<1>0. /\ status \in [Emergency -> EmergencyStatus]
      /\ canceled \in [Emergency -> Nat]
      /\ queue \in [Level -> Seq(Emergency)]
      /\ \A e \in Emergency : completed[e] \in Nat /\ canceled[e] \in Nat
  BY DEF ConserveInv, SlotInv, OwnInv, TypeInv, TypeOK
<1>1. CASE UpdaterTick
  <2>1. UNCHANGED <<completed, canceled>>
    BY <1>1 DEF UpdaterTick, storeVars
  <2>2. \A e \in Emergency : status[e] = "COMPLETED" => status'[e] = "COMPLETED"
    BY <1>1 DEF UpdaterTick, UpdateActive, Started
  <2>. QED
    BY <2>1, <2>2, StatusKept
<1>2. CASE UpdaterExpire
  <2>1. PICK l \in Level : \E i \in 1 .. Len(queue[l]) :
            /\ status' = [status EXCEPT ![queue[l][i]] = "TIMEOUT"]
            /\ StoreCanceled(queue[l][i])
    BY <1>2 DEF UpdaterExpire
  <2>2. PICK i \in 1 .. Len(queue[l]) :
            /\ status' = [status EXCEPT ![queue[l][i]] = "TIMEOUT"]
            /\ StoreCanceled(queue[l][i])
    BY <2>1
  <2>3. completed' = completed /\ queue[l][i] \in Emergency
    BY <1>0, <1>2 DEF UpdaterExpire
  <2>. QED
    BY <1>0, <2>2, <2>3 DEF StoreCanceled, StatusStays
<1>3. CASE ~ UpdaterTick /\ ~ UpdaterExpire
  <2>1. UNCHANGED <<status, completed, canceled>>
    BY <1>3 DEF UpdaterStep, UpdaterLoop, UpdaterAstray, UpdaterMap,
       UpdaterExpired, UpdaterExtract, UpdaterPromote, UpdaterPromoted,
       BecomeUndefined, emergencyVars, storeVars
  <2>. QED
    BY <2>1, StatusKept
<1>. QED
  BY <1>1, <1>2, <1>3

LEMMA StaysNext ==
    ConserveInv /\ ServedInv /\ StatusStays /\ [Next]_vars => StatusStays'
<1>. SUFFICES ASSUME ConserveInv, ServedInv, StatusStays, [Next]_vars
              PROVE  StatusStays'
  OBVIOUS
<1>1. ASSUME NEW e \in Emergency, Receive(e)
      PROVE  StatusStays'
  <2>1. /\ \A o \in Emergency : o # e => status'[o] = status[o]
        /\ UNCHANGED <<completed, canceled>> /\ e \notin received
    BY <1>1 DEF Receive, Born, storeVars, ConserveInv, SlotInv, OwnInv, TypeInv, TypeOK
  <2>2. completed[e] \in Nat /\ canceled[e] \in Nat /\ StoredOnce
    BY DEF ConserveInv, SlotInv, OwnInv, TypeInv, TypeOK, KeptInv
  <2>3. ~ completed[e] > 0
    BY <2>1, <2>2 DEF StoredOnce, StoredTimes
  <2>. QED
    BY <2>1, <2>3, StatusKept
<1>2. CASE \/ UNCHANGED vars
           \/ MainStep \/ \E sig \in Signal : MainSignal(sig)
           \/ ReceiverLoop \/ ReceiverDiscard \/ ReceiverStop
  <2>1. UNCHANGED <<status, completed, canceled>>
    BY <1>2 DEF vars, emergencyVars, storeVars, MainStep, MainSignal, MainCloseQueue,
       MainBroadcast, MainJoin, ReceiverLoop, ReceiverDiscard, ReceiverStop
  <2>. QED
    BY <2>1, StatusKept
<1>. QED
  BY <1>1, <1>2, StaysWorker, StaysUpdater DEF Next, Step, Over, ReceiverStep

\* An emergency that has been completed has no twin that could be stolen or
\* could count for it, and its status stays COMPLETED until the server stops
\* and its worker stores it again; README.md:76 promises as much of every
\* store, and the code keeps it of this one (thread_worker.c:79, 191-197).
THEOREM CompletedStays == Spec => []CompletedUntouched
<1>1. Init => StatusStays
  BY DEF Init, StatusStays
<1>2. ServedInv /\ StatusStays => CompletedUntouched
  BY DEF ServedInv, StatusStays, CompletedMeansServed, CrewsMatch, CompletedUntouched
<1>. QED
  BY <1>1, <1>2, InitConserve, ConserveNext, InitServed, ServedNext, StaysNext, PTL
  DEF Spec

=============================================================================
