---------------------------- MODULE RescueServer ----------------------------
(***************************************************************************)
(* The threads of the server: the receiver, the updater, the workers and   *)
(* the main thread.  A step is a critical section, or a test of            *)
(* server_must_stop, or an operation of the priority queue.                *)
(*                                                                         *)
(* The updater and a worker that searches hold the mutex of the rescuers   *)
(* and then that of the emergencies (lock_system); everybody else takes    *)
(* only the second.  Twins and emergencies at work change in no other way, *)
(* so a critical section is one step.  An emergency in the queue is        *)
(* changed by the updater alone, under the mutex of the queue or after it  *)
(* has taken the emergency out.  The clock is the freedom of the updater   *)
(* to start a round at any time.                                           *)
(*                                                                         *)
(* The C standard gives no meaning to a read past the array of candidates  *)
(* or of a trajectory never initialised: such a step takes every thread to *)
(* "undefined" and the behaviour ends there, so that nothing is claimed    *)
(* about what comes after it.                                              *)
(***************************************************************************)
EXTENDS RescueState

CONSTANT Signal     \* the signals main may be sent, among SIGINT and SIGTERM

VARIABLES
    stop,       \* server_must_stop
    received,   \* the requests counted by valid_count
    wPc, wEm,   \* where each worker is, and its local e
    uPc, uCarry,\* where the updater is, and the e it is promoting
    rPc, mPc    \* where the receiver and main are

threadVars == <<wPc, wEm, uPc, uCarry, rPc, mPc>>
vars == <<emergencyVars, twinVars, queue, closed, storeVars, slot,
          stop, received, threadVars>>

WorkerPc == {"loop", "pop", "open", "inner", "find", "timeout", "wait",
             "sleep", "dispatch", "complete", "after", "dead", "undefined"}
\* Between open_slot and close_slot; with an emergency in hand.
Working == {"inner", "find", "timeout", "wait", "sleep", "dispatch", "complete"}
Holding == Working \cup {"open", "after"}
UpdaterPc == {"idle", "tick", "map", "expire", "promote", "requeue", "dead",
              "undefined"}
ReceiverPc == {"loop", "recv", "dead", "undefined"}
MainPc == {"run", "stopping", "closing", "joining", "closed", "undefined"}

Init ==
    /\ status = [e \in Emergency |-> "UNBORN"]
    /\ priority = [e \in Emergency |-> 0]
    /\ timeoutTimer = [e \in Emergency |-> NoTimeout]
    /\ promotionTimer = [e \in Emergency |-> NoPromotion]
    /\ missing = [e \in Emergency |-> NoDemand]
    /\ crew = [e \in Emergency |-> {}]
    /\ notArrived = [e \in Emergency |-> 0]
    /\ notDone = [e \in Emergency |-> 0]
    /\ tStatus = [t \in Twin |-> "IDLE"]
    /\ tEmergency = [t \in Twin |-> NoEmergency]
    /\ tTarget = [t \in Twin |-> NoCell]
    /\ tPos = [t \in Twin |-> BaseOf(t)]
    /\ tLeft = [t \in Twin |-> InvalidTime]
    /\ queue = PqEmpty /\ closed = FALSE
    /\ completed = [e \in Emergency |-> 0]
    /\ canceled = [e \in Emergency |-> 0]
    /\ slot = [w \in Worker |-> NoEmergency]
    /\ stop = FALSE /\ received = {}
    /\ wPc = [w \in Worker |-> "loop"]
    /\ wEm = [w \in Worker |-> NoEmergency]
    /\ uPc = "idle" /\ uCarry = NoEmergency
    /\ rPc = "loop" /\ mPc = "run"

\* Mutant: the level of the priority the emergency had.
PushAtOldLevel(e, level) ==
    queue' = IF closed THEN queue ELSE PqPush(queue, e, priority[e])

\* pq_push on emergency_queue: a closed queue drops the item.
PushWaiting(e, level) ==
    queue' = IF closed THEN queue ELSE PqPush(queue, e, level)

\* pq_push on canceled_emergencies, which is never closed.
StoreCanceled(e) == canceled' = [canceled EXCEPT ![e] = @ + 1]

\* The program has done what C gives no meaning to.
BecomeUndefined ==
    /\ wPc' = [w \in Worker |-> "undefined"]
    /\ uPc' = "undefined" /\ rPc' = "undefined" /\ mPc' = "undefined"
    /\ UNCHANGED <<emergencyVars, twinVars, queue, closed, storeVars, slot,
                   stop, received, wEm, uCarry>>

\* Mutant: the signal is forgotten.
NobodyWoken(S) == wPc

\* cnd_signal or cnd_broadcast on the conditions of the emergencies of S:
\* only the worker that owns an emergency ever waits on its condition.
Woken(S) == [w \in Worker |->
                IF wPc[w] = "sleep" /\ wEm[w] \in S THEN "wait" ELSE wPc[w]]

-----------------------------------------------------------------------------
(***************************************************************************)
(* The receiver (thread_reciever.c).                                       *)
(***************************************************************************)
ReceiverLoop ==
    /\ rPc = "loop"
    /\ rPc' = IF stop THEN "dead" ELSE "recv"
    /\ UNCHANGED <<emergencyVars, twinVars, queue, closed, storeVars, slot,
                   stop, received, wPc, wEm, uPc, uCarry, mPc>>

\* A message that is no legal request, or a failed mq_receive.
ReceiverDiscard ==
    /\ rPc = "recv"
    /\ rPc' = "loop"
    /\ UNCHANGED <<emergencyVars, twinVars, queue, closed, storeVars, slot,
                   stop, received, wPc, wEm, uPc, uCarry, mPc>>

\* mallocate_emergency.
Born(e) ==
    /\ status' = [status EXCEPT ![e] = "WAITING"]
    /\ priority' = [priority EXCEPT ![e] = BaseLevel[e]]
    /\ timeoutTimer' = [timeoutTimer EXCEPT ![e] = TimeBeforeTimeout[BaseLevel[e]]]
    /\ promotionTimer' =
          [promotionTimer EXCEPT ![e] = TimeBeforePromotion[BaseLevel[e]]]
    /\ missing' = [missing EXCEPT ![e] = Required[e]]
    /\ crew' = [crew EXCEPT ![e] = {}]
    /\ notArrived' = [notArrived EXCEPT ![e] = RescuerCount(e)]
    /\ notDone' = [notDone EXCEPT ![e] = RescuerCount(e)]

Receive(e) ==
    /\ rPc = "recv"
    /\ e \notin received
    /\ received' = received \cup {e}
    /\ Born(e)
    /\ PushWaiting(e, BaseLevel[e])
    /\ rPc' = "loop"
    /\ UNCHANGED <<twinVars, closed, storeVars, slot, stop,
                   wPc, wEm, uPc, uCarry, mPc>>

\* The "-stop" message main sends.
ReceiverStop ==
    /\ rPc = "recv" /\ mPc # "run"
    /\ rPc' = "dead"
    /\ UNCHANGED <<emergencyVars, twinVars, queue, closed, storeVars, slot,
                   stop, received, wPc, wEm, uPc, uCarry, mPc>>

-----------------------------------------------------------------------------
(***************************************************************************)
(* The workers (thread_worker.c).                                          *)
(***************************************************************************)

\* A step of w that only moves it along.
Goto(w, from, to) ==
    /\ wPc[w] = from
    /\ wPc' = [wPc EXCEPT ![w] = to]

WorkerLoop(w) ==
    /\ Goto(w, "loop", IF stop THEN "dead" ELSE "pop")
    /\ UNCHANGED <<emergencyVars, twinVars, queue, closed, storeVars, slot,
                   stop, received, wEm, uPc, uCarry, rPc, mPc>>

WorkerPop(w) ==
    /\ Goto(w, "pop", "open")
    /\ \E l \in Level :
          /\ PqTop(queue, l)
          /\ wEm' = [wEm EXCEPT ![w] = Head(queue[l])]
          /\ queue' = PqPop(queue, l)
    /\ UNCHANGED <<emergencyVars, twinVars, closed, storeVars, slot,
                   stop, received, uPc, uCarry, rPc, mPc>>

\* pq_pop returns NULL.
WorkerPopClosed(w) ==
    /\ Goto(w, "pop", "dead")
    /\ PqIsEmpty(queue) /\ closed
    /\ UNCHANGED <<emergencyVars, twinVars, queue, closed, storeVars, slot,
                   stop, received, wEm, uPc, uCarry, rPc, mPc>>

\* open_slot.
WorkerOpen(w) ==
    /\ Goto(w, "open", "inner")
    /\ slot' = [slot EXCEPT ![w] = wEm[w]]
    /\ status' = [status EXCEPT ![wEm[w]] = "ASSIGNED"]
    /\ UNCHANGED <<priority, timeoutTimer, promotionTimer, missing, crew,
                   notArrived, notDone, twinVars, queue, closed, storeVars,
                   stop, received, wEm, uPc, uCarry, rPc, mPc>>

WorkerInner(w) ==
    /\ Goto(w, "inner", IF stop THEN "after" ELSE "find")
    /\ UNCHANGED <<emergencyVars, twinVars, queue, closed, storeVars, slot,
                   stop, received, wEm, uPc, uCarry, rPc, mPc>>

\* Nobody is missing: find_rescuers_logging_blocking returns true at once.
WorkerFindNothing(w) ==
    /\ Goto(w, "find", "wait")
    /\ missing[wEm[w]] = NoDemand
    /\ UNCHANGED <<emergencyVars, twinVars, queue, closed, storeVars, slot,
                   stop, received, wEm, uPc, uCarry, rPc, mPc>>

\* Mutant: the worker of an emergency without rescuers waits for them.
WorkerFindFailsAndWaits(w) ==
    /\ Goto(w, "find", "wait")
    /\ missing[wEm[w]] # NoDemand
    /\ Candidates(wEm[w]) = {}
    /\ UNCHANGED <<emergencyVars, twinVars, queue, closed, storeVars, slot,
                   stop, received, wEm, uPc, uCarry, rPc, mPc>>

\* Not enough twins of some type: nothing changes, the search has failed.
WorkerFindFails(w) ==
    /\ Goto(w, "find", "timeout")
    /\ missing[wEm[w]] # NoDemand
    /\ Candidates(wEm[w]) = {}
    /\ UNCHANGED <<emergencyVars, twinVars, queue, closed, storeVars, slot,
                   stop, received, wEm, uPc, uCarry, rPc, mPc>>

\* The entries of rescuer_twins the last loop of the search has to fill.
EmptyEntries(e) == RescuerCount(e) - Cardinality(crew[e])

\* The loop fills more entries than there are candidates.
WorkerFindOverrun(w) ==
    /\ wPc[w] = "find"
    /\ missing[wEm[w]] # NoDemand
    /\ \E C \in Candidates(wEm[w]) : EmptyEntries(wEm[w]) > Cardinality(C)
    /\ BecomeUndefined

\* The members of C taken from another emergency.
Stolen(C, o) == {t \in C : tEmergency[t] = o}

\* Mutant: a stolen twin is no longer wanted.
PreemptForgets(e, C) ==
    /\ missing' = [o \in Emergency |->
          IF o = e THEN NoDemand
          ELSE [r \in RescuerType |->
                  missing[o][r] - Cardinality(OfType(Stolen(C, o), r))]]
    /\ notArrived' = [o \in Emergency |-> notArrived[o]
          + Cardinality({t \in Stolen(C, o) : tStatus[t] = "ON_SCENE"})]
    /\ status' = [o \in Emergency |->
          IF Stolen(C, o) # {} THEN "PAUSED" ELSE status[o]]

\* Mutant: every stolen twin is counted as arrived.
PreemptAllArrived(e, C) ==
    /\ missing' = [o \in Emergency |->
          IF o = e THEN NoDemand
          ELSE [r \in RescuerType |->
                  missing[o][r] + Cardinality(OfType(Stolen(C, o), r))]]
    /\ notArrived' = [o \in Emergency |-> notArrived[o]
          + Cardinality(Stolen(C, o))]
    /\ status' = [o \in Emergency |->
          IF Stolen(C, o) # {} THEN "PAUSED" ELSE status[o]]

\* preempt_if_needed_blocked, for every member of C that works for o.
Preempt(e, C) ==
    /\ missing' = [o \in Emergency |->
          IF o = e THEN NoDemand
          ELSE [r \in RescuerType |->
                  missing[o][r] + Cardinality(OfType(Stolen(C, o), r))]]
    /\ notArrived' = [o \in Emergency |-> notArrived[o]
          + Cardinality({t \in Stolen(C, o) : tStatus[t] = "ON_SCENE"})]
    /\ status' = [o \in Emergency |->
          IF Stolen(C, o) # {} THEN "PAUSED" ELSE status[o]]

\* Mutant: the worker that loses a twin is not told.
NobodyPaused(C) == {}

NewlyPaused(C) == {o \in Emergency : Stolen(C, o) # {} /\ status[o] # "PAUSED"}

\* Mutant: a stolen twin stays in the crew it was stolen from.
AssignTwice(e, C) ==
    /\ crew' = [crew EXCEPT ![e] = @ \cup C]
    /\ tEmergency' = [t \in Twin |-> IF t \in C THEN e ELSE tEmergency[t]]

\* The twins of C become the crew of e, and of nothing else.
Assign(e, C) ==
    /\ crew' = [o \in Emergency |-> IF o = e THEN crew[e] \cup C
                                             ELSE crew[o] \ C]
    /\ tEmergency' = [t \in Twin |-> IF t \in C THEN e ELSE tEmergency[t]]

\* send_rescuer_digital_twin_to_scene_logging_blocked.
Send(e, C) ==
    /\ tStatus' = [t \in Twin |->
          IF t \in C THEN "EN_ROUTE_TO_SCENE" ELSE tStatus[t]]
    /\ tTarget' = [t \in Twin |->
          IF t \in C THEN NewTarget(t, Site[e]) ELSE tTarget[t]]
    /\ tLeft' = [t \in Twin |->
          IF t \in C
          THEN IF tPos[t] = Site[e] THEN TimeToManage[e][TypeOf[t]]
                                    ELSE InvalidTime
          ELSE tLeft[t]]

WorkerFind(w) ==
    /\ wPc[w] = "find"
    /\ missing[wEm[w]] # NoDemand
    /\ \E C \in Candidates(wEm[w]) :
          /\ EmptyEntries(wEm[w]) <= Cardinality(C)
          /\ Preempt(wEm[w], C)
          /\ Assign(wEm[w], C)
          /\ Send(wEm[w], C)
          /\ wPc' = [Woken(NewlyPaused(C)) EXCEPT ![w] = "wait"]
    /\ UNCHANGED <<priority, timeoutTimer, promotionTimer, notDone, tPos,
                   queue, closed, storeVars, slot, stop, received, wEm,
                   uPc, uCarry, rPc, mPc>>

\* The test of the wait loop; cnd_wait releases the mutex in the same step.
WorkerWait(w) ==
    /\ Goto(w, "wait",
            IF stop \/ status[wEm[w]] \in {"PAUSED", "COMPLETED"}
            THEN "dispatch" ELSE "sleep")
    /\ UNCHANGED <<emergencyVars, twinVars, queue, closed, storeVars, slot,
                   stop, received, wEm, uPc, uCarry, rPc, mPc>>

\* Mutant: the worker of a paused emergency goes on to the next one.
WorkerDispatchDrops(w) ==
    /\ Goto(w, "dispatch",
            IF status[wEm[w]] = "COMPLETED" /\ ~ stop THEN "complete" ELSE "after")
    /\ UNCHANGED <<emergencyVars, twinVars, queue, closed, storeVars, slot,
                   stop, received, wEm, uPc, uCarry, rPc, mPc>>

\* What follows the wait loop; status is read without the mutex.
WorkerDispatch(w) ==
    /\ Goto(w, "dispatch",
            IF stop THEN "after"
            ELSE IF status[wEm[w]] = "PAUSED" THEN "inner"
            ELSE IF status[wEm[w]] = "COMPLETED" THEN "complete"
            ELSE "after")
    /\ UNCHANGED <<emergencyVars, twinVars, queue, closed, storeVars, slot,
                   stop, received, wEm, uPc, uCarry, rPc, mPc>>

\* Mutant: the slot of a completed emergency stays open.
WorkerCompleteOpen(w) ==
    /\ Goto(w, "complete", "after")
    /\ status' = [status EXCEPT ![wEm[w]] = "COMPLETED"]
    /\ completed' = [completed EXCEPT ![wEm[w]] = @ + 1]
    /\ UNCHANGED <<priority, timeoutTimer, promotionTimer, missing, crew,
                   notArrived, notDone, twinVars, queue, closed, canceled,
                   slot, stop, received, wEm, uPc, uCarry, rPc, mPc>>

\* change_status_store_close_logging_blocking with the completed queue.
WorkerComplete(w) ==
    /\ Goto(w, "complete", "after")
    /\ status' = [status EXCEPT ![wEm[w]] = "COMPLETED"]
    /\ completed' = [completed EXCEPT ![wEm[w]] = @ + 1]
    /\ slot' = [slot EXCEPT ![w] = NoEmergency]
    /\ UNCHANGED <<priority, timeoutTimer, promotionTimer, missing, crew,
                   notArrived, notDone, twinVars, queue, closed, canceled,
                   stop, received, wEm, uPc, uCarry, rPc, mPc>>

\* The same with the canceled queue, for an emergency that gets status news.
StoreAs(w, news) ==
    /\ status' = [status EXCEPT ![wEm[w]] = news]
    /\ StoreCanceled(wEm[w])
    /\ slot' = [slot EXCEPT ![w] = NoEmergency]

WorkerTimeout(w) ==
    /\ Goto(w, "timeout", "after")
    /\ StoreAs(w, "TIMEOUT")
    /\ UNCHANGED <<priority, timeoutTimer, promotionTimer, missing, crew,
                   notArrived, notDone, twinVars, queue, closed, completed,
                   stop, received, wEm, uPc, uCarry, rPc, mPc>>

\* Mutant: a worker that is stopped does not store what it holds.
WorkerReleaseUnstored(w) ==
    /\ Goto(w, "after", "loop")
    /\ slot' = [slot EXCEPT ![w] = NoEmergency]
    /\ wEm' = [wEm EXCEPT ![w] = NoEmergency]
    /\ UNCHANGED <<emergencyVars, twinVars, queue, closed, storeVars, stop,
                   received, uPc, uCarry, rPc, mPc>>

\* close_slot, then the next turn of the outer loop.
WorkerRelease(w) ==
    /\ ~ stop
    /\ Goto(w, "after", "loop")
    /\ slot' = [slot EXCEPT ![w] = NoEmergency]
    /\ wEm' = [wEm EXCEPT ![w] = NoEmergency]
    /\ UNCHANGED <<emergencyVars, twinVars, queue, closed, storeVars, stop,
                   received, uPc, uCarry, rPc, mPc>>

\* The server stops: whatever has become of it, e is stored as canceled.
WorkerCancel(w) ==
    /\ stop
    /\ Goto(w, "after", "dead")
    /\ StoreAs(w, "CANCELED")
    /\ UNCHANGED <<priority, timeoutTimer, promotionTimer, missing, crew,
                   notArrived, notDone, twinVars, queue, closed, completed,
                   stop, received, wEm, uPc, uCarry, rPc, mPc>>

WorkerStep(w) ==
    \/ WorkerLoop(w) \/ WorkerPop(w) \/ WorkerPopClosed(w) \/ WorkerOpen(w)
    \/ WorkerInner(w) \/ WorkerFindNothing(w) \/ WorkerFindFails(w)
    \/ WorkerFindOverrun(w) \/ WorkerFind(w) \/ WorkerWait(w)
    \/ WorkerDispatch(w) \/ WorkerComplete(w) \/ WorkerTimeout(w)
    \/ WorkerRelease(w) \/ WorkerCancel(w)

-----------------------------------------------------------------------------
(***************************************************************************)
(* The updater (thread_updater.c).                                         *)
(***************************************************************************)
UpdaterLoop ==
    /\ uPc = "idle"
    /\ uPc' = IF stop THEN "dead" ELSE "tick"
    /\ UNCHANGED <<emergencyVars, twinVars, queue, closed, storeVars, slot,
                   stop, received, wPc, wEm, uCarry, rPc, mPc>>

\* The twins whose time on the scene ends with this round.
Leaving == {t \in Twin : tStatus[t] = "ON_SCENE" /\ tLeft[t] <= 1}

Moving == Leaving \cup {t \in Twin :
              tStatus[t] \in {"EN_ROUTE_TO_SCENE", "RETURNING_TO_BASE"}}

\* The target a moving twin walks to in this round.
GoingTo(t) == IF t \in Leaving THEN NewTarget(t, BaseOf(t)) ELSE tTarget[t]

Arrived == {t \in Moving : InReach(t, GoingTo(t))}

\* The twins that reach a scene, and those that reach their base.
AtScene == {t \in Arrived \ Leaving : tStatus[t] = "EN_ROUTE_TO_SCENE"}
AtBase == Arrived \ AtScene

\* update_rescuer_digital_twin_state_logging_blocked, for every twin.
UpdateTwins ==
    /\ tPos' \in {p \in [Twin -> Cell] : \A t \in Twin :
                    IF t \in Moving THEN p[t] \in Walk(t, GoingTo(t))
                                    ELSE p[t] = tPos[t]}
    /\ tTarget' = [t \in Twin |-> IF t \in Moving THEN GoingTo(t)
                                                 ELSE tTarget[t]]
    /\ tStatus' = [t \in Twin |->
          IF t \in AtScene THEN "ON_SCENE"
          ELSE IF t \in AtBase THEN "IDLE"
          ELSE IF t \in Leaving THEN "RETURNING_TO_BASE"
          ELSE tStatus[t]]
    /\ tLeft' = [t \in Twin |->
          IF t \in AtScene THEN TimeToManage[tEmergency[t]][TypeOf[t]]
          ELSE IF t \in Leaving THEN InvalidTime
          ELSE IF tStatus[t] = "ON_SCENE" THEN tLeft[t] - 1
          ELSE tLeft[t]]
    /\ tEmergency' = [t \in Twin |-> IF t \in Leaving THEN NoEmergency
                                                     ELSE tEmergency[t]]
    /\ crew' = [e \in Emergency |-> crew[e] \ Leaving]
    /\ notDone' = [e \in Emergency |->
          notDone[e] - Cardinality(Stolen(Leaving, e))]
    /\ notArrived' = [e \in Emergency |->
          notArrived[e] - Cardinality(Stolen(AtScene, e))]

Active == {slot[w] : w \in Worker} \ {NoEmergency}

\* The branches of update_active_emergency_state_logging_blocked, in its
\* order, on the counters UpdateTwins has left.
Promoting == {e \in Active : promotionTimer[e] # NoPromotion}
Starving == {e \in Active \ Promoting : status[e] = "PAUSED"}

\* Mutant: complete as soon as everybody has arrived.
DoneOnArrival == {e \in Active \ (Promoting \cup Starving) : notArrived'[e] <= 0}

Done == {e \in Active \ (Promoting \cup Starving) : notDone'[e] <= 0}
Started == {e \in Active \ (Promoting \cup Starving \cup Done) :
              notArrived'[e] <= 0 /\ status[e] = "ASSIGNED"}

\* A timer that goes on below its sentinel stays negative for good: one
\* value stands for them all.
Decrement(n, sentinel) == IF n < sentinel THEN n ELSE n - 1

UpdateActive ==
    LET due == {e \in Promoting : promotionTimer[e] <= 0}
    IN  /\ priority' = [e \in Emergency |->
              IF e \in due THEN NextLevel(priority[e]) ELSE priority[e]]
        /\ promotionTimer' = [e \in Emergency |->
              IF e \in due THEN TimeBeforePromotion[NextLevel(priority[e])]
              ELSE IF e \in Promoting THEN promotionTimer[e] - 1
              ELSE promotionTimer[e]]
        /\ timeoutTimer' = [e \in Emergency |->
              IF e \in due THEN TimeBeforeTimeout[NextLevel(priority[e])]
              ELSE IF e \in Starving THEN Decrement(timeoutTimer[e], NoTimeout)
              ELSE timeoutTimer[e]]
        /\ status' = [e \in Emergency |->
              IF e \in Done THEN "COMPLETED"
              ELSE IF e \in Started THEN "IN_PROGRESS"
              ELSE status[e]]
        /\ wPc' = Woken(Done)

\* The trajectory some moving twin follows was never initialised.
Astray == \E t \in Moving : GoingTo(t) = NoCell

UpdaterTick ==
    /\ uPc = "tick" /\ ~ Astray
    /\ UpdateTwins
    /\ UpdateActive
    /\ uPc' = "map"
    /\ UNCHANGED <<missing, queue, closed, storeVars, slot, stop, received,
                   wEm, uCarry, rPc, mPc>>

UpdaterAstray ==
    /\ uPc = "tick" /\ Astray
    /\ BecomeUndefined

\* update_waiting_emergencies_states.
UpdaterMap ==
    /\ uPc = "map"
    /\ promotionTimer' = [e \in Emergency |->
          IF e \in PqItems(queue) /\ promotionTimer[e] # NoPromotion
          THEN promotionTimer[e] - 1 ELSE promotionTimer[e]]
    /\ timeoutTimer' = [e \in Emergency |->
          IF e \in PqItems(queue) /\ timeoutTimer[e] # NoTimeout
          THEN timeoutTimer[e] - 1 ELSE timeoutTimer[e]]
    /\ uPc' = "expire"
    /\ UNCHANGED <<status, priority, missing, crew, notArrived, notDone,
                   twinVars, queue, closed, storeVars, slot, stop, received,
                   wPc, wEm, uCarry, rPc, mPc>>

\* One turn of remove_expired_waiting_emergencies_logging.
UpdaterExpire ==
    /\ uPc = "expire"
    /\ \E l \in Level : \E i \in 1 .. Len(queue[l]) :
          /\ PqFirst(queue, Expired, l, i)
          /\ queue' = PqExtract(queue, l, i)
          /\ status' = [status EXCEPT ![queue[l][i]] = "TIMEOUT"]
          /\ StoreCanceled(queue[l][i])
    /\ UNCHANGED <<priority, timeoutTimer, promotionTimer, missing, crew,
                   notArrived, notDone, twinVars, closed, completed, slot,
                   stop, received, threadVars>>

\* Its last turn: nothing has expired.
UpdaterExpired ==
    /\ uPc = "expire"
    /\ PqItems(queue) \cap Expired = {}
    /\ uPc' = "promote"
    /\ UNCHANGED <<emergencyVars, twinVars, queue, closed, storeVars, slot,
                   stop, received, wPc, wEm, uCarry, rPc, mPc>>

\* Mutant: the emergency to promote stays in the queue.
UpdaterExtractCopy ==
    /\ uPc = "promote"
    /\ \E l \in Level : \E i \in 1 .. Len(queue[l]) :
          PqFirst(queue, ToPromote, l, i) /\ uCarry' = queue[l][i]
    /\ uPc' = "requeue"
    /\ UNCHANGED <<emergencyVars, twinVars, queue, closed, storeVars, slot, stop,
                   received, wPc, wEm, rPc, mPc>>

\* promote_needing_waiting_emergencies takes an emergency out of the queue,
UpdaterExtract ==
    /\ uPc = "promote"
    /\ \E l \in Level : \E i \in 1 .. Len(queue[l]) :
          /\ PqFirst(queue, ToPromote, l, i)
          /\ queue' = PqExtract(queue, l, i)
          /\ uCarry' = queue[l][i]
    /\ uPc' = "requeue"
    /\ UNCHANGED <<emergencyVars, twinVars, closed, storeVars, slot, stop,
                   received, wPc, wEm, rPc, mPc>>

\* and pushes it again, promoted, if the queue is still open;
UpdaterPromote ==
    /\ uPc = "requeue"
    /\ Promote({uCarry})
    /\ PushWaiting(uCarry, NextLevel(priority[uCarry]))
    /\ uCarry' = NoEmergency
    /\ uPc' = "promote"
    /\ UNCHANGED <<status, missing, crew, notArrived, notDone, twinVars,
                   closed, storeVars, slot, stop, received,
                   wPc, wEm, rPc, mPc>>

\* Mutant: the loop ends with any of its turns.
UpdaterPromotedEarly ==
    /\ uPc = "promote"
    /\ uPc' = "idle"
    /\ UNCHANGED <<emergencyVars, twinVars, queue, closed, storeVars, slot,
                   stop, received, wPc, wEm, uCarry, rPc, mPc>>

\* until there is none to promote.
UpdaterPromoted ==
    /\ uPc = "promote"
    /\ PqItems(queue) \cap ToPromote = {}
    /\ uPc' = "idle"
    /\ UNCHANGED <<emergencyVars, twinVars, queue, closed, storeVars, slot,
                   stop, received, wPc, wEm, uCarry, rPc, mPc>>

UpdaterStep ==
    \/ UpdaterLoop \/ UpdaterTick \/ UpdaterAstray \/ UpdaterMap
    \/ UpdaterExpire \/ UpdaterExpired
    \/ UpdaterExtract \/ UpdaterPromote \/ UpdaterPromoted

-----------------------------------------------------------------------------
(***************************************************************************)
(* The main thread, from sigwait to close_server (main.c).                 *)
(***************************************************************************)
MainSignal(sig) ==
    /\ mPc = "run"
    /\ stop' = TRUE
    /\ mPc' = "stopping"
    /\ UNCHANGED <<emergencyVars, twinVars, queue, closed, storeVars, slot,
                   received, wPc, wEm, uPc, uCarry, rPc>>

\* pq_close(emergency_queue).
MainCloseQueue ==
    /\ mPc = "stopping"
    /\ closed' = TRUE
    /\ mPc' = "closing"
    /\ UNCHANGED <<emergencyVars, twinVars, queue, storeVars, slot, stop,
                   received, wPc, wEm, uPc, uCarry, rPc>>

\* Mutant: main joins without the broadcast.
MainNoBroadcast ==
    /\ mPc = "closing"
    /\ mPc' = "joining"
    /\ UNCHANGED <<emergencyVars, twinVars, queue, closed, storeVars, slot,
                   stop, received, wPc, wEm, uPc, uCarry, rPc>>

\* A broadcast to every emergency in a slot.
MainBroadcast ==
    /\ mPc = "closing"
    /\ wPc' = Woken(Active)
    /\ mPc' = "joining"
    /\ UNCHANGED <<emergencyVars, twinVars, queue, closed, storeVars, slot,
                   stop, received, wEm, uPc, uCarry, rPc>>

\* The joins, then close_server.
MainJoin ==
    /\ mPc = "joining"
    /\ rPc = "dead" /\ uPc = "dead" /\ \A w \in Worker : wPc[w] = "dead"
    /\ mPc' = "closed"
    /\ UNCHANGED <<emergencyVars, twinVars, queue, closed, storeVars, slot,
                   stop, received, wPc, wEm, uPc, uCarry, rPc>>

MainStep == MainCloseQueue \/ MainBroadcast \/ MainJoin

ReceiverStep ==
    \/ ReceiverLoop \/ ReceiverDiscard \/ ReceiverStop
    \/ \E e \in Emergency : Receive(e)

Step == \/ ReceiverStep
        \/ \E w \in Worker : WorkerStep(w)
        \/ UpdaterStep
        \/ \E sig \in Signal : MainSignal(sig)
        \/ MainStep

\* The process has exited, or C says nothing of what it does next.
Over == mPc \in {"closed", "undefined"} /\ UNCHANGED vars

Next == Step \/ Over

Spec == Init /\ [][Next]_vars

(***************************************************************************)
(* Fairness: a thread that can go on does.  The clock ticks for ever, the  *)
(* mutexes are held for a bounded time only, and main has put the stop     *)
(* message in the receiver's queue.  Nothing makes a client send a request *)
(* or a signal arrive.                                                     *)
(***************************************************************************)
Fairness ==
    /\ \A w \in Worker : WF_vars(WorkerStep(w))
    /\ WF_vars(UpdaterStep)
    /\ WF_vars(ReceiverLoop \/ ReceiverStop)
    /\ WF_vars(MainStep)

FairSpec == Spec /\ Fairness

-----------------------------------------------------------------------------
(***************************************************************************)
(* Properties.                                                             *)
(***************************************************************************)

\* Every field keeps the type its C declaration, or its use, gives it.
TypeOK ==
    /\ status \in [Emergency -> EmergencyStatus]
    /\ priority \in [Emergency -> Level]
    /\ timeoutTimer \in [Emergency -> Int]
    /\ promotionTimer \in [Emergency -> Int]
    /\ missing \in [Emergency -> [RescuerType -> Nat]]
    /\ crew \in [Emergency -> SUBSET Twin]
    /\ notArrived \in [Emergency -> Int]
    /\ notDone \in [Emergency -> Int]
    /\ tStatus \in [Twin -> RescuerStatus]
    /\ tEmergency \in [Twin -> Emergency \cup {NoEmergency}]
    /\ tTarget \in [Twin -> Cell \cup {NoCell}]
    /\ tPos \in [Twin -> Cell]
    /\ tLeft \in [Twin -> Int]
    /\ queue \in [Level -> Seq(Emergency)]
    /\ closed \in BOOLEAN
    /\ completed \in [Emergency -> Nat]
    /\ canceled \in [Emergency -> Nat]
    /\ slot \in [Worker -> Emergency \cup {NoEmergency}]
    /\ stop \in BOOLEAN
    /\ received \subseteq Emergency
    /\ wPc \in [Worker -> WorkerPc]
    /\ wEm \in [Worker -> Emergency \cup {NoEmergency}]
    /\ uPc \in UpdaterPc
    /\ uCarry \in Emergency \cup {NoEmergency}
    /\ rPc \in ReceiverPc
    /\ mPc \in MainPc

\* No wake-up is lost: a worker asleep on the condition of its emergency is
\* asleep because nothing has happened yet to the emergency and, once main
\* has broadcast, because the server is not stopping.  The updater, another
\* worker that steals a twin and main change the status or the flag; each
\* must also signal (thread_worker.c:67-74, main.c:70-81).
NoLostWakeup ==
    \A w \in Worker : wPc[w] = "sleep" =>
        /\ status[wEm[w]] \notin {"PAUSED", "COMPLETED"}
        /\ mPc \notin {"joining", "closed"}

\* A twin and its emergency agree: it is in the rescuer_twins of exactly the
\* emergency t->emergency points to, and has one exactly while it is working
\* (thread_worker.c:189, 250, 278; thread_updater.c:64-66).
CrewConsistent ==
    /\ \A t \in Twin, e \in Emergency : t \in crew[e] <=> tEmergency[t] = e
    /\ \A t \in Twin : tEmergency[t] # NoEmergency
                       <=> tStatus[t] \in {"EN_ROUTE_TO_SCENE", "ON_SCENE"}

\* The counters of an emergency count what they say, through every theft,
\* arrival and departure: rescuers_not_done_yet the twins at work and those
\* still wanted, rescuers_not_arrived_yet the twins on their way and those
\* still wanted (thread_worker.c:183-187, thread_updater.c:63, 103).
Accounting ==
    \A e \in Emergency :
        LET wanted == Cardinality(Units(missing[e]))
            onTheWay == {t \in crew[e] : tStatus[t] = "EN_ROUTE_TO_SCENE"}
        IN  /\ notDone[e] = Cardinality(crew[e]) + wanted
            /\ notArrived[e] = Cardinality(onTheWay) + wanted

\* Where an emergency can be before it is stored: the entries of the queue
\* that hold it, the workers that have not stored it yet, the updater.
Queued(e) == UNION {{l} \X {i \in 1 .. Len(queue[l]) : queue[l][i] = e} :
                       l \in Level}
Holders(e) == {w \in Worker : wEm[w] = e /\ completed[e] + canceled[e] = 0}
Carried(e) == IF uCarry = e THEN 1 ELSE 0

\* Until the server is asked to stop, no emergency is lost or duplicated on
\* its way through the queue, the threads and the two stores
\* (thread_worker.c:55, 32; thread_updater.c:182-185, 200-202).
Conservation ==
    ~ stop => \A e \in Emergency :
        Cardinality(Queued(e)) + Cardinality(Holders(e)) + Carried(e)
            + completed[e] + canceled[e] = IF e \in received THEN 1 ELSE 0

\* No item is in the queue twice.
NoTwice(q) ==
    \A l, m \in Level : \A i \in 1 .. Len(q[l]), j \in 1 .. Len(q[m]) :
        q[l][i] = q[m][j] => l = m /\ i = j

\* An emergency is in one pair of hands at a time, also while the server is
\* stopping: two workers never work on the same one, and what a worker or
\* the updater holds is not in the queue (thread_worker.c:55,
\* thread_updater.c:182, 200-202).
OneOwner ==
    /\ \A v, w \in Worker : wPc[v] \in Holding /\ wPc[w] \in Holding
                              /\ wEm[v] = wEm[w] => v = w
    /\ \A w \in Worker : wPc[w] \in Holding =>
          wEm[w] \notin PqItems(queue) \cup {uCarry}
    /\ uCarry \notin PqItems(queue)
    /\ NoTwice(queue)

\* An emergency is in the slot of a worker exactly while the worker is
\* working on it, so the updater sees every emergency at work and no other
\* (thread_worker.c:7, 33, 90).
SlotOwned ==
    \A w \in Worker :
        wPc[w] # "undefined" =>
        slot[w] = IF wPc[w] \in Working THEN wEm[w]
                  ELSE IF wPc[w] = "after" /\ stop THEN slot[w]
                  ELSE NoEmergency

\* An emergency is declared complete only when every rescuer it asked for
\* has come, worked its time and left: none is at work and none is wanted
\* (thread_updater.c:152-154).
CompletedMeansServed ==
    \A e \in Emergency : status[e] = "COMPLETED" =>
        crew[e] = {} /\ missing[e] = NoDemand

\* What has been completed is left alone until a worker that ends stores it
\* again: no twin works for it and nobody pauses it.  Of an emergency that
\* timed out this is not true (README.md:76; thread_worker.c:79, 191-197).
CompletedUntouched ==
    \A e \in Emergency : completed[e] > 0 /\ canceled[e] = 0 =>
        /\ status[e] = "COMPLETED"
        /\ \A t \in Twin : tEmergency[t] # e

\* A waiting emergency sits at the level of its priority, even if it has
\* been promoted while it waited (thread_updater.c:200-203).
QueuedAtItsLevel ==
    \A l \in Level : \A i \in 1 .. Len(queue[l]) : priority[queue[l][i]] = l

\* When the updater has finished a round no emergency is left in the queue
\* that has expired or is due for a promotion, whatever the workers and the
\* receiver have done to the queue meanwhile (thread_updater.c:34-36).
NothingOverdue ==
    uPc = "idle" => PqItems(queue) \cap (Expired \cup ToPromote) = {}

\* Where an emergency is; what has been stored is there, whoever still has a
\* pointer to it.
PlaceOf(e) ==
    IF e \notin received THEN "nowhere"
    ELSE IF completed[e] > 0
         THEN IF canceled[e] > 0 THEN "twice" ELSE "completed"
    ELSE IF canceled[e] > 0 THEN "canceled"
    ELSE IF e \in PqItems(queue) THEN "waiting"
    ELSE IF e = uCarry THEN "promoted"
    ELSE IF \E w \in Worker : wEm[w] = e THEN "served"
    ELSE "lost"

\* The threads together give every emergency the life its sender may expect:
\* it goes from hand to hand in one order only, leaves the stores never, and
\* what may happen to it while the server stops is no more than a dropped push
\* or a second store (thread_worker.c:54-91; thread_updater.c:161-206;
\* priority_queue.c:84-88).
Life == INSTANCE EmergencyLife
            WITH place <- [e \in Emergency |-> PlaceOf(e)], stopping <- stop
ImplementsLife == Life!Spec
=============================================================================
