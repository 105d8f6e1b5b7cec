----------------------------- MODULE PqMonitor -----------------------------
(***************************************************************************)
(* pq_t as a monitor (src/priority_queue.c): a mutex, the condition        *)
(* not_empty, the counter size.  An operation runs under the mutex from    *)
(* its lock to its unlock, so each is one step; pq_pop alone can give the  *)
(* mutex up, in cnd_wait, and takes it again in a step of its own.         *)
(***************************************************************************)
EXTENDS PriorityQueue

CONSTANTS Item, Popper, Null, Nothing,  \* as in BlockingQueue
          Prio,         \* the levels callers pass to pq_push
          MaxItems      \* bound on the items queued at once

ASSUME MonitorAssumption ==
    /\ IsFiniteSet(Popper) /\ Prio \subseteq Int /\ MaxItems \in Nat
    /\ Null \notin Item /\ Nothing \notin Item \cup {Null}

VARIABLES
    queue,      \* lists
    size, closed,
    pc,         \* "out", "mutex": about to lock it, "asleep": in cnd_wait
    result      \* what pq_pop returned last to each thread

vars == <<queue, size, closed, pc, result>>

Init == /\ queue = PqEmpty /\ size = 0 /\ closed = FALSE
        /\ pc = [p \in Popper |-> "out"]
        /\ result = [p \in Popper |-> Nothing]

Asleep == {p \in Popper : pc[p] = "asleep"}
Awake == {p \in Popper : pc[p] = "mutex"}

\* cnd_signal wakes one of the threads that wait, if there is any.
SignalOne ==
    IF Asleep = {} THEN UNCHANGED pc
    ELSE \E p \in Asleep : pc' = [pc EXCEPT ![p] = "mutex"]

\* cnd_broadcast.
SignalAll ==
    pc' = [p \in Popper |-> IF p \in Asleep THEN "mutex" ELSE pc[p]]

\* A closed queue takes nothing more.
PushClosed == closed /\ UNCHANGED vars

Push(item, prio) ==
    /\ ~ closed /\ size < MaxItems
    /\ queue' = PqPush(queue, item, prio)
    /\ size' = size + 1
    /\ SignalOne
    /\ UNCHANGED <<closed, result>>

\* Mutant: a signal where the broadcast should be.
CloseSignalsOne ==
    /\ closed' = TRUE
    /\ SignalOne
    /\ UNCHANGED <<queue, size, result>>

Close ==
    /\ closed' = TRUE
    /\ SignalAll
    /\ UNCHANGED <<queue, size, result>>

\* Mutant: the extracted item is still counted.
ExtractFirstCounted(S) ==
    /\ \E l \in Level : \E i \in 1 .. Len(queue[l]) :
          PqFirst(queue, S, l, i) /\ queue' = PqExtract(queue, l, i)
    /\ UNCHANGED <<size, closed, pc, result>>

\* pq_extract_first; S holds the items that satisfy the predicate.
ExtractFirst(S) ==
    /\ \E l \in Level : \E i \in 1 .. Len(queue[l]) :
          PqFirst(queue, S, l, i) /\ queue' = PqExtract(queue, l, i)
    /\ size' = size - 1
    /\ UNCHANGED <<closed, pc, result>>

TryPop ==
    /\ size # 0
    /\ \E l \in Level : PqTop(queue, l) /\ queue' = PqPop(queue, l)
    /\ size' = size - 1
    /\ UNCHANGED <<closed, pc, result>>

\* A thread calls pq_pop.
PopCall(p) ==
    /\ pc[p] = "out"
    /\ pc' = [pc EXCEPT ![p] = "mutex"]
    /\ result' = [result EXCEPT ![p] = Nothing]
    /\ UNCHANGED <<queue, size, closed>>

\* With the mutex, at first or again: the test of the wait loop fails,
PopWait(p) ==
    /\ pc[p] = "mutex"
    /\ size = 0 /\ ~ closed
    /\ pc' = [pc EXCEPT ![p] = "asleep"]
    /\ UNCHANGED <<queue, size, closed, result>>

\* Mutant: a closed queue gives nothing more, although it holds items.
PopNullAtClose(p) ==
    /\ pc[p] = "mutex"
    /\ closed
    /\ pc' = [pc EXCEPT ![p] = "out"]
    /\ result' = [result EXCEPT ![p] = Null]
    /\ UNCHANGED <<queue, size, closed>>

\* or there is nothing and will be nothing,
PopNull(p) ==
    /\ pc[p] = "mutex"
    /\ size = 0 /\ closed
    /\ pc' = [pc EXCEPT ![p] = "out"]
    /\ result' = [result EXCEPT ![p] = Null]
    /\ UNCHANGED <<queue, size, closed>>

\* Mutant: a thread that was woken does not test again.
PopItemUntested(p) ==
    /\ pc[p] = "mutex"
    /\ \/ PqIsEmpty(queue) /\ UNCHANGED <<queue, result>>
       \/ \E l \in Level :
             /\ PqTop(queue, l)
             /\ result' = [result EXCEPT ![p] = Head(queue[l])]
             /\ queue' = PqPop(queue, l)
    /\ size' = size - 1
    /\ pc' = [pc EXCEPT ![p] = "out"]
    /\ UNCHANGED closed

\* or there is an item.
PopItem(p) ==
    /\ pc[p] = "mutex"
    /\ size # 0
    /\ \E l \in Level : /\ PqTop(queue, l)
                        /\ result' = [result EXCEPT ![p] = Head(queue[l])]
                        /\ queue' = PqPop(queue, l)
    /\ size' = size - 1
    /\ pc' = [pc EXCEPT ![p] = "out"]
    /\ UNCHANGED closed

\* cnd_wait may return without a signal.
SpuriousWakeup(p) ==
    /\ pc[p] = "asleep"
    /\ pc' = [pc EXCEPT ![p] = "mutex"]
    /\ UNCHANGED <<queue, size, closed, result>>

Pop(p) == PopWait(p) \/ PopNull(p) \/ PopItem(p)

Next == \/ \E item \in Item, prio \in Prio : Push(item, prio)
        \/ \E S \in SUBSET Item : ExtractFirst(S)
        \/ PushClosed \/ TryPop \/ Close
        \/ \E p \in Popper : PopCall(p) \/ Pop(p) \/ SpuriousWakeup(p)

Spec == Init /\ [][Next]_vars

\* A thread that wants the mutex gets it.
FairSpec == Spec /\ \A p \in Popper : WF_vars(Pop(p))

-----------------------------------------------------------------------------
(***************************************************************************)
(* Properties.                                                             *)
(***************************************************************************)
TypeOK ==
    /\ queue \in [Level -> Seq(Item)]
    /\ size \in Nat
    /\ closed \in BOOLEAN
    /\ pc \in [Popper -> {"out", "mutex", "asleep"}]
    /\ result \in [Popper -> Item \cup {Null, Nothing}]

\* size counts the nodes of the lists: pq_pop trusts it before it follows a
\* node that would otherwise be NULL (priority_queue.c:104-118).
SizeCounts == size = Cardinality(PqPlaces(queue))

\* While a thread sleeps, as many threads are awake as there are items: no
\* item waits for a thread that nobody will wake, and none sleeps when the
\* queue is closed.  One signal for each push is enough although others may
\* take the item first (priority_queue.c:94, 103-105, 73).
NoneStranded ==
    Asleep # {} => ~ closed /\ size <= Cardinality(Awake)

\* The monitor implements the queue the threads are promised, fairness
\* included: a thread inside pq_pop does not starve while the queue has
\* items (priority_queue.c:99-121).
Promise == INSTANCE BlockingQueue
              WITH asking <- {p \in Popper : pc[p] # "out"}
ImplementsQueue == Promise!FairSpec
=============================================================================
