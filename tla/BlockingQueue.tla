--------------------------- MODULE BlockingQueue ---------------------------
(***************************************************************************)
(* What the priority queue promises the threads that use it: every         *)
(* operation takes effect at one instant, pq_pop returns when there is an  *)
(* item or the queue is closed, and NULL only from a closed, empty queue.  *)
(* RescueServer uses the queue as this module describes it.                *)
(***************************************************************************)
EXTENDS PriorityQueue

CONSTANTS Item,         \* what is pushed
          Popper,       \* the threads that call pq_pop
          Null, Nothing,\* the NULL pq_pop returns; no result yet
          Prio,         \* the levels callers pass to pq_push
          MaxItems      \* bound on the items queued at once

VARIABLES queue, closed,
          asking,       \* the threads inside pq_pop
          result        \* what pq_pop returned last to each

vars == <<queue, closed, asking, result>>

Init == /\ queue = PqEmpty /\ closed = FALSE
        /\ asking = {} /\ result = [p \in Popper |-> Nothing]

Push(item, prio) ==
    /\ Cardinality(PqPlaces(queue)) < MaxItems
    /\ queue' = IF closed THEN queue ELSE PqPush(queue, item, prio)
    /\ UNCHANGED <<closed, asking, result>>

Close == closed' = TRUE /\ UNCHANGED <<queue, asking, result>>

\* pq_extract_first, or pq_try_pop when every item is in S.
Extract(S) ==
    /\ \E l \in Level : \E i \in 1 .. Len(queue[l]) :
          PqFirst(queue, S, l, i) /\ queue' = PqExtract(queue, l, i)
    /\ UNCHANGED <<closed, asking, result>>

Ask(p) == /\ p \notin asking
          /\ asking' = asking \cup {p}
          /\ result' = [result EXCEPT ![p] = Nothing]
          /\ UNCHANGED <<queue, closed>>

Answer(p) ==
    /\ p \in asking
    /\ \/ \E l \in Level : /\ PqTop(queue, l)
                           /\ result' = [result EXCEPT ![p] = Head(queue[l])]
                           /\ queue' = PqPop(queue, l)
       \/ /\ PqIsEmpty(queue) /\ closed
          /\ result' = [result EXCEPT ![p] = Null]
          /\ UNCHANGED queue
    /\ asking' = asking \ {p}
    /\ UNCHANGED closed

Next == \/ \E item \in Item, prio \in Prio : Push(item, prio)
        \/ \E S \in SUBSET Item : Extract(S)
        \/ Close
        \/ \E p \in Popper : Ask(p) \/ Answer(p)

Spec == Init /\ [][Next]_vars

\* A thread that asks while there is something to answer gets an answer.
FairSpec == Spec /\ \A p \in Popper : WF_vars(Answer(p))
=============================================================================
