--------------------------- MODULE EmergencyLife ---------------------------
(***************************************************************************)
(* The life of an emergency, as whoever sends requests may think of the    *)
(* server: a request that is accepted waits, is taken by one worker, and   *)
(* ends in one of two stores, where it stays.  It is never lost and never  *)
(* served again, until the server is asked to stop; from then on a request *)
(* may be lost, and one that is complete may be stored a second time.      *)
(***************************************************************************)
CONSTANT Emergency

VARIABLES place,        \* where each emergency is
          stopping      \* the server has been asked to stop

vars == <<place, stopping>>

Init == place = [e \in Emergency |-> "nowhere"] /\ stopping = FALSE

Move(e, from, to) == /\ place[e] = from
                     /\ place' = [place EXCEPT ![e] = to]
                     /\ UNCHANGED stopping

Accept(e) == Move(e, "nowhere", "waiting")

\* A promotion takes a waiting emergency out of the queue and puts it back.
TakeOut(e) == Move(e, "waiting", "promoted")
PutBack(e) == Move(e, "promoted", "waiting")

\* A timeout in the queue.
Expire(e) == Move(e, "waiting", "canceled")

Serve(e) == Move(e, "waiting", "served")
Complete(e) == Move(e, "served", "completed")

\* A timeout of a served emergency, or the end of the server.
GiveUp(e) == Move(e, "served", "canceled")

Stop == ~ stopping /\ stopping' = TRUE /\ UNCHANGED place

\* The queue is closed: what is pushed is lost.
Lose(e) == stopping /\ (Move(e, "nowhere", "lost") \/ Move(e, "promoted", "lost"))

\* A worker stores what it has completed a second time, as canceled.
StoreTwice(e) == stopping /\ Move(e, "completed", "twice")

Next == \/ \E e \in Emergency :
              \/ Accept(e) \/ TakeOut(e) \/ PutBack(e) \/ Expire(e)
              \/ Serve(e) \/ Complete(e) \/ GiveUp(e)
              \/ Lose(e) \/ StoreTwice(e)
        \/ Stop

Spec == Init /\ [][Next]_vars
=============================================================================
