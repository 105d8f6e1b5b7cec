---------------------------- MODULE RescueClaims ----------------------------
(***************************************************************************)
(* What must eventually happen to an emergency, and what the documents and *)
(* comments of the repository say of the server that the code does not do. *)
(***************************************************************************)
EXTENDS RescueServer

Stored(e) == completed[e] + canceled[e] > 0

-----------------------------------------------------------------------------
(***************************************************************************)
(* Liveness.                                                               *)
(***************************************************************************)

\* A stopped server exits: no thread waits for ever for a lock, an item, a
\* tick or a condition (README.md:189; main.c:70-91).
StopEnds == stop ~> mPc = "closed"

\* A worker learns that its emergency is complete and stores it
\* (thread_updater.c:153-154, thread_worker.c:68-79).
CompletedIsStored ==
    \A e \in Emergency : status[e] = "COMPLETED" ~> Stored(e)

\* Every accepted request is completed, canceled or timed out in the end.
\* It holds with one worker, for no emergency at work is stolen from then;
\* with two see PausedIsServed (thread_reciever.c:37, thread_worker.c:54-91,
\* thread_updater.c:34-36).
EverySettled == \A e \in Emergency : e \in received ~> Stored(e)

-----------------------------------------------------------------------------
(***************************************************************************)
(* Claims.                                                                 *)
(***************************************************************************)

\* README.md:162: an active emergency with 0 rescuers still at work is
\* considered complete, be it not at once.  Not if it was ever
\* paused: nothing ends a pause (thread_updater.c:150).
PausedIsServed ==
    \A e \in Emergency :
        (status[e] = "PAUSED" /\ e \in Active /\ notDone[e] <= 0)
            ~> (status[e] # "PAUSED" \/ Stored(e))

\* README.md:76: completed and canceled emergencies are not touched again.
\* An emergency that timed out keeps its twins, and is paused when one of
\* them is stolen (thread_worker.c:177-197).
StoredUntouched ==
    [][\A e \in Emergency : Stored(e) => status'[e] = status[e]]_vars

\* How often close_server counts e, as completed, timed out or canceled, or
\* still waiting.
Counted(e) ==
    completed[e] + Cardinality(Queued(e))
        + (IF status[e] \in {"TIMEOUT", "CANCELED"} THEN canceled[e] ELSE 0)

\* main.c:322-326: the closing statistics split the emergencies handled into
\* completed, timed out, canceled and waiting.  But a worker that has stored
\* its emergency when the server stops stores it again
\* (thread_worker.c:85-86), and a push that comes after pq_close is dropped
\* although the request has been counted (priority_queue.c:84-88).
StatisticsAddUp ==
    mPc = "closed" =>
        MapThenSumSet(Counted, received) = Cardinality(received)

\* thread_updater.c:103-104: a twin ON_SCENE has reached the scene of its
\* emergency.  One that was stolen while it crossed the new scene keeps the
\* old target (server_helpers.c:57-60).
OnSceneAtScene ==
    \A t \in Twin : tStatus[t] = "ON_SCENE" => tPos[t] = Site[tEmergency[t]]

\* thread_worker.c:205, 246: there are as many candidates as empty entries.
\* Entries of twins that have finished are empty too, so the loop reads past
\* the array once another twin was stolen (thread_worker.c:245-252).
CandidatesFillEntries ==
    \A w \in Worker : wPc[w] = "find" /\ missing[wEm[w]] # NoDemand =>
        EmptyEntries(wEm[w]) = Cardinality(Units(missing[wEm[w]]))
=============================================================================
