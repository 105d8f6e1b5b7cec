---------------------------- MODULE ServerLife ----------------------------
(***************************************************************************)
(* The life of the server process: main parses its files, starts the       *)
(* threads, waits for a signal, stops everybody and closes.                *)
(* What the threads do to emergencies and twins is the subject of          *)
(* RescueServer; here they are what main has to wait for: where they take  *)
(* a mutex, sleep, read the message queue or write to the log, and when    *)
(* they look at server_must_stop.  A step ends where a thread may be kept  *)
(* waiting, or where another one may come in between.                      *)
(*                                                                         *)
(* A thread is in possession of the emergencies' mutex (main.c:214) or of  *)
(* the clock's where its program counter says so.                          *)
(*                                                                         *)
(* The log is what a thread that logs notices of it: it goes on to be      *)
(* written until somebody logs an event that ends it; from then on its     *)
(* queue has room for LogRoom lines that nobody will read.                 *)
(***************************************************************************)
EXTENDS Configuration

CONSTANTS
    Worker,     \* the worker threads
    Catalogue,  \* bound: what the files may say for the life to be followed
                \* beyond the parse, as <<environment, rescuers, types>>
    Request,    \* the requests that may be sent: [name, x, y]
    MqRoom,     \* mq_maxmsg of the queue of the requests
    LogRoom,    \* MAX_LOG_QUEUE_MESSAGES
    MaxSent,    \* bound: requests sent
    MaxTicks,   \* bound: ticks before the stop
    NoEmergency \* the e of a worker that has none

ASSUME ServerLifeAssumption ==
    Worker \cap {"main", "clock", "updater", "receiver"} = {}

VARIABLES
    pc,         \* where every thread is
    stop,       \* server_must_stop
    allStarted, \* main's all_thread_started, as long as nothing has failed
    exited,     \* of request_shutdown_from_thread
    exitCode,
    tick, tickCount,    \* of ctx->clock
    cycle,      \* the updater's
    mq,         \* the queue of the requests
    sent,       \* how many were sent to it
    waiting,    \* emergency_queue
    closed,     \* it is closed
    job,        \* the e of every worker
    astray,     \* a twin has been sent off the map
    ticksFile,  \* the numbers in simulation.json
    logEnded,   \* an event that ends the log has been logged
    logStuck    \* the lines logged after it

stopVars == <<stop, exited, exitCode>>
clockVars == <<tick, tickCount>>
mailVars == <<mq, sent>>
workVars == <<waiting, job, astray>>
logVars == <<logEnded, logStuck>>
lifeVars == <<pc, stopVars, allStarted, clockVars, cycle, mailVars, workVars,
              closed, ticksFile, logVars>>
vars == <<configVars, lifeVars>>

Thread == {"clock", "updater", "receiver"} \cup Worker

StopMessage == [name |-> "-stop", x |-> 0, y |-> 0]

Init ==
    /\ ConfigInit
    /\ pc = [t \in Thread \cup {"main"} |->
                IF t = "main" THEN "parse" ELSE "unborn"]
    /\ stop = FALSE /\ exited = FALSE /\ exitCode = "success"
    /\ allStarted = TRUE
    /\ tick = FALSE /\ tickCount = 0 /\ cycle = 0
    /\ mq = <<>> /\ sent = 0
    /\ waiting = <<>> /\ closed = FALSE
    /\ job = [w \in Worker |-> NoEmergency]
    /\ astray = FALSE
    /\ ticksFile = <<>>
    /\ logEnded = FALSE /\ logStuck = 0

Goto(t, place) == pc' = [pc EXCEPT ![t] = place]

-----------------------------------------------------------------------------
(***************************************************************************)
(* What the threads share.                                                 *)
(***************************************************************************)
\* log_event, n times: a thread is kept in mq_send when the log has ended and
\* its queue is full.
Log(n) ==
    /\ ~logEnded \/ logStuck + n <= LogRoom
    /\ logStuck' = IF logEnded THEN logStuck + n ELSE logStuck
    /\ UNCHANGED logEnded

\* An event that is_terminating.
LogLast ==
    /\ ~logEnded \/ logStuck < LogRoom
    /\ logStuck' = IF logEnded THEN logStuck + 1 ELSE logStuck
    /\ logEnded' = TRUE

\* Where a thread has the emergencies' mutex: the updater from lock_system on,
\* wherever it is called away to.
InRound == {"round", "walked", "fatal", "swap", "flag", "close", "bell",
            "slots", "post"}
InSection == {"search", "store"}

EmergenciesFree == /\ pc["updater"] \notin InRound
                   /\ \A w \in Worker : pc[w] \notin InSection

\* Mutant: the updater does not test under the clock's mutex.
AnyTime == TRUE

\* Between its test and its sleep the updater has the clock's mutex.
ClockFree == pc["updater"] # "drowsy"

\* cnd_broadcast on clock->updated, in the step that takes t to place.
WakeUpdater(t, place) ==
    pc' = [pc EXCEPT ![t] = place,
                     !["updater"] = IF @ = "asleep" THEN "test" ELSE @]

-----------------------------------------------------------------------------
(***************************************************************************)
(* main, until everything runs.                                            *)
(***************************************************************************)
Parse ==
    /\ pc["main"] = "parse"
    /\ ConfigNext
    /\ UNCHANGED lifeVars

\* A NULL that main looks at too late ends the process; one that it finds
\* makes it log a fatal error and close.
Parsed ==
    /\ pc["main"] = "parse"
    /\ \/ /\ phase = "undefined"
          /\ Goto("main", "died")
          /\ UNCHANGED <<exitCode, logVars>>
       \/ /\ phase = "failed"
          /\ LogLast
          /\ exitCode' = "failure"
          /\ Goto("main", "report")
       \/ /\ phase = "parsed" /\ <<environment, rescuers, types>> \in Catalogue
          /\ Goto("main", "set up")
          /\ UNCHANGED <<exitCode, logVars>>
    /\ UNCHANGED <<configVars, stop, exited, allStarted, clockVars, cycle,
                   mailVars, workVars, closed, ticksFile>>

\* server_ipc_setup; a system call that fails ends the process on the spot.
SetUp ==
    /\ pc["main"] = "set up"
    /\ Goto("main", "start") \/ Goto("main", "died")
    /\ UNCHANGED <<configVars, stopVars, allStarted, clockVars,
                   cycle, mailVars, workVars, closed, ticksFile, logVars>>

Started == {t \in Thread : pc[t] # "unborn"}

\* The threads thrd_create may be called for: the clock, the updater, the
\* receiver and then the workers.
NextThreads ==
    CASE "clock" \notin Started -> {"clock"}
      [] "updater" \notin Started -> {"updater"}
      [] "receiver" \notin Started -> {"receiver"}
      [] OTHER -> Worker \ Started

\* start_threads: all of them, or up to a thrd_create that fails.
StartThread ==
    /\ pc["main"] = "start"
    /\ \/ \E t \in NextThreads \ Started :
             \/ Goto(t, "loop") /\ UNCHANGED allStarted
             \/ Goto("main", "fatal") /\ allStarted' = FALSE
       \/ /\ Started = Thread
          /\ Goto("main", "sigwait") /\ UNCHANGED allStarted
    /\ UNCHANGED <<configVars, stopVars, clockVars, cycle, mailVars,
                   workVars, closed, ticksFile, logVars>>

\* ctrl+C or kill: the signals are blocked until main waits for one.
Sigwait ==
    /\ pc["main"] = "sigwait"
    /\ Log(1)
    /\ Goto("main", "flag")
    /\ UNCHANGED <<configVars, stopVars, allStarted, clockVars, cycle,
                   mailVars, workVars, closed, ticksFile>>

-----------------------------------------------------------------------------
(***************************************************************************)
(* The stop: by main after a signal, or by request_shutdown_from_thread,   *)
(* which main and the updater call after a fatal error: the same steps in  *)
(* another order.                                                          *)
(***************************************************************************)
BySignal(t) == t = "main" /\ allStarted

\* Where request_shutdown_from_thread returns to.
Caller(t) == IF t = "main" THEN "join" ELSE "walked"

After(t, s) ==
    CASE s = "flag"  -> IF BySignal(t) THEN "post" ELSE "close"
      [] s = "post"  -> IF BySignal(t) THEN "close" ELSE Caller(t)
      [] s = "close" -> "bell"
      [] s = "bell"  -> "slots"
      [] s = "slots" -> IF BySignal(t) THEN "join" ELSE "post"

\* log_error_and_exit.
Fatal(t) ==
    /\ pc[t] = "fatal"
    /\ LogLast
    /\ Goto(t, "swap")
    /\ UNCHANGED <<configVars, stopVars, allStarted, clockVars,
                   cycle, mailVars, workVars, closed, ticksFile>>

\* Only the first caller goes on.
Swap(t) ==
    /\ pc[t] = "swap"
    /\ exitCode' = "failure" /\ exited' = TRUE
    /\ Goto(t, IF exited THEN Caller(t) ELSE "flag")
    /\ UNCHANGED <<configVars, stop, allStarted, clockVars, cycle,
                   mailVars, workVars, closed, ticksFile, logVars>>

RaiseFlag(t) ==
    /\ pc[t] = "flag"
    /\ stop' = TRUE
    /\ Goto(t, After(t, "flag"))
    /\ UNCHANGED <<configVars, exited, exitCode, allStarted,
                   clockVars, cycle, mailVars, workVars, closed, ticksFile,
                   logVars>>

\* mq_send of MQ_STOP_MESSAGE waits for room.
PostStop(t) ==
    /\ pc[t] = "post"
    /\ Len(mq) < MqRoom
    /\ mq' = Append(mq, StopMessage)
    /\ Goto(t, After(t, "post"))
    /\ UNCHANGED <<configVars, stopVars, allStarted, clockVars,
                   cycle, sent, workVars, closed, ticksFile, logVars>>

CloseQueue(t) ==
    /\ pc[t] = "close"
    /\ closed' = TRUE
    /\ Goto(t, After(t, "close"))
    /\ UNCHANGED <<configVars, stopVars, allStarted, clockVars,
                   cycle, mailVars, workVars, ticksFile, logVars>>

\* Without the clock's mutex.
RingBell(t) ==
    /\ pc[t] = "bell"
    /\ WakeUpdater(t, After(t, "bell"))
    /\ UNCHANGED <<configVars, stopVars, allStarted, clockVars,
                   cycle, mailVars, workVars, closed, ticksFile, logVars>>

\* With the emergencies' mutex, which the updater has already if it is the one
\* that calls (thread_updater.c:89).
WakeWorkers(t) ==
    /\ pc[t] = "slots"
    /\ EmergenciesFree
    /\ pc' = [u \in DOMAIN pc |->
              IF u = t THEN After(t, "slots")
              ELSE IF u \in Worker /\ pc[u] = "asleep" THEN "wait" ELSE pc[u]]
    /\ UNCHANGED <<configVars, stopVars, allStarted, clockVars,
                   cycle, mailVars, workVars, closed, ticksFile, logVars>>

Stop(t) == \/ Fatal(t) \/ Swap(t) \/ RaiseFlag(t) \/ PostStop(t)
           \/ CloseQueue(t) \/ RingBell(t) \/ WakeWorkers(t)

\* Mutant: the updater is not waited for.
JoinOthers == pc["main"] = "join"
              /\ \A t \in Started \ {"updater"} : pc[t] = "dead"

\* thrd_join of the threads that were started.
Joined == /\ pc["main"] = "join"
          /\ \A t \in Started : pc[t] = "dead"

Join ==
    /\ Joined
    /\ Goto("main", "report")
    /\ UNCHANGED <<configVars, stopVars, allStarted, clockVars,
                   cycle, mailVars, workVars, closed, ticksFile, logVars>>

\* close_server: six lines, the files of the positions, and log_close, which
\* waits until the log is written to its end.
CloseLines == 7

Report ==
    /\ pc["main"] = "report"
    /\ ~logEnded \/ logStuck + CloseLines <= LogRoom
    /\ logStuck' = IF logEnded THEN logStuck + CloseLines ELSE logStuck
    /\ logEnded' = TRUE
    /\ Goto("main", "clean up")
    /\ UNCHANGED <<configVars, stopVars, allStarted, clockVars,
                   cycle, mailVars, workVars, closed, ticksFile>>

\* free_emergencies follows a NULL if the parse has failed, and goes on behind
\* an array of requests that is full (structs.c:69-88).
Freeable == /\ phase = "parsed"
            /\ \A i \in DOMAIN types : Len(types[i].requests) < MaxRequests

\* The rest of close_server, and cleanup_server_context.
CleanUp ==
    /\ pc["main"] = "clean up"
    /\ EmergenciesFree
    /\ stop' = TRUE
    /\ Goto("main", IF Freeable THEN "exited" ELSE "died")
    /\ UNCHANGED <<configVars, exited, exitCode, allStarted,
                   clockVars, cycle, mailVars, workVars, closed, ticksFile,
                   logVars>>

-----------------------------------------------------------------------------
(***************************************************************************)
(* The clock (thread_clock.c).                                             *)
(***************************************************************************)
\* Every thread's loop begins with a look at the flag.
Look(t, place) ==
    /\ pc[t] = "loop"
    /\ Goto(t, place)
    /\ UNCHANGED <<configVars, stopVars, allStarted, clockVars,
                   cycle, mailVars, workVars, closed, ticksFile, logVars>>

\* Mutant: a clock that has seen the flag does not tick again.
LeaveAtOnce == Look("clock", IF stop THEN "dead" ELSE "sleep")

\* A clock that has seen the flag ticks once more.
ClockLoop == Look("clock", IF stop THEN "last tick" ELSE "sleep")

\* Under the clock's mutex; an updater that is awake has to take it first.
Tick ==
    /\ pc["clock"] \in {"sleep", "last tick"}
    /\ ClockFree
    /\ pc["clock"] = "sleep" => stop \/ tickCount < MaxTicks
    /\ tick' = TRUE
    /\ tickCount' = tickCount + 1
    /\ WakeUpdater("clock", IF pc["clock"] = "sleep" THEN "loop" ELSE "dead")
    /\ UNCHANGED <<configVars, stopVars, allStarted, cycle,
                   mailVars, workVars, closed, ticksFile, logVars>>

Clock == ClockLoop \/ Tick

-----------------------------------------------------------------------------
(***************************************************************************)
(* The updater (thread_updater.c:12-40).                                   *)
(***************************************************************************)
UpdaterLoop == Look("updater", IF stop THEN "dead" ELSE "test")

\* Mutant: a round leaves the tick standing.
TestOnly ==
    /\ pc["updater"] = "test"
    /\ Goto("updater", IF stop THEN "dead"
                       ELSE IF tick THEN "number" ELSE "drowsy")
    /\ UNCHANGED <<configVars, stopVars, allStarted, clockVars,
                   cycle, mailVars, workVars, closed, ticksFile, logVars>>

\* Under the clock's mutex: wait, or leave, or take the tick.
UpdaterTest ==
    /\ pc["updater"] = "test"
    /\ \/ /\ stop
          /\ Goto("updater", "dead") /\ UNCHANGED tick
       \/ /\ ~stop /\ ~tick
          /\ Goto("updater", "drowsy") /\ UNCHANGED tick
       \/ /\ ~stop /\ tick
          /\ Goto("updater", "number") /\ tick' = FALSE
    /\ UNCHANGED <<configVars, stopVars, allStarted, tickCount,
                   cycle, mailVars, workVars, closed, ticksFile, logVars>>

\* cnd_wait: a broadcast that came since the test is lost.
UpdaterSleep ==
    /\ pc["updater"] = "drowsy"
    /\ Goto("updater", "asleep")
    /\ UNCHANGED <<configVars, stopVars, allStarted, clockVars,
                   cycle, mailVars, workVars, closed, ticksFile, logVars>>

\* The count is read without the mutex, after other ticks perhaps.
UpdaterNumber ==
    /\ pc["updater"] = "number"
    /\ cycle' = tickCount
    /\ Log(1)
    /\ Goto("updater", "lock")
    /\ UNCHANGED <<configVars, stopVars, allStarted, clockVars,
                   mailVars, workVars, closed, ticksFile>>

UpdaterLock ==
    /\ pc["updater"] = "lock"
    /\ EmergenciesFree
    /\ Goto("updater", "round")
    /\ UNCHANGED <<configVars, stopVars, allStarted, clockVars,
                   cycle, mailVars, workVars, closed, ticksFile, logVars>>

\* A twin steps off the map.
UpdaterAstray ==
    /\ pc["updater"] = "round" /\ astray
    /\ Goto("updater", "fatal")
    /\ UNCHANGED <<configVars, stopVars, allStarted, clockVars,
                   cycle, mailVars, workVars, closed, ticksFile, logVars>>

\* The rest of the round: some emergencies are complete and their workers
\* woken, and the round is written to simulation.json.
UpdaterRound ==
    /\ pc["updater"] \in {"round", "walked"}
    /\ \E S \in SUBSET {w \in Worker : pc[w] = "asleep"} :
          pc' = [t \in DOMAIN pc |-> IF t = "updater" THEN "loop"
                                     ELSE IF t \in S THEN "leave" ELSE pc[t]]
    /\ ticksFile' = Append(ticksFile, cycle)
    /\ UNCHANGED <<configVars, stopVars, allStarted, clockVars,
                   cycle, mailVars, workVars, closed, logVars>>

Updater == \/ UpdaterLoop \/ UpdaterTest \/ UpdaterSleep \/ UpdaterNumber
           \/ UpdaterLock \/ UpdaterAstray \/ UpdaterRound

-----------------------------------------------------------------------------
(***************************************************************************)
(* The clients and the receiver (thread_reciever.c:9-43).                  *)
(***************************************************************************)
\* A client may send from the moment the semaphore is posted.
ClientSend ==
    /\ phase = "parsed" /\ pc["main"] \notin {"parse", "set up", "died", "exited"}
    /\ sent < MaxSent /\ Len(mq) < MqRoom
    /\ \E r \in Request : mq' = Append(mq, r)
    /\ sent' = sent + 1
    /\ UNCHANGED <<configVars, pc, stopVars, allStarted, clockVars,
                   cycle, workVars, closed, ticksFile, logVars>>

ReceiverLoop == Look("receiver", IF stop THEN "dead" ELSE "receive")

\* pq_push drops what it is given when the queue is closed.
Receive ==
    /\ pc["receiver"] = "receive" /\ mq # <<>>
    /\ mq' = Tail(mq)
    /\ LET r == Head(mq) IN
          /\ Goto("receiver", IF r = StopMessage THEN "dead" ELSE "answer")
          /\ waiting' = IF RequestIsLegal(r) /\ ~closed THEN Append(waiting, r)
                                                        ELSE waiting
    /\ UNCHANGED <<configVars, stopVars, allStarted, clockVars,
                   cycle, sent, job, astray, closed, ticksFile, logVars>>

\* The line about the request, accepted or not.
ReceiverAnswer ==
    /\ pc["receiver"] = "answer"
    /\ Log(1)
    /\ Goto("receiver", "loop")
    /\ UNCHANGED <<configVars, stopVars, allStarted, clockVars,
                   cycle, mailVars, workVars, closed, ticksFile>>

Receiver == ReceiverLoop \/ Receive \/ ReceiverAnswer

-----------------------------------------------------------------------------
(***************************************************************************)
(* The workers (thread_worker.c:38-91).                                    *)
(***************************************************************************)
WorkerLoop(w) == Look(w, IF stop THEN "dead" ELSE "pop")

\* pq_pop waits while the queue is empty and open.
WorkerPop(w) ==
    /\ pc[w] = "pop"
    /\ \/ /\ waiting # <<>>
          /\ job' = [job EXCEPT ![w] = Head(waiting)]
          /\ waiting' = Tail(waiting)
          /\ Goto(w, "open")
       \/ /\ waiting = <<>> /\ closed
          /\ Goto(w, "dead") /\ UNCHANGED <<job, waiting>>
    /\ UNCHANGED <<configVars, stopVars, allStarted, clockVars,
                   cycle, mailVars, astray, closed, ticksFile, logVars>>

\* The line about the emergency, and open_slot.
WorkerOpen(w) ==
    /\ pc[w] = "open"
    /\ EmergenciesFree /\ Log(1)
    /\ Goto(w, "inner")
    /\ UNCHANGED <<configVars, stopVars, allStarted, clockVars,
                   cycle, mailVars, workVars, closed, ticksFile>>

WorkerInner(w) ==
    /\ pc[w] = "inner"
    /\ \/ stop /\ Goto(w, "leave")
       \/ ~stop /\ EmergenciesFree /\ Goto(w, "search")
    /\ UNCHANGED <<configVars, stopVars, allStarted, clockVars,
                   cycle, mailVars, workVars, closed, ticksFile, logVars>>

\* Mirrors the test of thread_updater.c:88.
OnMap(x, y) == /\ x \in 0..(environment.width - 1)
               /\ y \in 0..(environment.height - 1)

\* The scene, or the base of a rescuer that is asked for, is off the map: the
\* parsers take x = width and y = height (parse_rescuers.c:75).
LeadsAstray(r) ==
    \/ ~OnMap(r.x, r.y)
    \/ \E i \in DOMAIN types, k \in DOMAIN rescuers :
          /\ types[i].name = r.name
          /\ Named(rescuers[k].name, types[i].requests)
          /\ ~OnMap(rescuers[k].x, rescuers[k].y)

\* find_rescuers_logging_blocking, which logs with the mutexes in hand.  Twins
\* stolen from another worker's emergency wake that worker.
WorkerSearch(w) ==
    /\ pc[w] = "search"
    /\ Log(1)
    /\ \/ /\ Goto(w, "leave") /\ UNCHANGED astray
       \/ /\ \E S \in SUBSET {v \in Worker : pc[v] = "asleep"} :
                pc' = [t \in DOMAIN pc |->
                          IF t = w THEN "wait"
                          ELSE IF t \in S THEN "inner" ELSE pc[t]]
          /\ astray' = (astray \/ LeadsAstray(job[w]))
    /\ UNCHANGED <<configVars, stopVars, allStarted, clockVars,
                   cycle, mailVars, waiting, job, closed, ticksFile>>

\* Under the mutex that the broadcasts take too: the test and the sleep are one.
WorkerWait(w) ==
    /\ pc[w] = "wait"
    /\ EmergenciesFree
    /\ Goto(w, IF stop THEN "leave" ELSE "asleep")
    /\ UNCHANGED <<configVars, stopVars, allStarted, clockVars,
                   cycle, mailVars, workVars, closed, ticksFile, logVars>>

WorkerLeave(w) ==
    /\ pc[w] = "leave"
    /\ EmergenciesFree
    /\ Goto(w, "store")
    /\ UNCHANGED <<configVars, stopVars, allStarted, clockVars,
                   cycle, mailVars, workVars, closed, ticksFile, logVars>>

\* change_status_store_close_logging_blocking, which logs with the mutex.
WorkerStore(w) ==
    /\ pc[w] = "store"
    /\ Log(1)
    /\ job' = [job EXCEPT ![w] = NoEmergency]
    /\ Goto(w, "loop")
    /\ UNCHANGED <<configVars, stopVars, allStarted, clockVars,
                   cycle, mailVars, waiting, astray, closed, ticksFile>>

Work(w) == \/ WorkerLoop(w) \/ WorkerPop(w) \/ WorkerOpen(w) \/ WorkerInner(w)
           \/ WorkerSearch(w) \/ WorkerWait(w) \/ WorkerLeave(w)
           \/ WorkerStore(w)

-----------------------------------------------------------------------------
Main == \/ Parse \/ Parsed \/ SetUp \/ StartThread \/ Stop("main")
        \/ Join \/ Report \/ CleanUp

Next == \/ Main \/ Clock \/ Updater \/ Stop("updater") \/ Receiver
        \/ \E w \in Worker : Work(w)
        \/ Sigwait \/ ClientSend

Spec == Init /\ [][Next]_vars

\* Every thread is scheduled, a mutex that is free is got by who waits for it,
\* and the clock comes back from its sleep.  Nothing is assumed of clients and
\* of whoever sends signals.
FairSpec == /\ Spec
            /\ WF_vars(Main) /\ WF_vars(Clock)
            /\ WF_vars(Updater \/ Stop("updater")) /\ WF_vars(Receiver)
            /\ \A w \in Worker : WF_vars(Work(w))

-----------------------------------------------------------------------------
(***************************************************************************)
(* Properties.                                                             *)
(***************************************************************************)
\* A tick wakes the updater or finds it awake: it never sleeps on while there
\* is a tick to be taken (thread_clock.c:9-12, thread_updater.c:15-17).
NoTickSleptThrough == pc["updater"] = "asleep" => ~tick

\* Rounds are written in order; ticks that come while the updater is busy are
\* merged, and a tick between untick and the reading of the count gives two
\* rounds the same number, but never three (thread_updater.c:22-25, 31).
RoundsNumbered ==
    /\ \A i \in DOMAIN ticksFile : ticksFile[i] \in 1..tickCount
    /\ \A i, j \in DOMAIN ticksFile :
          /\ i <= j => ticksFile[i] <= ticksFile[j]
          /\ i + 2 <= j => ticksFile[i] < ticksFile[j]

\* What main takes apart and frees nobody uses any more, whether all threads
\* were started or some, and whoever stopped them (main.c:53-63, 83-91).
\* A server that reports success has lost no line of its log.
LastOneOut ==
    /\ pc["main"] \in {"report", "clean up", "exited"} =>
          \A t \in Started : pc[t] = "dead"
    /\ pc["main"] = "exited" /\ exitCode = "success" => logStuck = 0

\* The three ways a stop does not come to its end.
\* The updater waits for the mutex it has: a twin has left the map
\* (thread_updater.c:88, main.c:214).
SelfLocked == pc["updater"] = "slots"

\* main waits for room in the queue of the receiver that has seen the flag, or
\* was never started (main.c:70-71, 235).
MailboxFull ==
    /\ pc["main"] = "post" /\ Len(mq) = MqRoom
    /\ pc["receiver"] \in {"dead", "unborn"}

\* After a fatal error the queue of the log fills up, and somebody waits for
\* room in it (log.c:257).
LogFull == logEnded /\ logStuck + CloseLines > LogRoom

\* README.md:189: whenever the signal comes, a thread cannot be started or a
\* thread stops the others after a fatal error, the server's process comes to
\* its end; it hangs only in the three ways named.  The updater that raises the
\* flag is itself one of them: main, which nobody tells, is left in sigwait
\* then, and at no other time (main.c:65, 228).
StopEnds ==
    (pc["main"] = "flag" \/ stop \/ ~allStarted) ~>
        \/ pc["main"] \in {"exited", "died"}
        \/ SelfLocked \/ MailboxFull \/ LogFull

\* README.md:117: as long as the server is not stopped the updater takes every
\* tick, one or several at a time (thread_updater.c:15-23).
TickTaken == tick ~> ~tick \/ stop
=============================================================================
