------------------------------ MODULE Session ------------------------------
(***************************************************************************)
(* The server process and the clients that find it: the names in the       *)
(* system's table, what they stand for, and the log the clients share with *)
(* the server.  The server may be killed and started again; what is left   *)
(* of it stays in the table, and who has opened it keeps it.  What happens *)
(* inside the server between its start and its stop is the subject of      *)
(* ServerLife and RescueServer; here it is what a client may notice of it: *)
(* the receiver, main's stop, and the fatal errors after which the server  *)
(* may live on without a receiver.                                         *)
(*                                                                         *)
(* The queues, the memory and the semaphore that the n-th server creates   *)
(* are those of generation n; generation 0 is nothing at all.              *)
(*                                                                         *)
(* Lines that a process logs one after the other are one line here.  Of    *)
(* what the server logs, the lines about a request and main's are here:    *)
(* they are what its end may wait for.  A thread of the others that waits  *)
(* for room in a log nobody reads is a stop that does not go on.           *)
(***************************************************************************)
EXTENDS Integers, Sequences

CONSTANTS
    Client,
    MaxStarts,      \* bound: how often the server is started
    MaxFailing,     \* bound: the servers that may fail or be killed
    MqRoom,         \* mq_maxmsg of the queue of the requests
    LogRoom,        \* MAX_LOG_QUEUE_MESSAGES
    MaxFileLines    \* bound: the requests of a client

ASSUME SessionAssumption == MaxStarts \in Nat

VARIABLES
    server,         \* where the server is
    generation,     \* which server it is
    linked,         \* what the names stand for
    logLines,       \* the lines in the log queue of every generation
    exited,         \* of request_shutdown_from_thread
    receiver,       \* where the receiver of the running server is
    updater,        \* its updater
    logEnded,       \* the logger of the running server has left its loop
    memory,         \* the fields of the memory that have been written
    semaphore,      \* its value, in every generation
    requests,       \* the messages in every queue
    terminated,     \* SIGTERM is pending for the running server
    at,             \* where every client is
    has,            \* the generations of what it has opened
    pid,            \* the server_pid it has read
    toSend          \* the requests it has not sent yet

threadVars == <<exited, receiver, updater>>
serverVars == <<server, generation, threadVars, logEnded, terminated>>
objectVars == <<linked, logLines, memory, semaphore, requests>>
clientVars == <<at, has, pid, toSend>>
vars == <<serverVars, objectVars, clientVars>>

Name == {"log", "queue", "memory", "semaphore"}
Generation == 1..MaxStarts
Nowhere == [n \in Name |-> 0]

\* Where the server does not run.
Down == {"down", "died"}

\* From the end of the threads on.
Closing == {"report", "end log", "clean up"}

Init ==
    /\ server = "down" /\ generation = 0
    /\ exited = FALSE /\ receiver = "new" /\ updater = "sound"
    /\ logEnded = FALSE /\ terminated = FALSE
    /\ linked = Nowhere
    /\ logLines = [g \in Generation |-> <<>>]
    /\ memory = [g \in Generation |-> {}]
    /\ semaphore = [g \in Generation |-> 0]
    /\ requests = [g \in Generation |-> <<>>]
    /\ at = [c \in Client |-> "new"]
    /\ has = [c \in Client |-> Nowhere]
    /\ pid = [c \in Client |-> 0]
    /\ toSend = [c \in Client |-> 0]

-----------------------------------------------------------------------------
(***************************************************************************)
(* The log (log.c): the queue of generation g, read by the server's        *)
(* logger.  A line is "client", "server" or "last", an event of the server *)
(* that is_terminating.  mq_send waits for room; a process that found no   *)
(* queue logs without it.                                                  *)
(***************************************************************************)
LogTo(g, l) ==
    IF g = 0 THEN UNCHANGED logLines
    ELSE /\ Len(logLines[g]) < LogRoom
         /\ logLines' = [logLines EXCEPT ![g] = Append(@, l)]

\* Mutant: any process that ends its log ends it for all.
IsAnyLast(l) == l \in {"last", "client"}

\* Mutant: the logger does not stop.
IsNoLast(l) == FALSE

\* Only an event of the logger's own role ends it.
EndsTheLog(l) == l = "last"

LoggerWrites ==
    /\ server \notin Down /\ ~logEnded
    /\ logLines[generation] # <<>>
    /\ logLines' = [logLines EXCEPT ![generation] = Tail(@)]
    /\ logEnded' = EndsTheLog(Head(logLines[generation]))
    /\ UNCHANGED <<server, generation, threadVars, terminated, linked, memory,
                   semaphore, requests, clientVars>>

-----------------------------------------------------------------------------
(***************************************************************************)
(* The server (main.c:12-50, 175-209, 240-281).                            *)
(***************************************************************************)
Step(from, to) == server = from /\ server' = to

\* log_init of the server: a new queue takes the name of an old one.
Start ==
    /\ Step("down", "parse") /\ generation < MaxStarts
    /\ generation' = generation + 1
    /\ linked' = [linked EXCEPT !["log"] = generation + 1]
    /\ UNCHANGED <<threadVars, logEnded, terminated, logLines, memory, semaphore,
                   requests, clientVars>>

\* The files are in order; or a parser returned NULL, which is a fatal error if
\* main finds it in time.  If not, it is the end of the process, as in Crash
\* (see Configuration).
Parse ==
    /\ \/ Step("parse", "renew") /\ UNCHANGED logLines
       \/ Step("parse", "report") /\ LogTo(generation, "last")
    /\ UNCHANGED <<generation, threadVars, logEnded, terminated, linked, memory, semaphore,
                   requests, clientVars>>

\* Mutant: the semaphore's name is left in the table.
RenewNotAll ==
    /\ Step("renew", "make memory")
    /\ linked' = [linked EXCEPT !["memory"] = 0, !["queue"] = generation]
    /\ UNCHANGED <<generation, threadVars, logEnded, terminated, logLines, memory, semaphore,
                   requests, clientVars>>

\* server_ipc_setup: no leftovers, and a queue with the name in env.conf.
Renew ==
    /\ Step("renew", "make memory")
    /\ linked' = [linked EXCEPT !["memory"] = 0, !["semaphore"] = 0,
                                !["queue"] = generation]
    /\ UNCHANGED <<generation, threadVars, logEnded, terminated, logLines, memory, semaphore,
                   requests, clientVars>>

\* O_CREAT | O_EXCL: a name that is there is an error, which ends the process.
MakeMemory ==
    /\ Step("make memory", IF linked["memory"] = 0 THEN "write queue" ELSE "died")
    /\ linked' = [linked EXCEPT !["memory"] = IF @ = 0 THEN generation ELSE @]
    /\ UNCHANGED <<generation, threadVars, logEnded, terminated, logLines,
                   memory, semaphore, requests, clientVars>>

Write(field) ==
    /\ memory' = [memory EXCEPT ![generation] = @ \cup {field}]
    /\ UNCHANGED <<generation, threadVars, logEnded, terminated, linked,
                   logLines, semaphore, requests, clientVars>>

WriteQueue == Step("write queue", "write pid") /\ Write("queue")

\* Mutant: server_pid is not written.
PidForgotten == Step("write pid", "make semaphore") /\ Write("queue")

WritePid == Step("write pid", "make semaphore") /\ Write("pid")

\* sem_open with the value 0.
MakeSemaphore ==
    /\ Step("make semaphore", IF linked["semaphore"] = 0 THEN "post" ELSE "died")
    /\ linked' = [linked EXCEPT !["semaphore"] = IF @ = 0 THEN generation ELSE @]
    /\ UNCHANGED <<generation, threadVars, logEnded, terminated, logLines,
                   memory, semaphore, requests, clientVars>>

\* sem_post: the clients may come in.
PostSemaphore ==
    /\ Step("post", "running")
    /\ semaphore' = [semaphore EXCEPT ![generation] = @ + 1]
    /\ UNCHANGED <<generation, threadVars, logEnded, terminated, linked,
                   logLines, memory, requests, clientVars>>

-----------------------------------------------------------------------------
(***************************************************************************)
(* The threads (main.c:94-139, thread_reciever.c, thread_updater.c:88-90)  *)
(* and the two ways to stop them (main.c:64-91, 222-237).  In "running"    *)
(* main creates the threads and then waits for a signal.                   *)
(***************************************************************************)
\* server_must_stop; from close_server on no thread is left to look at it.
StopFlag == \/ server \in {"send stop", "join"} \cup Closing
            \/ updater = "locked"

\* The flag is raised by main.  A new receiver has not received anything; if it
\* has been created and has looked at the flag by now it waits for a message, and
\* if not it is no use any more.
FlagMeetsReceiver ==
    receiver' \in IF receiver = "new" THEN {"receive", "dead"} ELSE {receiver}

\* A thread cannot be created: a fatal error, and request_shutdown_from_thread,
\* where only the first caller goes on.
StartFails ==
    /\ generation <= MaxFailing
    /\ Step("running", IF exited THEN "join" ELSE "send stop")
    /\ LogTo(generation, "last")
    /\ exited' = TRUE /\ FlagMeetsReceiver
    /\ UNCHANGED <<generation, updater, logEnded, terminated, linked,
                   memory, semaphore, requests, clientVars>>

\* A message is the stop or a request.  A request that is accepted may send a
\* twin off the map (see ServerLife).
Receive ==
    /\ server \notin Down /\ requests[generation] # <<>>
    /\ \/ receiver = "receive"
       \/ receiver = "new" /\ server = "running"
    /\ requests' = [requests EXCEPT ![generation] = Tail(@)]
    /\ \/ /\ Head(requests[generation]) = "stop"
          /\ receiver' = "dead" /\ UNCHANGED updater
       \/ /\ Head(requests[generation]) = "request"
          /\ receiver' = "answer"
          /\ \/ UNCHANGED updater
             \/ updater = "sound" /\ generation <= MaxFailing /\ updater' = "astray"
    /\ UNCHANGED <<server, generation, exited, logEnded, terminated, linked, logLines,
                   memory, semaphore, clientVars>>

\* The line about the request; then the receiver looks at the flag.
Answer ==
    /\ server \notin Down /\ receiver = "answer"
    /\ LogTo(generation, "server")
    /\ receiver' = IF StopFlag THEN "dead" ELSE "receive"
    /\ UNCHANGED <<server, generation, exited, updater, logEnded, terminated, linked,
                   memory, semaphore, requests, clientVars>>

\* A twin steps off the map, a fatal error in the updater's round.  If nobody
\* has called request_shutdown_from_thread before, the updater raises the flag
\* and waits for the mutex it has: it stays there.
UpdaterFatal ==
    /\ server \in {"running", "send stop", "join"} /\ updater = "astray"
    /\ LogTo(generation, "last")
    /\ updater' = IF exited THEN "sound" ELSE "locked"
    /\ exited' = TRUE
    /\ UNCHANGED <<server, generation, receiver, logEnded, terminated, linked,
                   memory, semaphore, requests, clientVars>>

\* main takes the signal and raises the flag; its threads have been created.
Sigwait ==
    /\ Step("running", "send stop") /\ terminated
    /\ LogTo(generation, "server")
    /\ FlagMeetsReceiver
    /\ UNCHANGED <<generation, exited, updater, logEnded, terminated, linked, memory,
                   semaphore, requests, clientVars>>

\* mq_send of MQ_STOP_MESSAGE waits for room.
SendStop ==
    /\ Step("send stop", "join")
    /\ Len(requests[generation]) < MqRoom
    /\ requests' = [requests EXCEPT ![generation] = Append(@, "stop")]
    /\ UNCHANGED <<generation, threadVars, logEnded, terminated, linked, logLines,
                   memory, semaphore, clientVars>>

\* All threads that were started have come to their end.
Join ==
    /\ Step("join", "report")
    /\ receiver = "dead" /\ updater # "locked"
    /\ UNCHANGED <<generation, threadVars, logEnded, terminated, objectVars, clientVars>>

-----------------------------------------------------------------------------
(***************************************************************************)
(* The end of the server (main.c:240-281, 302-343).                        *)
(***************************************************************************)
ThreadsGone == exited' = FALSE /\ receiver' = "new" /\ updater' = "sound"

\* close_server logs the statistics and the end of the log, ...
Report ==
    /\ Step("report", "end log")
    /\ LogTo(generation, "last")
    /\ UNCHANGED <<generation, threadVars, logEnded, terminated, linked, memory,
                   semaphore, requests, clientVars>>

\* ... log_close waits for the logger and unlinks the queue, ...
EndLog ==
    /\ Step("end log", "clean up") /\ logEnded
    /\ linked' = [linked EXCEPT !["log"] = 0]
    /\ UNCHANGED <<generation, threadVars, logEnded, terminated, logLines,
                   memory, semaphore, requests, clientVars>>

\* ... and cleanup_server_context the other names.
CleanUp ==
    /\ Step("clean up", "down") /\ ThreadsGone
    /\ linked' = Nowhere
    /\ logEnded' = FALSE /\ terminated' = FALSE
    /\ UNCHANGED <<generation, logLines, memory, semaphore, requests, clientVars>>

\* kill -9, or a system call that fails (errors.h).
Crash ==
    /\ server \notin Down /\ generation <= MaxFailing
    /\ server' = "down" /\ ThreadsGone
    /\ logEnded' = FALSE /\ terminated' = FALSE
    /\ UNCHANGED <<generation, objectVars, clientVars>>

\* While main stops the threads, one of them may wait for ever for room in a log
\* that has ended with a fatal error, and have a mutex that main needs.
MainWaits == SendStop \/ Join

Server == \/ Parse \/ Renew \/ MakeMemory
          \/ WriteQueue \/ WritePid \/ MakeSemaphore \/ PostSemaphore
          \/ Sigwait \/ (~logEnded /\ MainWaits)
          \/ Report \/ EndLog \/ CleanUp

Receiver == Receive \/ Answer

-----------------------------------------------------------------------------
(***************************************************************************)
(* A client (client.c).                                                    *)
(***************************************************************************)
Move(c, from, to) == at[c] = from /\ at' = [at EXCEPT ![c] = to]

\* exit, which closes what is open.
End(c) ==
    /\ at' = [at EXCEPT ![c] = "gone"]
    /\ has' = [has EXCEPT ![c] = Nowhere]
    /\ pid' = [pid EXCEPT ![c] = 0]

Open(c, name) == has' = [has EXCEPT ![c][name] = linked[name]]

Keep(c, names) ==
    has' = [has EXCEPT ![c] = [n \in Name |-> IF n \in names THEN @[n] ELSE 0]]

\* log_init: the queue of the log is tried for a while, and done without.
OpenLog(c) ==
    /\ Move(c, "new", "greet")
    /\ Open(c, "log")
    /\ UNCHANGED <<serverVars, objectVars, pid, toSend>>

\* The first lines; a wrong number of arguments ends the client.
Greet(c) ==
    /\ LogTo(has[c]["log"], "client")
    /\ Move(c, "greet", "enter") \/ Move(c, "greet", "close")
    /\ UNCHANGED <<serverVars, linked, memory, semaphore, requests,
                   has, pid, toSend>>

\* sem_open; without a semaphore the client ends without a word.
Enter(c) ==
    /\ at[c] = "enter"
    /\ \/ linked["semaphore"] = 0 /\ End(c)
       \/ /\ linked["semaphore"] # 0
          /\ Move(c, "enter", "wait") /\ Open(c, "semaphore") /\ UNCHANGED pid
    /\ UNCHANGED <<serverVars, objectVars, toSend>>

SemWait(c) ==
    LET g == has[c]["semaphore"] IN
    /\ Move(c, "wait", "post")
    /\ semaphore[g] > 0
    /\ semaphore' = [semaphore EXCEPT ![g] = @ - 1]
    /\ UNCHANGED <<serverVars, linked, logLines, memory, requests,
                   has, pid, toSend>>

\* Mutant: who comes in closes the door.
SemKeep(c) ==
    /\ Move(c, "post", "map")
    /\ UNCHANGED <<serverVars, objectVars, has, pid, toSend>>

\* For the next client.
SemPost(c) ==
    LET g == has[c]["semaphore"] IN
    /\ Move(c, "post", "map")
    /\ semaphore' = [semaphore EXCEPT ![g] = @ + 1]
    /\ UNCHANGED <<serverVars, linked, logLines, memory, requests,
                   has, pid, toSend>>

\* shm_open and mmap.
Map(c) ==
    /\ at[c] = "map"
    /\ \/ linked["memory"] = 0 /\ End(c)
       \/ /\ linked["memory"] # 0
          /\ Move(c, "map", "read") /\ Open(c, "memory") /\ UNCHANGED pid
    /\ UNCHANGED <<serverVars, objectVars, toSend>>

\* mq_open with the name in the memory, which may not have been written; then
\* the rest of the memory is read.
Read(c) ==
    LET g == has[c]["memory"] IN
    /\ at[c] = "read"
    /\ \/ /\ "queue" \notin memory[g] \/ linked["queue"] = 0
          /\ End(c)
       \/ /\ "queue" \in memory[g] /\ linked["queue"] # 0
          /\ Move(c, "read", "choose") /\ Open(c, "queue")
          /\ pid' = [pid EXCEPT ![c] = IF "pid" \in memory[g] THEN g ELSE 0]
    /\ UNCHANGED <<serverVars, objectVars, toSend>>

\* The queue is kept by who has a request to send.
KeepForRequests(c) ==
    Keep(c, IF at'[c] = "submit" \/ toSend'[c] # 0 THEN {"log", "queue"} ELSE {"log"})

\* The requests that are left, n of them, one after the other.  Without a delay,
\* or with one that is too long, a request is only logged
\* (send_emergency_request_message).
NextRequest(c, from, n) ==
    /\ \/ n = 0 /\ Move(c, from, "close")
       \/ n > 0 /\ (Move(c, from, "submit") \/ Move(c, from, "told"))
    /\ toSend' = [toSend EXCEPT ![c] = IF n = 0 THEN 0 ELSE n - 1]

\* The memory is given back.  The mode: requests from the command line or a
\* file, -S, or one in which there is nothing to do.  The queue and the pid are
\* kept by those who use them.
Choose(c) ==
    /\ \/ \E n \in 0..MaxFileLines : NextRequest(c, "choose", n)
       \/ Move(c, "choose", "kill") /\ UNCHANGED toSend
    /\ KeepForRequests(c)
    /\ pid' = [pid EXCEPT ![c] = IF at'[c] = "kill" THEN @ ELSE 0]
    /\ UNCHANGED <<serverVars, objectVars>>

\* mq_send, after the delay.
Submit(c) ==
    LET g == has[c]["queue"] IN
    /\ Move(c, "submit", "told")
    /\ Len(requests[g]) < MqRoom
    /\ requests' = [requests EXCEPT ![g] = Append(@, "request")]
    /\ UNCHANGED <<serverVars, linked, logLines, memory, semaphore, pid, toSend>>
    /\ KeepForRequests(c)

Tell(c) ==
    /\ NextRequest(c, "told", toSend[c])
    /\ KeepForRequests(c)
    /\ LogTo(has[c]["log"], "client")
    /\ UNCHANGED <<serverVars, linked, memory, semaphore, requests, pid>>

\* kill(server_pid, SIGTERM): a process that is no more makes the client end;
\* process 0 stands for the client itself and all of its group.
Kill(c) ==
    LET alive == pid[c] = generation /\ server \notin Down IN
    /\ at[c] = "kill"
    /\ \/ alive /\ Move(c, "kill", "close") /\ UNCHANGED <<has, pid>>
       \/ ~alive /\ End(c)
    /\ terminated' = (terminated \/ alive)
    /\ UNCHANGED <<server, generation, threadVars, logEnded, objectVars, toSend>>

\* close_client and log_close.
Close(c) ==
    /\ at[c] = "close" /\ End(c)
    /\ LogTo(has[c]["log"], "client")
    /\ UNCHANGED <<serverVars, linked, memory, semaphore, requests, toSend>>

ClientStep(c) ==
    \/ OpenLog(c) \/ Greet(c) \/ Enter(c) \/ SemWait(c) \/ SemPost(c) \/ Map(c)
    \/ Read(c) \/ Choose(c) \/ Submit(c) \/ Tell(c)
    \/ Kill(c) \/ Close(c)

-----------------------------------------------------------------------------
Next == \/ Server \/ MainWaits \/ StartFails \/ LoggerWrites \/ Receiver
        \/ UpdaterFatal \/ Start \/ Crash
        \/ \E c \in Client : ClientStep(c)

Spec == Init /\ [][Next]_vars

\* Processes run; nobody has to start the server, kill it or interrupt it, and
\* nothing has to fail.
FairSpec == /\ Spec
            /\ WF_vars(Server) /\ WF_vars(LoggerWrites) /\ WF_vars(Receiver)
            /\ \A c \in Client : WF_vars(ClientStep(c))

-----------------------------------------------------------------------------
(***************************************************************************)
(* Properties.                                                             *)
(***************************************************************************)
\* Whatever a killed server has left in the table, the next one can create its
\* memory and its semaphore (main.c:177-178, 195, 207).
Restartable == server # "died"

\* A client that came in by the semaphore of a server and reads the memory of
\* the same server finds it complete: its SIGTERM will go to that server, and
\* never to its own group (main.c:206-208, client.c:60-70).
MemoryComplete ==
    \A c \in Client :
        (at[c] = "choose" /\ has[c]["semaphore"] = has[c]["memory"]) =>
            pid[c] = has[c]["memory"]

\* As long as the server has logged neither its end nor a fatal error somebody
\* writes the log, whatever clients come and go (log.c:70-71).
LogOutlivesClients ==
    server \in {"renew", "make memory", "write queue", "write pid",
                "make semaphore", "post", "running", "send stop", "join"}
        => exited \/ ~logEnded

\* The server of generation g has stopped, or was killed.
Over(g) == g # generation \/ server \in Down

\* What a client may wait for in vain: the semaphore of a server that was killed
\* before it let anybody in, ...
ShutOut(c) ==
    LET g == has[c]["semaphore"] IN
    /\ at[c] = "wait" /\ semaphore[g] = 0 /\ Over(g)
    /\ \A d \in Client : at[d] = "post" => has[d]["semaphore"] # g

\* ... room in the log of a server that does not write it any more, ...
Unheard(c) ==
    LET g == has[c]["log"] IN
    /\ at[c] \in {"greet", "told", "close"} /\ g # 0
    /\ Len(logLines[g]) = LogRoom
    /\ Over(g) \/ logEnded

\* ... or room in the queue of a receiver that has gone, has never been started,
\* or waits for such room itself, be its server alive or not.
Deaf == \/ receiver = "dead"
        \/ receiver = "answer" /\ logEnded /\ Len(logLines[generation]) = LogRoom

Unreceived(c) ==
    LET g == has[c]["queue"] IN
    /\ at[c] = "submit" /\ Len(requests[g]) = MqRoom
    /\ Over(g) \/ Deaf

\* A client comes to its end, or waits for a server that has gone, or that has
\* stopped, in good order or not, to listen (client.c:60-61, 151, log.c:257,
\* main.c:71, thread_updater.c:89).
ClientEnds ==
    \A c \in Client :
        at[c] # "new" ~>
            at[c] = "gone" \/ ShutOut(c) \/ Unheard(c) \/ Unreceived(c)

\* What the server itself may wait for in vain: room in its log, for main's own
\* lines, ...
LogJam == /\ server \in {"running", "report"} /\ logEnded
          /\ Len(logLines[generation]) = LogRoom

\* ... room in the queue of a receiver that has gone or was never started, ...
MailboxJam == /\ server = "send stop" /\ Len(requests[generation]) = MqRoom
              /\ receiver = "dead"

\* ... or a thread that does not end after a fatal error: the updater, or one
\* that cannot log.
HeldUp == \/ updater = "locked"
          \/ server \in {"send stop", "join"} /\ logEnded

\* A server that has been told to stop, or cannot start, comes to its end, or
\* waits in one of these ways: without a fatal error it is only the clients'
\* requests that can keep it (main.c:64-91, 302-343, log.c:257).
ServerCloses == StopFlag ~> server \in Down \/ LogJam \/ MailboxJam \/ HeldUp
=============================================================================
