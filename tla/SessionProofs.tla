---------------------------- MODULE SessionProofs ----------------------------
(***************************************************************************)
(* What the server leaves in the system's table, and what its clients find *)
(* there, for any number of clients, starts and crashes.                   *)
(***************************************************************************)
EXTENDS Session, TLAPS

Serving == {"parse", "renew", "make memory", "write queue", "write pid",
            "make semaphore", "post", "running", "send stop", "join"}

LineKind == {"client", "server", "last"}

Place == {"new", "greet", "enter", "wait", "post", "map", "read", "choose",
          "submit", "told", "kill", "close", "gone"}

SessionType ==
    /\ generation \in 0..MaxStarts
    /\ generation = 0 => server = "down"
    /\ linked \in [Name -> 0..MaxStarts]
    /\ logLines \in [Generation -> Seq(LineKind)]
    /\ memory \in [Generation -> SUBSET {"queue", "pid"}]
    /\ semaphore \in [Generation -> Int]
    /\ at \in [Client -> Place]
    /\ has \in [Client -> [Name -> 0..MaxStarts]]
    /\ pid \in [Client -> 0..MaxStarts]
    /\ logEnded \in BOOLEAN /\ exited \in BOOLEAN
    /\ \A c \in Client : at[c] \in {"wait", "post"} => has[c]["semaphore"] # 0

\* What the steps of server_ipc_setup have done so far.
SetUpSoFar ==
    /\ server # "died"
    /\ server = "make memory" => linked["memory"] = 0
    /\ server \in {"make memory", "write queue", "write pid", "make semaphore"} =>
          linked["semaphore"] = 0

\* The memory of generation g has all its fields.
Complete(g) == g # 0 /\ memory[g] = {"queue", "pid"}

\* Whoever has got past the semaphore of a generation, or may get past it.
BehindTheDoor ==
    /\ server = "write pid" => "queue" \in memory[generation]
    /\ server \in {"make semaphore", "post"} => Complete(generation)
    /\ \A g \in Generation : semaphore[g] > 0 => Complete(g)
    /\ \A c \in Client : at[c] \in {"post", "map", "read", "choose"} =>
          Complete(has[c]["semaphore"])

\* No line in the log queue of generation g ends the log.
GoesOn(g) == \A i \in DOMAIN logLines[g] : logLines[g][i] # "last"

LogKept ==
    /\ server = "down" => ~logEnded /\ ~exited
    /\ server \in Serving /\ ~exited => ~logEnded /\ GoesOn(generation)
    /\ \A g \in Generation : g > generation => GoesOn(g)

SessionInv == /\ SessionType /\ SetUpSoFar /\ BehindTheDoor /\ LogKept
              /\ MemoryComplete

USE SessionAssumption

-----------------------------------------------------------------------------
(***************************************************************************)
(* How single variables change.                                            *)
(***************************************************************************)
LEMMA Names ==
    /\ "log" \in Name /\ "queue" \in Name /\ "memory" \in Name
    /\ "semaphore" \in Name /\ 0 \in 0..MaxStarts
BY DEF Name

LEMMA Generations ==
    /\ \A g \in 0..MaxStarts : g # 0 => g \in Generation
    /\ \A g \in Generation : g \in 0..MaxStarts /\ g # 0
    /\ \A g \in Generation, h \in 0..MaxStarts : g > h => g # h
BY DEF Generation

LEMMA Relinked ==
    ASSUME NEW f \in [Name -> 0..MaxStarts], NEW n \in Name, NEW v \in 0..MaxStarts
    PROVE  [f EXCEPT ![n] = v] \in [Name -> 0..MaxStarts]
OBVIOUS

LEMMA Opened ==
    ASSUME NEW c \in Client, NEW n \in Name, Open(c, n),
           linked \in [Name -> 0..MaxStarts],
           has \in [Client -> [Name -> 0..MaxStarts]]
    PROVE  has' \in [Client -> [Name -> 0..MaxStarts]]
BY DEF Open

LEMMA Kept ==
    ASSUME NEW c \in Client, NEW names, Keep(c, names),
           has \in [Client -> [Name -> 0..MaxStarts]]
    PROVE  has' \in [Client -> [Name -> 0..MaxStarts]]
<1>1. [n \in Name |-> IF n \in names THEN has[c][n] ELSE 0] \in [Name -> 0..MaxStarts]
  BY Names
<1>. QED
  BY <1>1 DEF Keep

LEMMA Ended ==
    ASSUME SessionType, NEW c \in Client, End(c)
    PROVE  /\ has' \in [Client -> [Name -> 0..MaxStarts]]
           /\ at' \in [Client -> Place] /\ pid' \in [Client -> 0..MaxStarts]
           /\ at'[c] = "gone"
           /\ \A d \in Client \ {c} : /\ at'[d] = at[d] /\ pid'[d] = pid[d]
                                      /\ has'[d] = has[d]
<1>1. Nowhere \in [Name -> 0..MaxStarts]
  BY DEF Nowhere
<1>. QED
  BY <1>1 DEF End, SessionType, Place

\* A line is the last of one log queue at most.
LEMMA Logged ==
    ASSUME SessionType, NEW g \in 0..MaxStarts, NEW l \in LineKind,
           LogTo(g, l)
    PROVE  /\ logLines' \in [Generation -> Seq(LineKind)]
           /\ \A h \in Generation :
                 GoesOn(h) /\ (h = g => l # "last") => GoesOn(h)'
<1>1. CASE g = 0
  BY <1>1 DEF LogTo, SessionType, GoesOn
<1>2. CASE g # 0
  <2>1. g \in Generation
    BY <1>2 DEF Generation
  <2>2. logLines' = [logLines EXCEPT ![g] = Append(@, l)]
    BY <1>2 DEF LogTo
  <2>3. logLines[g] \in Seq(LineKind)
    BY <2>1 DEF SessionType
  <2>4. /\ logLines'[g] = Append(logLines[g], l)
        /\ logLines'[g] \in Seq(LineKind)
        /\ \A h \in Generation \ {g} : logLines'[h] = logLines[h]
    BY <2>1, <2>2, <2>3 DEF SessionType
  <2>5. logLines' \in [Generation -> Seq(LineKind)]
    BY <2>2, <2>4 DEF SessionType
  <2>6. GoesOn(g) /\ l # "last" => GoesOn(g)'
    BY <2>3, <2>4 DEF GoesOn
  <2>. QED
    BY <2>4, <2>5, <2>6 DEF GoesOn
<1>. QED
  BY <1>1, <1>2

LEMMA Tails ==
    ASSUME NEW L, NEW s \in Seq(L), s # <<>>
    PROVE  /\ Head(s) = s[1] /\ 1 \in DOMAIN s
           /\ \A i \in DOMAIN Tail(s) : i + 1 \in DOMAIN s /\ Tail(s)[i] = s[i + 1]
OBVIOUS

\* Clients leave the server, the table and the memory alone, and the server
\* leaves the clients alone.
LEMMA ClientFrame ==
    ASSUME NEW c \in Client, ClientStep(c)
    PROVE  UNCHANGED <<server, generation, exited, logEnded, linked, memory>>
BY DEF ClientStep, OpenLog, Greet, Enter, SemWait, SemPost, Map, Read, Choose,
       Submit, Tell, Kill, Close, serverVars, objectVars, threadVars

\* What main and its threads do from their start to their end.
Threads == \/ StartFails \/ Receive \/ Answer \/ UpdaterFatal
           \/ Sigwait \/ SendStop \/ Join

ServerSide == \/ Start \/ Parse \/ Renew \/ MakeMemory \/ WriteQueue \/ WritePid
              \/ MakeSemaphore \/ PostSemaphore \/ Threads \/ LoggerWrites
              \/ Report \/ EndLog \/ CleanUp \/ Crash

LEMMA Sides == Next <=> ServerSide \/ \E c \in Client : ClientStep(c)
BY DEF Next, Server, MainWaits, Receiver, ServerSide, Threads

LEMMA ThreadFrame ==
    ASSUME Threads
    PROVE  /\ UNCHANGED <<generation, logEnded, linked, memory, semaphore, clientVars>>
           /\ server' = server \/ server' \in {"send stop", "join", "report"}
<1>. USE DEF Step, serverVars, objectVars
<1>1. CASE StartFails
  BY <1>1 DEF StartFails
<1>2. CASE Receive \/ Answer \/ UpdaterFatal
  BY <1>2 DEF Receive, Answer, UpdaterFatal
<1>3. CASE Sigwait \/ SendStop \/ Join
  BY <1>3 DEF Sigwait, SendStop, Join
<1>. QED
  BY <1>1, <1>2, <1>3 DEF Threads

LEMMA ServerFrame ==
    ASSUME ServerSide
    PROVE  UNCHANGED clientVars
BY ThreadFrame DEF ServerSide, Parse, Renew, MakeMemory, WriteQueue, WritePid, Write,
       MakeSemaphore, PostSemaphore, Report, EndLog, CleanUp, LoggerWrites, Start,
       Crash

-----------------------------------------------------------------------------
(***************************************************************************)
(* Types.                                                                  *)
(***************************************************************************)
LEMMA ServerTypes ==
    ASSUME SessionType, ServerSide
    PROVE  SessionType'
<1>. USE DEF SessionType, Step, serverVars, threadVars, objectVars, clientVars
<1>1. /\ generation' \in 0..MaxStarts /\ (generation' = 0 => server' = "down")
      /\ logEnded' \in BOOLEAN
  <2>1. CASE Start
    BY <2>1 DEF Start
  <2>2. CASE LoggerWrites
    BY <2>2 DEF LoggerWrites, EndsTheLog
  <2>3. CASE CleanUp \/ Crash
    BY <2>3 DEF CleanUp, Crash
  <2>4. CASE Threads
    <3>1. generation = 0 => ~Threads
      BY DEF Threads, StartFails, Receive, Answer, UpdaterFatal,
         Sigwait, SendStop, Join, Down
    <3>. QED
      BY <2>4, <3>1, ThreadFrame
  <2>5. CASE Parse \/ Renew \/ MakeMemory \/ WriteQueue \/ WritePid \/ MakeSemaphore
             \/ PostSemaphore \/ Report \/ EndLog
    BY <2>5 DEF Parse, Renew, MakeMemory, WriteQueue, WritePid, Write,
       MakeSemaphore, PostSemaphore, Report, EndLog
  <2>. QED
    BY <2>1, <2>2, <2>3, <2>4, <2>5 DEF ServerSide
<1>6. exited' \in BOOLEAN
  <2>1. CASE Threads
    BY <2>1 DEF Threads, StartFails, Receive, Answer, UpdaterFatal,
       Sigwait, SendStop, Join
  <2>2. CASE CleanUp \/ Crash
    BY <2>2 DEF CleanUp, Crash, ThreadsGone
  <2>3. CASE UNCHANGED exited
    BY <2>3
  <2>. QED
    BY <2>1, <2>2, <2>3 DEF ServerSide, Parse, Renew, MakeMemory, WriteQueue,
       WritePid, Write, MakeSemaphore, PostSemaphore, Report, EndLog, LoggerWrites,
       Start
<1>2. linked' \in [Name -> 0..MaxStarts]
  <2>1. CASE Renew
    <3>. DEFINE l1 == [linked EXCEPT !["memory"] = 0]
                l2 == [l1 EXCEPT !["semaphore"] = 0]
    <3>1. l1 \in [Name -> 0..MaxStarts]
      BY Names
    <3>2. l2 \in [Name -> 0..MaxStarts]
      BY <3>1, Names
    <3>3. linked' = [l2 EXCEPT !["queue"] = generation]
      BY <2>1 DEF Renew
    <3>. QED
      BY <3>2, <3>3, Names
  <2>2. CASE Start \/ MakeMemory \/ MakeSemaphore \/ EndLog
    <3>1. PICK n \in Name, g \in 0..MaxStarts : linked' = [linked EXCEPT ![n] = g]
      <4>1. linked["memory"] \in 0..MaxStarts /\ linked["semaphore"] \in 0..MaxStarts
        BY Names
      <4>2. CASE Start
        BY <4>2, <1>1, Names DEF Start
      <4>3. CASE EndLog
        <5>1. linked' = [linked EXCEPT !["log"] = 0]
          BY <4>3 DEF EndLog
        <5>. QED
          BY <5>1, Names
      <4>4. CASE MakeMemory
        BY <4>4, <4>1, Names DEF MakeMemory
      <4>5. CASE MakeSemaphore
        BY <4>5, <4>1, Names DEF MakeSemaphore
      <4>. QED
        BY <2>2, <4>2, <4>3, <4>4, <4>5
    <3>. QED
      BY <3>1, Relinked
  <2>4. CASE CleanUp
    BY <2>4, Names DEF CleanUp, Nowhere
  <2>3. CASE UNCHANGED linked
    BY <2>3
  <2>. QED
    BY <2>1, <2>2, <2>3, <2>4, ThreadFrame DEF ServerSide, Parse, WriteQueue,
       WritePid, Write, PostSemaphore, Report, LoggerWrites, Crash
<1>3. logLines' \in [Generation -> Seq(LineKind)]
  <2>1. CASE LogTo(generation, "last") \/ LogTo(generation, "server")
    BY <2>1, Logged DEF LineKind
  <2>2. CASE LoggerWrites
    <3>1. generation \in Generation
      BY <2>2 DEF LoggerWrites, Generation, Down
    <3>2. Tail(logLines[generation]) \in Seq(LineKind)
      BY <2>2, <3>1 DEF LoggerWrites
    <3>. QED
      BY <2>2, <3>2 DEF LoggerWrites
  <2>3. CASE UNCHANGED logLines
    BY <2>3
  <2>. QED
    <3>1. CASE Threads
      BY <3>1, <2>1, <2>3 DEF Threads, StartFails, Receive, Answer,
         UpdaterFatal, Sigwait, SendStop, Join
    <3>. QED
      BY <3>1, <2>1, <2>2, <2>3 DEF ServerSide, Parse, Renew, MakeMemory,
         WriteQueue, WritePid, Write, MakeSemaphore, PostSemaphore, Report, EndLog,
         CleanUp, Start, Crash
<1>4. memory' \in [Generation -> SUBSET {"queue", "pid"}]
  <2>1. CASE WriteQueue \/ WritePid
    <3>1. PICK field \in {"queue", "pid"} :
             memory' = [memory EXCEPT ![generation] = @ \cup {field}]
      BY <2>1 DEF WriteQueue, WritePid, Write
    <3>2. generation # 0
      BY <2>1 DEF WriteQueue, WritePid
    <3>3. memory[generation] \cup {field} \in SUBSET {"queue", "pid"}
      BY <3>2 DEF Generation
    <3>. QED
      BY <3>1, <3>3
  <2>2. CASE UNCHANGED memory
    BY <2>2
  <2>. QED
    BY <2>1, <2>2, ThreadFrame DEF ServerSide, Parse, Renew, MakeMemory,
       MakeSemaphore, PostSemaphore, Report, EndLog, CleanUp, LoggerWrites, Start,
       Crash
<1>5. semaphore' \in [Generation -> Int]
  <2>1. CASE PostSemaphore
    BY <2>1 DEF PostSemaphore, Generation
  <2>2. CASE UNCHANGED semaphore
    BY <2>2
  <2>. QED
    BY <2>1, <2>2, ThreadFrame DEF ServerSide, Parse, Renew, MakeMemory, WriteQueue,
       WritePid, Write, MakeSemaphore, Report, EndLog, CleanUp, LoggerWrites, Start,
       Crash
<1>. QED
  BY <1>1, <1>2, <1>3, <1>4, <1>5, <1>6, ServerFrame

LEMMA ClientTypes ==
    ASSUME SessionType, NEW c \in Client, ClientStep(c)
    PROVE  SessionType'
<1>. USE DEF SessionType, Move, serverVars, objectVars, clientVars
<1>1. /\ generation' \in 0..MaxStarts /\ (generation' = 0 => server' = "down")
      /\ logEnded' \in BOOLEAN /\ exited' \in BOOLEAN /\ linked' \in [Name -> 0..MaxStarts]
      /\ memory' \in [Generation -> SUBSET {"queue", "pid"}]
  BY ClientFrame
<1>2. linked["semaphore"] \in 0..MaxStarts /\ has[c] \in [Name -> 0..MaxStarts]
      /\ has[c]["log"] \in 0..MaxStarts
  BY Names
<1>3. logLines' \in [Generation -> Seq(LineKind)]
  <2>1. CASE Greet(c) \/ Tell(c) \/ Close(c)
    BY <2>1, <1>2, Logged DEF Greet, Tell, Close, LineKind
  <2>2. CASE UNCHANGED logLines
    BY <2>2
  <2>. QED
    BY <2>1, <2>2 DEF ClientStep, OpenLog, Enter, SemWait, SemPost, Map, Read,
       Choose, Submit, Kill
<1>4. semaphore' \in [Generation -> Int]
  <2>1. CASE SemWait(c) \/ SemPost(c)
    <3>. DEFINE g == has[c]["semaphore"]
    <3>1. g \in 0..MaxStarts /\ g # 0
      BY <2>1, <1>2, Names DEF SemWait, SemPost
    <3>2. g \in Generation
      BY <3>1 DEF Generation
    <3>3. semaphore' = [semaphore EXCEPT ![g] = semaphore[g] - 1]
          \/ semaphore' = [semaphore EXCEPT ![g] = semaphore[g] + 1]
      BY <2>1 DEF SemWait, SemPost
    <3>. QED
      BY <3>2, <3>3
  <2>2. CASE UNCHANGED semaphore
    BY <2>2
  <2>. QED
    BY <2>1, <2>2 DEF ClientStep, OpenLog, Greet, Enter, Map, Read, Choose,
       Submit, Tell, Kill, Close
<1>5. at' \in [Client -> Place]
  <2>1. CASE End(c)
    BY <2>1, Ended
  <2>2. CASE ~End(c)
    <3>1. PICK place \in Place : at' = [at EXCEPT ![c] = place]
      BY <2>2 DEF ClientStep, OpenLog, Greet, Enter, SemWait, SemPost, Map, Read,
         Choose, NextRequest, Submit, Tell, Kill, Close, Place
    <3>. QED
      BY <3>1
  <2>. QED
    BY <2>1, <2>2
<1>6. pid' \in [Client -> 0..MaxStarts]
  <2>1. CASE End(c)
    BY <2>1, Ended
  <2>2. CASE Read(c) /\ ~End(c)
    <3>1. has[c]["memory"] \in 0..MaxStarts
      BY Names
    <3>. QED
      BY <2>2, <3>1, Names DEF Read
  <2>3. CASE UNCHANGED pid
    BY <2>3
  <2>. QED
    BY <2>1, <2>2, <2>3 DEF ClientStep, OpenLog, Greet, Enter, SemWait, SemPost, Map,
       Choose, Submit, Tell, Kill, Close
<1>7. has' \in [Client -> [Name -> 0..MaxStarts]]
  <2>1. CASE End(c)
    BY <2>1, Ended
  <2>2. CASE \E n \in Name : Open(c, n)
    BY <2>2, Opened
  <2>3. CASE \E names : Keep(c, names)
    BY <2>3, Kept
  <2>4. CASE UNCHANGED has
    BY <2>4
  <2>. QED
    BY <2>1, <2>2, <2>3, <2>4, Names DEF ClientStep, OpenLog, Greet, Enter, SemWait,
       SemPost, Map, Read, Choose, Submit, Tell, KeepForRequests, Kill, Close
<1>8. ASSUME NEW d \in Client, at'[d] \in {"wait", "post"}
      PROVE  has'[d]["semaphore"] # 0
  <2>1. CASE End(c)
    BY <2>1, <1>8, Ended
  <2>2. CASE Enter(c) /\ ~End(c)
    <3>1. /\ at' = [at EXCEPT ![c] = "wait"] /\ linked["semaphore"] # 0
          /\ has' = [has EXCEPT ![c]["semaphore"] = linked["semaphore"]]
      BY <2>2 DEF Enter, Open
    <3>2. CASE d = c
      BY <3>1, <3>2, Names
    <3>3. CASE d # c
      BY <3>1, <3>3, <1>8
    <3>. QED
      BY <3>2, <3>3
  <2>3. CASE SemWait(c)
    BY <2>3, <1>8 DEF SemWait
  <2>4. CASE Choose(c) \/ Submit(c) \/ Tell(c)
    <3>1. d # c
      BY <2>4, <1>8 DEF Choose, Submit, Tell, NextRequest
    <3>. QED
      BY <2>4, <3>1, <1>8 DEF Choose, Submit, Tell, NextRequest, KeepForRequests, Keep
  <2>5. CASE /\ ~End(c) /\ ~Enter(c) /\ ~SemWait(c)
             /\ ~Choose(c) /\ ~Submit(c) /\ ~Tell(c)
    <3>1. at[d] = at'[d]
      BY <2>5, <1>8 DEF ClientStep, OpenLog, Greet, SemPost, Map, Read, Kill, Close
    <3>2. has'[d]["semaphore"] = has[d]["semaphore"]
      BY <2>5, <1>8, <3>1, Names DEF ClientStep, OpenLog, Greet, SemPost, Map, Read,
         Kill, Close, Open
    <3>. QED
      BY <3>1, <3>2, <1>8
  <2>. QED
    BY <2>1, <2>2, <2>3, <2>4, <2>5
<1>. QED
  BY <1>1, <1>3, <1>4, <1>5, <1>6, <1>7, <1>8

-----------------------------------------------------------------------------
(***************************************************************************)
(* The table.                                                              *)
(***************************************************************************)
LEMMA SetUpKeeps ==
    ASSUME SessionType, SetUpSoFar, [Next]_vars
    PROVE  SetUpSoFar'
<1>. USE DEF SetUpSoFar, Step
<1>1. CASE ServerSide
  <2>1. CASE Renew
    BY <2>1, Names DEF Renew, SessionType
  <2>2. CASE MakeMemory
    BY <2>2, Names DEF MakeMemory, SessionType
  <2>3. CASE MakeSemaphore
    BY <2>3 DEF MakeSemaphore
  <2>4. CASE WriteQueue \/ WritePid
    BY <2>4 DEF WriteQueue, WritePid, Write
  <2>5. CASE LoggerWrites \/ Threads
    BY <2>5, ThreadFrame DEF LoggerWrites
  <2>. QED
    BY <1>1, <2>1, <2>2, <2>3, <2>4, <2>5 DEF ServerSide, Parse, PostSemaphore,
       Report, EndLog, CleanUp, Start, Crash
<1>2. ASSUME NEW c \in Client, ClientStep(c) PROVE SetUpSoFar'
  BY <1>2, ClientFrame
<1>3. CASE UNCHANGED vars
  BY <1>3 DEF vars, serverVars, objectVars
<1>. QED
  BY <1>1, <1>2, <1>3, Sides

-----------------------------------------------------------------------------
(***************************************************************************)
(* The memory.                                                             *)
(***************************************************************************)
LEMMA ServerBehindTheDoor ==
    ASSUME SessionType, BehindTheDoor, ServerSide
    PROVE  BehindTheDoor'
<1>. USE DEF BehindTheDoor, Step
<1>1. UNCHANGED <<at, has>>
  BY ServerFrame DEF clientVars
<1>2. CASE WriteQueue \/ WritePid
  <2>1. PICK field \in {"queue", "pid"} :
           /\ memory' = [memory EXCEPT ![generation] = @ \cup {field}]
           /\ server = "write queue" => field = "queue" /\ server' = "write pid"
           /\ server = "write pid" => field = "pid" /\ server' = "make semaphore"
           /\ server \in {"write queue", "write pid"}
           /\ UNCHANGED <<generation, semaphore>>
    BY <1>2 DEF WriteQueue, WritePid, Write
  <2>2. generation \in Generation
    <3>1. generation # 0
      BY <2>1 DEF SessionType
    <3>. QED
      BY <3>1, Generations DEF SessionType
  <2>3. /\ memory[generation] \in SUBSET {"queue", "pid"}
        /\ memory'[generation] = memory[generation] \cup {field}
        /\ \A g \in Generation : g # generation => memory'[g] = memory[g]
    BY <2>1, <2>2 DEF SessionType
  <2>4. ASSUME NEW g \in 0..MaxStarts, Complete(g) PROVE Complete(g)'
    <3>1. g \in Generation /\ memory[g] = {"queue", "pid"}
      BY <2>4, Generations DEF Complete
    <3>2. memory'[g] = {"queue", "pid"}
      BY <2>1, <2>3, <3>1
    <3>. QED
      BY <3>1, <3>2, Generations DEF Complete
  <2>5. \A c \in Client : has[c]["semaphore"] \in 0..MaxStarts
    BY Names DEF SessionType
  <2>6. server' = "make semaphore" => Complete(generation)'
    <3>1. server' = "make semaphore" => memory'[generation] = {"queue", "pid"}
      BY <2>1, <2>3
    <3>. QED
      BY <2>1, <2>2, <3>1, Generations DEF Complete
  <2>7. server' = "write pid" => "queue" \in memory'[generation]
    BY <2>1, <2>3
  <2>. QED
    BY <1>1, <2>1, <2>4, <2>5, <2>6, <2>7, Generations
<1>3. CASE PostSemaphore
  BY <1>1, <1>3 DEF PostSemaphore, Complete, SessionType
<1>4. CASE Start
  BY <1>1, <1>4 DEF Start, Complete
<1>5. CASE LoggerWrites \/ Threads
  BY <1>1, <1>5, ThreadFrame DEF LoggerWrites, Complete
<1>6. CASE Parse \/ Renew \/ MakeMemory \/ MakeSemaphore
  BY <1>1, <1>6 DEF Parse, Renew, MakeMemory, MakeSemaphore, Complete
<1>7. CASE Report \/ EndLog \/ CleanUp \/ Crash
  BY <1>1, <1>7 DEF Report, EndLog, CleanUp, Crash, Complete, objectVars
<1>. QED
  BY <1>2, <1>3, <1>4, <1>5, <1>6, <1>7 DEF ServerSide

LEMMA ClientBehindTheDoor ==
    ASSUME SessionType, BehindTheDoor, NEW c \in Client, ClientStep(c)
    PROVE  BehindTheDoor'
<1>. USE DEF SessionType, Move
<1>1. UNCHANGED <<server, generation, memory>>
  BY ClientFrame
<1>2. \A g : Complete(g)' <=> Complete(g)
  BY <1>1 DEF Complete
<1>3. ASSUME NEW g \in Generation, semaphore'[g] > 0 PROVE Complete(g)
  <2>1. CASE SemWait(c)
    BY <2>1, <1>3 DEF SemWait, BehindTheDoor
  <2>2. CASE SemPost(c)
    BY <2>2, <1>3 DEF SemPost, BehindTheDoor
  <2>3. CASE UNCHANGED semaphore
    BY <2>3, <1>3 DEF BehindTheDoor
  <2>. QED
    BY <2>1, <2>2, <2>3 DEF ClientStep, OpenLog, Greet, Enter, Map, Read, Choose,
       Submit, Tell, Kill, Close, objectVars
<1>4. ASSUME NEW d \in Client, at'[d] \in {"post", "map", "read", "choose"}
      PROVE  Complete(has'[d]["semaphore"])
  <2>1. CASE End(c)
    BY <2>1, <1>4, Ended DEF BehindTheDoor
  <2>2. CASE SemWait(c)
    <3>. DEFINE g == has[c]["semaphore"]
    <3>1. g \in Generation /\ semaphore[g] > 0 /\ UNCHANGED has
      <4>1. g \in 0..MaxStarts /\ g # 0
        BY <2>2, Names DEF SemWait
      <4>. QED
        BY <2>2, <4>1 DEF SemWait, Generation
    <3>2. Complete(g)
      BY <3>1 DEF BehindTheDoor
    <3>. QED
      BY <2>2, <3>1, <3>2, <1>4 DEF SemWait, BehindTheDoor
  <2>3. CASE ~End(c) /\ ~SemWait(c)
    <3>1. at[d] \in {"post", "map", "read", "choose"}
      BY <2>3, <1>4 DEF ClientStep, OpenLog, Greet, Enter, SemPost, Map, Read,
         Choose, NextRequest, Submit, Tell, Kill, Close
    <3>2. has'[d]["semaphore"] = has[d]["semaphore"]
      <4>1. CASE OpenLog(c) \/ Map(c) \/ Read(c)
        <5>1. Open(c, "log") \/ Open(c, "memory") \/ Open(c, "queue")
          BY <4>1, <2>3 DEF OpenLog, Map, Read
        <5>2. \A n \in Name : Open(c, n) /\ n # "semaphore" =>
                 has'[d]["semaphore"] = has[d]["semaphore"]
          BY Names DEF Open
        <5>. QED
          BY <5>1, <5>2, Names
      <4>2. CASE Enter(c) \/ Choose(c) \/ Submit(c) \/ Tell(c)
        <5>1. d # c
          BY <4>2, <2>3, <3>1, <1>4 DEF Enter, Choose, Submit, Tell, NextRequest
        <5>2. has'[d] = has[d]
          BY <4>2, <2>3, <5>1 DEF Enter, Choose, Submit, Tell, KeepForRequests, Keep,
             Open
        <5>. QED
          BY <5>2
      <4>3. CASE UNCHANGED has
        BY <4>3
      <4>. QED
        BY <2>3, <4>1, <4>2, <4>3 DEF ClientStep, Greet, SemPost, Kill, Close
    <3>. QED
      BY <3>1, <3>2 DEF BehindTheDoor
  <2>. QED
    BY <2>1, <2>2, <2>3
<1>. QED
  BY <1>1, <1>2, <1>3, <1>4 DEF BehindTheDoor

LEMMA MemoryKeeps ==
    ASSUME SessionType, BehindTheDoor, MemoryComplete, [Next]_vars
    PROVE  MemoryComplete'
<1>1. CASE ServerSide \/ UNCHANGED vars
  BY <1>1, ServerFrame DEF MemoryComplete, vars, clientVars
<1>2. ASSUME NEW c \in Client, ClientStep(c), NEW d \in Client,
             at'[d] = "choose", has'[d]["semaphore"] = has'[d]["memory"]
      PROVE  pid'[d] = has'[d]["memory"]
  <2>. USE DEF SessionType, Move
  <2>1. CASE End(c)
    BY <2>1, <1>2, Ended DEF MemoryComplete
  <2>2. CASE Read(c) /\ ~End(c)
    <3>. DEFINE g == has[c]["memory"]
    <3>1. /\ at[c] = "read"
          /\ at' = [at EXCEPT ![c] = "choose"]
          /\ has' = [has EXCEPT ![c]["queue"] = linked["queue"]]
          /\ pid' = [pid EXCEPT ![c] = IF "pid" \in memory[g] THEN g ELSE 0]
      BY <2>2 DEF Read, Open
    <3>2. CASE d # c
      BY <3>1, <3>2, <1>2 DEF MemoryComplete
    <3>3. CASE d = c
      <4>1. has'[d]["semaphore"] = has[c]["semaphore"] /\ has'[d]["memory"] = g
        BY <3>1, <3>3, Names
      <4>2. Complete(g)
        BY <4>1, <3>1, <1>2 DEF BehindTheDoor
      <4>. QED
        BY <3>1, <3>3, <4>1, <4>2 DEF Complete
    <3>. QED
      BY <3>2, <3>3
  <2>3. CASE ~End(c) /\ ~Read(c)
    <3>1. at[d] = "choose" /\ has'[d] = has[d] /\ pid'[d] = pid[d]
      BY <2>3, <1>2 DEF ClientStep, OpenLog, Greet, Enter, SemWait, SemPost, Map,
         Choose, NextRequest, Submit, Tell, KeepForRequests, Keep, Kill, Close, Open
    <3>. QED
      BY <3>1, <1>2 DEF MemoryComplete
  <2>. QED
    BY <2>1, <2>2, <2>3
<1>. QED
  BY <1>1, <1>2, Sides DEF MemoryComplete

-----------------------------------------------------------------------------
(***************************************************************************)
(* The log.                                                                *)
(***************************************************************************)
LEMMA ClientLogKept ==
    ASSUME SessionType, LogKept, NEW c \in Client, ClientStep(c)
    PROVE  LogKept'
<1>1. UNCHANGED <<server, generation, exited, logEnded>>
  BY ClientFrame
<1>2. \A g \in Generation : GoesOn(g) => GoesOn(g)'
  <2>1. has[c]["log"] \in 0..MaxStarts
    BY Names DEF SessionType
  <2>2. CASE Greet(c) \/ Tell(c) \/ Close(c)
    BY <2>1, <2>2, Logged DEF Greet, Tell, Close, LineKind
  <2>3. CASE UNCHANGED logLines
    BY <2>3 DEF GoesOn
  <2>. QED
    BY <2>2, <2>3 DEF ClientStep, OpenLog, Enter, SemWait, SemPost, Map, Read,
       Choose, Submit, Kill, objectVars
<1>3. server \in Serving => generation \in Generation
  <2>1. server \in Serving => generation # 0
    BY DEF SessionType, Serving
  <2>. QED
    BY <2>1 DEF SessionType, Generation
<1>. QED
  BY <1>1, <1>2, <1>3 DEF LogKept

LEMMA ServerLogKept ==
    ASSUME SessionType, SetUpSoFar, LogKept, ServerSide
    PROVE  LogKept'
<1>. USE DEF LogKept, Step, Serving, threadVars
<1>1. CASE /\ LogTo(generation, "last") /\ UNCHANGED <<generation, logEnded>>
           /\ exited' \/ server' \in Closing
           /\ server' # "down"
  <2>1. generation \in 0..MaxStarts
    BY DEF SessionType
  <2>2. \A g \in Generation : g # generation /\ GoesOn(g) => GoesOn(g)'
    BY <1>1, <2>1, Logged DEF LineKind
  <2>3. \A g \in Generation : g > generation => g # generation
    BY <2>1, Generations
  <2>. QED
    BY <1>1, <2>2, <2>3 DEF Closing
<1>2. CASE LoggerWrites
  <2>1. generation # 0 /\ generation \in 0..MaxStarts
    BY <1>2 DEF LoggerWrites, Down, SessionType
  <2>2. generation \in Generation
    BY <2>1, Generations
  <2>3. /\ logLines[generation] \in Seq(LineKind)
        /\ logLines[generation] # <<>>
        /\ logLines'[generation] = Tail(logLines[generation])
        /\ \A g \in Generation : g # generation => logLines'[g] = logLines[g]
        /\ logEnded' = (Head(logLines[generation]) = "last")
        /\ UNCHANGED <<server, generation, exited>>
    BY <1>2, <2>2 DEF LoggerWrites, EndsTheLog, SessionType
  <2>4. GoesOn(generation) => GoesOn(generation)' /\ ~logEnded'
    <3>. DEFINE s == logLines[generation]
    <3>1. Head(s) = s[1] /\ 1 \in DOMAIN s
      BY <2>3, Tails
    <3>2. \A i \in DOMAIN Tail(s) : i + 1 \in DOMAIN s /\ Tail(s)[i] = s[i + 1]
      BY <2>3, Tails
    <3>3. GoesOn(generation) => ~logEnded'
      BY <2>3, <3>1 DEF GoesOn
    <3>4. GoesOn(generation) => GoesOn(generation)'
      <4>1. generation' = generation /\ logLines'[generation] = Tail(s)
        BY <2>3
      <4>. QED
        BY <3>2, <4>1 DEF GoesOn
    <3>. QED
      BY <3>3, <3>4
  <2>5. server # "down"
    BY <1>2 DEF LoggerWrites, Down
  <2>. QED
    BY <2>1, <2>3, <2>4, <2>5 DEF GoesOn, Generation
<1>3. CASE Start
  <2>1. generation' \in Generation /\ generation' > generation
    BY <1>3 DEF Start, SessionType, Generation
  <2>. QED
    BY <1>3, <2>1 DEF Start, GoesOn, SessionType, Generation
<1>4. CASE CleanUp \/ Crash
  BY <1>4 DEF CleanUp, Crash, ThreadsGone, GoesOn, objectVars
<1>5. CASE /\ UNCHANGED <<generation, exited, logEnded, logLines>>
           /\ server' # "down" /\ (server' \in Serving => server \in Serving)
  BY <1>5 DEF GoesOn
<1>6. CASE /\ LogTo(generation, "server") /\ UNCHANGED <<generation, exited, logEnded>>
           /\ server' = server \/ (server \in Serving /\ server' # "down")
  <2>1. generation \in 0..MaxStarts
    BY DEF SessionType
  <2>2. \A g \in Generation : GoesOn(g) => GoesOn(g)'
    BY <1>6, <2>1, Logged DEF LineKind
  <2>3. server \in Serving => generation \in Generation
    BY <2>1, Generations DEF SessionType
  <2>. QED
    BY <1>6, <2>2, <2>3
<1>7. CASE Parse
  BY <1>7, <1>1, <1>5 DEF Parse, Closing
<1>8. CASE Renew \/ MakeMemory \/ WriteQueue \/ WritePid \/ MakeSemaphore
           \/ PostSemaphore
  BY <1>8, <1>5 DEF Renew, MakeMemory, WriteQueue, WritePid, Write, MakeSemaphore,
     PostSemaphore
<1>9. CASE Receive \/ SendStop \/ Join
  <2>1. server' = server \/ (server' # "down" /\ server \in Serving)
    BY <1>9 DEF Receive, SendStop, Join
  <2>2. UNCHANGED <<generation, exited, logEnded, logLines>>
    BY <1>9 DEF Receive, SendStop, Join, objectVars
  <2>3. server # "down"
    BY <1>9 DEF Receive, SendStop, Join, Down
  <2>. QED
    BY <2>1, <2>2, <2>3, <1>5
<1>10. CASE Answer \/ Sigwait
  BY <1>10, <1>6 DEF Answer, Sigwait
<1>11. CASE StartFails \/ UpdaterFatal
  BY <1>11, <1>1 DEF StartFails, UpdaterFatal
<1>12. CASE Report
  BY <1>12, <1>1 DEF Report, Closing
<1>13. CASE EndLog
  BY <1>13, <1>5 DEF EndLog
<1>. QED
  BY <1>2, <1>3, <1>4, <1>7, <1>8, <1>9, <1>10, <1>11, <1>12, <1>13
  DEF ServerSide, Threads

-----------------------------------------------------------------------------
(***************************************************************************)
(* The theorems.                                                           *)
(***************************************************************************)
\* The invariant holds all the time.
LEMMA SessionInductive == Spec => []SessionInv
<1>1. Init => SessionInv
  <2>. SUFFICES ASSUME Init PROVE SessionInv
    OBVIOUS
  <2>1. SessionType
    <3>1. <<>> \in Seq(LineKind)
      OBVIOUS
    <3>2. Nowhere \in [Name -> 0..MaxStarts]
      BY Names DEF Nowhere
    <3>3. /\ generation = 0 /\ server = "down" /\ logEnded = FALSE /\ exited = FALSE
          /\ linked \in [Name -> 0..MaxStarts]
          /\ logLines \in [Generation -> Seq(LineKind)]
          /\ has \in [Client -> [Name -> 0..MaxStarts]]
      BY <3>1, <3>2 DEF Init
    <3>4. /\ memory \in [Generation -> SUBSET {"queue", "pid"}]
          /\ semaphore \in [Generation -> Int]
          /\ at \in [Client -> Place] /\ pid \in [Client -> 0..MaxStarts]
          /\ \A c \in Client : at[c] = "new"
      BY Names DEF Init, Place
    <3>. QED
      BY <3>3, <3>4, Names DEF SessionType
  <2>2. SetUpSoFar /\ BehindTheDoor /\ MemoryComplete
    BY DEF Init, SetUpSoFar, BehindTheDoor, MemoryComplete
  <2>3. LogKept
    BY DEF Init, LogKept, GoesOn, Serving
  <2>. QED
    BY <2>1, <2>2, <2>3 DEF SessionInv
<1>2. SessionInv /\ [Next]_vars => SessionInv'
  <2>. SUFFICES ASSUME SessionInv, [Next]_vars PROVE SessionInv'
    OBVIOUS
  <2>. USE DEF SessionInv
  <2>1. CASE UNCHANGED vars
    BY <2>1 DEF vars, serverVars, threadVars, objectVars, clientVars, SessionType,
       SetUpSoFar, BehindTheDoor, Complete, LogKept, GoesOn, MemoryComplete
  <2>2. CASE ServerSide
    BY <2>2, ServerTypes, SetUpKeeps, ServerBehindTheDoor, ServerLogKept, MemoryKeeps
  <2>3. ASSUME NEW c \in Client, ClientStep(c) PROVE SessionInv'
    BY <2>3, ClientTypes, SetUpKeeps, ClientBehindTheDoor, ClientLogKept, MemoryKeeps
  <2>. QED
    BY <2>1, <2>2, <2>3, Sides
<1>. QED
  BY <1>1, <1>2, PTL DEF Spec

\* A server that finds the remains of any number of killed ones in the table
\* sets up its own memory and semaphore (main.c:177-178, 195, 207).
THEOREM AlwaysRestartable == Spec => []Restartable
<1>1. SessionInv => Restartable
  BY DEF SessionInv, SetUpSoFar, Restartable
<1>. QED
  BY <1>1, SessionInductive, PTL

\* Whoever is let in by a server's semaphore reads that server's memory only
\* when it is complete (main.c:206-208, client.c:60-70).
THEOREM MemoryIsComplete == Spec => []MemoryComplete
<1>1. SessionInv => MemoryComplete
  BY DEF SessionInv
<1>. QED
  BY <1>1, SessionInductive, PTL

\* No client, and no server that was killed before, ends the log of a server
\* that is at work; nothing does before its end or a fatal error of its own
\* (log.c:70-71, main.c:222-226).
THEOREM LogGoesOn == Spec => []LogOutlivesClients
<1>1. SessionInv => LogOutlivesClients
  BY DEF SessionInv, LogKept, Serving, LogOutlivesClients
<1>. QED
  BY <1>1, SessionInductive, PTL
=============================================================================
