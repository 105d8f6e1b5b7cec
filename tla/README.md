# A verification development for the rescue server

The repository is a C11 program: a server that receives emergency requests,
dispatches the digital twins of rescuers to them and simulates their work, and a
client that sends requests. This directory holds TLA+ modules that model the
server, its parsers, its life as a process and the clients, TLC configurations that
check them on small instances, and proofs checked by TLAPS. Paths like
`thread_worker.c:177` are relative to their place in the repository's `src/`.

Contents: [the system](#1-the-system), [the modules](#2-the-modules),
[the runs](#3-the-runs), [the proofs](#4-the-proofs),
[what the models do not say](#5-what-the-models-do-not-say), [the plan](#6-the-plan).

## 1. The system

### Components, their state and operations

| component | source | state | operations |
|---|---|---|---|
| priority queue `pq_t` | `src/priority_queue.c` | lists per level, `size`, `closed`, mutex, condition | push, pop (blocking), try_pop, extract_first, map, close |
| walk of a twin | `src/bresenham.c` | a trajectory: target, deltas, signs, error term | change the trajectory, walk one round |
| receiver thread | `thread_reciever.c` | request counters | receive a message, build an `emergency_t`, push it |
| worker threads (10) | `thread_worker.c`, `server_helpers.c` | one slot each in `active_emergencies`, the local `e` | pop, open slot, search (steal, assign, send), wait, store, close slot |
| updater thread | `thread_updater.c` | the emergency it is promoting | once per tick: twins, emergencies at work, waiting emergencies, expiry, promotion |
| clock thread | `thread_clock.c` | `tick`, tick count | tick and broadcast |
| main thread | `main.c` | `server_must_stop`, the exit code | parse, set up, start the threads, `sigwait`, stop, join, statistics, clean up |
| priority table | `main.c:349-394`, `config_server.h` | constant | level, timers, next priority |
| parsers | `src/core/parsers/` | the line being read; environment, rescuers and emergency types | configuration files, requests |
| logger | `src/log.c` | a message queue and a thread; the end of the log | log an event, write the log, end it |
| client | `src/client/client.c` | what it has opened of the server | enter by the semaphore, read the memory, send requests, stop the server |
| JSON visualizer | `json_visualizer.c` | output files | append the state of a tick |

`old_code/`, `conf/`, `docs/`, `out/` are not part of the built program or are data.

### How they interact

- The receiver pushes to `emergency_queue`; the workers pop from it; the updater
  maps over it, extracts what has expired or must be promoted, and pushes the
  promoted back. Workers and the updater push to `completed_emergencies` and
  `canceled_emergencies`.
- Emergencies at work and twins are shared by the workers and the updater under
  two mutexes, always the rescuers' before the emergencies' (`lock_system`).
  A worker sleeps on the condition of its emergency until the status is PAUSED or
  COMPLETED or the server stops; the updater, another worker that steals one of
  its twins, and main signal that condition.
- Twins move only in the updater's round. A worker of a more important emergency
  may steal twins that are on their way or on the scene of a less important one,
  which is PAUSED and must search again.
- The parsers fill the tables main hands to everybody else: a request can only name a
  type they have accepted, and be within the map they have read.
- The clock and the updater share `tick` under the mutex of the clock; main and
  whoever fails broadcast its condition without that mutex.
- Every process logs to the queue of the server's logger. Clients find the server by
  four names in the system's table: the log queue, the semaphore that lets them in, the
  memory with the server's pid and limits, and the queue of the requests.
- A thread that cannot go on calls `request_shutdown_from_thread`, which takes the same
  steps as main's stop in another order.
- A signal to the process makes main raise `server_must_stop`, send `-stop` to the
  receiver, close the queue, broadcast to the emergencies in the slots, and join.

### What is hard

Every hazard is listed in `PROJECT.json` at its line. In groups: lost wake-ups
between a worker's test and its sleep; theft in the middle of somebody else's work
and the counters that must survive it; the order of the stop's four steps against
ten workers and an updater in any state; queue operations of three kinds of
threads at once; a line of Bresenham that is interrupted in the middle of a
diagonal and redirected; timers that count below their sentinels; pointers from
twins to emergencies that are already stored; a tick between any two steps of the
updater; failures at the start, and in a round with both mutexes locked; a message
queue, a log or a mailbox that is full and that nobody reads any more; a server that
was killed and what it leaves to the next one and to its clients; the end of a log that
several processes share; files whose lines are checked one at a time.

### What makes each component correct

- *Queue*: it behaves like an atomic queue; a thread in `pq_pop` is not left asleep
  while there are items or once the queue is closed.
- *Walk*: no detour, no overshoot, the speed is used up, the target is reached.
- *Workers and updater*: twins and crews agree; counters agree with crews;
  completion only after all the work is done; an emergency is in one pair of hands;
  nobody sleeps through an event; every request ends somewhere.
- *Shutdown*: it ends, and the statistics account for every request.
- *Clock and updater*: no tick is slept through, the rounds are numbered in order.
- *Process*: main is the last one out, whatever has failed; a stop comes to its end.
- *Parsers*: what they accept the server can serve.
- *Sessions*: a server can always be started again; a client is let in only to a
  complete server, does not end its log, and waits in vain only for one that has gone
  or does not listen any more, whether it is alive or not.
- *Priority table*: levels rank the priorities, and a level has the timers of its row.

## 2. The modules

Read them in this order.

| module | what it is |
|---|---|
| `PriorityQueue` | the value of a `pq_t` as a function from levels to sequences; pure operators |
| `BlockingQueue` | abstract: the queue its users are promised, every operation atomic |
| `PqMonitor` | `priority_queue.c` with mutex, condition and `size`; implements `BlockingQueue` |
| `Grid` | cells, Manhattan distance, where a walk may end |
| `ShortestWalk` | abstract: what a walk promises |
| `Bresenham` | `bresenham.c`, a loop turn per step; implements `ShortestWalk` |
| `EmergencyLife` | abstract: the places an emergency passes through, and what the end of the server may do to it |
| `RescueState` | constants with their assumptions, the shared variables, the rules of dispatch, walk and promotion |
| `RescueServer` | the threads: receiver, workers, updater, main; the safety properties; implements `EmergencyLife` |
| `RescueClaims` | liveness, and what documents and comments say that the code does not do |
| `PriorityTable` | the functions of the priority table, for any table, with theorems |
| `Configuration` | the three parsers, a line per step, and the test of a request |
| `ServerLife` | the process from the first line of `env.conf` to its exit; extends `Configuration` |
| `Session` | servers that come and go, and the clients that find them |
| `MCRescueServer`, `MCBresenham`, `MCPqMonitor`, `MCServerLife` | instances for TLC (`Session` needs none) |
| `RescueServerProofs`, `OwnershipProofs`, `OutcomeProofs`, `BresenhamProofs`, `MonitorProofs`, `ServerLifeProofs`, `SessionProofs` | theorems |

`RescueServer` uses the queue as `BlockingQueue` describes it (one atomic operation
per step, `pq_pop` enabled when there is an item or the queue is closed) and the
walk as `ShortestWalk` describes it (`Grid!AfterWalk`), so the two refinements are
what lets the server be modelled at that grain. `RescueServer` in turn implements
`EmergencyLife`, which is what somebody who sends requests may rely on: a request waits,
is served by one worker, ends in one store and stays there; only a server that is
stopping may lose one or store one twice.

The server is seen at three grains. `RescueServer` has every emergency and twin, and
takes for granted that the threads run and that the message queue has room.
`ServerLife` has every thread, mutex, sleep and message queue, and reduces emergencies
and twins to what can keep a thread waiting or lead it out of its loop. `Session` has
processes, and reduces a server to the steps others can notice: how it is set up, what
its receiver, its logger and main's stop do, and the fatal errors that leave it alive
without a receiver.

### Correspondence

*State.* The fields of `emergency_t` and of the twins are functions on the constant
sets `Emergency` and `Twin`. `crew[e]` is the set of the non-NULL entries of
`rescuer_twins`; `missing[e]` the `required_count`s of `rescuers_missing`;
`tTarget` the target of the trajectory, the rest of which is a matter of
`Bresenham`. Priorities are represented by their level: the table of
`config_server.h` is in ascending order, so level and row are the same.
`is_a_candidate` is set and cleared within one critical section, `is_travelling`
and `has_arrived` are never read: they are left out, like the fields that are only
logged or counted for the log. The two stores count how often an emergency was
pushed, because the code can push it twice.

*Steps.* A step is a critical section, a test of `server_must_stop`, or an operation
of the queue. The program counters (`wPc`, `uPc`, `rPc`, `mPc`) name the places in
between. Examples: `WorkerFind` is the whole successful
`find_rescuers_logging_blocking`, with every theft, assignment and dispatch, under
both mutexes; `WorkerWait` is one test of the wait loop together with going to sleep
(`cnd_wait` gives the mutex up in the same instant); `WorkerDispatch` reads the
status after the mutex has been released, as lines 77-80 do; `UpdaterTick` is the
part of a round under `lock_system`, with the twins first and the emergencies on the
counters the twins have left; the five steps after it work on the queue, one
operation each. `UpdaterLoop` stands for both tests of the flag around the wait for
a tick: the round goes on only if the second one fails to see it.

*The process.* A program counter per thread in `ServerLife` names the place where it may
be kept waiting, or where another may come in between. The mutex of the emergencies is
not a variable: a thread has it exactly at the places of `InRound` and `InSection`; and
the updater has the clock's between its test and its sleep (`ClockFree`).
`request_shutdown_from_thread` and the stop by a signal are the same actions (`Stop(t)`)
in the order `After` gives. The log is what a thread that logs notices of it: as long as
it is written, nothing; after an event that ends it, `LogRoom` lines and then no
progress. The updater wakes, and a search pauses, any set of sleeping workers, which
covers every course `RescueServer` gives them.

*Files.* A line is a record of what `sscanf` makes of it, and is chosen when it is read,
so every file over the lines of the instance occurs. A name carries whether blanks
follow it, because one lookup does not cut them off. The parsers differ in what they do
with a line they cannot use: `env.conf` passes over it, a bad line of `rescuers.conf`
gives a NULL that is followed, one of `emergency_types.conf` a NULL that is found.

*Sessions.* A name of the system's table stands for a generation, the number of the
server that created the object; who has opened an object keeps it although the name has
gone or stands for another one. A field of the memory is written or not. The pid of the
n-th server is n, and 0 is what an unwritten field reads as. Of the threads of a server
there are the receiver (new, receiving, about to log a request, or dead), the updater
(sound, with a twin on its way off the map, or locked by itself) and main, which creates
the others in `"running"` and then waits for a signal. `exited` is the variable of
`request_shutdown_from_thread` that lets only one caller through. A stop raises the flag,
sends the stop message, for which there must be room, and joins the threads, which must
have come to their end. A client keeps the queue and the pid only as long as it will use
them.

*Choices.* `Candidates(e)` states the result of the greedy loop: for every type as
many eligible twins as are missing, none of which is worse than one left out. The
source breaks ties by the order of the array; the model takes any. The receiver
chooses which legal request comes next, and `ReceiverDiscard` is a message that is
none. A walk that does not reach its target ends in any cell the promise allows.

*Undefined behaviour.* Two lines lead out of C: the search may read past its array of
candidates (`thread_worker.c:248`), and a twin that is sent to the cell it has never
left follows a trajectory that was never written (`parse_rescuers.c:120`). C allows
any continuation, so the model takes every thread to `"undefined"` and ends the
behaviour there: the properties speak of executions up to that point. That the first
is reachable is the run `candidates_overread`; both are steps of the passing runs.

## 3. The runs

A cfg in this directory for each run; run with `tlc -config X.cfg M`.

| run | module | states | shows |
|---|---|---|---|
| `preempt` | `MCRescueServer` | 964,000 | `TypeOK`, `CrewConsistent`, `Accounting`, `Conservation`, `SlotOwned`, `CompletedMeansServed`, `CompletedUntouched`, `NoLostWakeup`, `OneOwner`, `ImplementsLife` under thefts and a signal at any moment |
| `stopping` | `MCRescueServer` | 344,000 | `StopEnds`: a stopped server exits |
| `settle` | `MCRescueServer` | 111,000 | `QueuedAtItsLevel`, `NothingOverdue`, `CompletedIsStored`, `EverySettled` |
| `walk` | `MCBresenham` | 20,000 | `TypeOK`, `NeverOvershoots`, `NoDetour`, `OnTheMap`, `ImplementsWalk`, `Arrives` |
| `monitor` | `MCPqMonitor` | 2,400 | `TypeOK`, `SizeCounts`, `NoneStranded`, `ImplementsQueue` |
| `life` | `MCServerLife` | 483,000 | `CatalogueSound`, `NoTickSleptThrough`, `RoundsNumbered`, `LastOneOut`, `TickTaken`, `StopEnds` |
| `session` | `Session` | 586,000 | `Restartable`, `MemoryComplete`, `LogOutlivesClients`, `ClientEnds`, `ServerCloses` |

What `life` says is: whatever the files contain, what the parsers have accepted at any
moment is free of doubles and can be served; the updater never sleeps while a tick waits,
and takes every tick until the stop; rounds are written in order, two of them perhaps
with one number and never three (with the two ticks of the run no third can occur: that
half rests on the theorem `RoundsInOrder`); main takes the process apart when every
thread that was started has ended, and a server that reports success has lost no line of its log.
`CatalogueSound` does not speak of a type that is there twice because blanks follow its
name, and nothing follows a full array of requests but `"undefined"`.

A stop, be it a signal, a thread that could not be started or a fatal error in a thread,
comes to its end or hangs in one of three ways, which `StopEnds` names:

- `SelfLocked`: a twin has left the map, and the updater asks for the mutex it has
  (`thread_updater.c:89`, `main.c:214`). A request at the border leads there, since the
  parser compares absolute values with `<=` (`parse_emergencies.c:186`), and so does the
  way back to a base at the border (`parse_rescuers.c:75-77`; `LeadsAstray`). If no signal
  comes, main stays in `sigwait`, since the updater never gets as far as waking it.
- `MailboxFull`: main waits for room in the queue of a receiver that has seen the flag or
  was never started (`main.c:71`).
- `LogFull`: after a fatal error nobody reads the log, and its queue is full
  (`log.c:257`).

What `session` says is: a killed server, wherever it was, never keeps the next one from
its start; a client that came in by the semaphore of the server whose memory it reads
finds the memory complete; clients log to the server's queue and end their own logging
without ending the server's.

A client comes to its end, or it waits for a server in one of the three ways `ClientEnds`
names:

- `ShutOut`: for the semaphore of a server that was killed before it posted it.
- `Unheard`: for room in a log that is not written any more.
- `Unreceived`: for room in the queue of the requests (`client.c:151`) when the server is
  no more, or lives on with a receiver that has ended, was never started or cannot log
  (`Deaf`).

A server that has been told to stop comes to its end, or waits in one of the ways
`ServerCloses` names: for room in a log that has ended (`LogJam`), for room in the queue
of a receiver that is dead (`MailboxJam`), or for a thread after a fatal error (`HeldUp`).
Without a fatal error only a full mailbox can keep it.

Each property of these runs also has a mutant in the module it is about: an operator
marked `Mutant`, the way a bug in that code would look, which replaces the definition
after it and makes the run fail. They are used by nothing else.

### Findings

Five runs end in a counterexample. Each states a sentence of the repository and is
violated by what the code does.

| run | sentence | what happens |
|---|---|---|
| `paused_for_ever` | README.md:162, 0 rescuers at work means complete | `PAUSED` is never left: once robbed, an emergency is served by other rescuers but not completed, and its worker spins through a search that finds nothing missing (`thread_updater.c:150`, `thread_worker.c:70,78`) |
| `timed_out_touched` | README.md:76, stored emergencies are not touched | an emergency that times out in its worker keeps its twins; robbing them later sets the stored emergency to `PAUSED` (`thread_worker.c:177-197`) |
| `statistics` | main.c:322-326, the closing counts | requests counted but dropped by a closed queue; emergencies stored and stored again as canceled (`thread_worker.c:85-86`) |
| `stale_target` | thread_updater.c:104, "arrived at the scene" | a twin robbed while it stands in the new scene's cell keeps the old trajectory, walks away and is `ON_SCENE` elsewhere (`server_helpers.c:57-60`) |
| `candidates_overread` | thread_worker.c:205, 246, the candidates fill the entries | entries of twins that have finished are NULL too; after a theft the loop reads past `candidates` (`thread_worker.c:245-252`) |

Other disagreements were met and have no run of their own:

- Completion waits while an emergency has a promotion timer (`thread_updater.c:148`), so
  an emergency of level 0 is completed only after its promotion.
- The timer of a paused emergency counts down through `NO_TIMEOUT`
  (`thread_updater.c:151`); a search in that tick has no limit on the arrival time
  (`thread_worker.c:161`), which README.md:175 excludes.
- README.md:189 has the server stop in good order at any moment; it hangs in the three
  ways above. A parse that fails, or an emergency type with a full set of requests, ends
  in a fault while main cleans up (`structs.c:76`, `main.c:268`).

### Bounds, and why they are enough

- *Emergencies, twins, workers.* Thefts need two emergencies of different levels and
  two workers. `preempt` has two fire engines and an ambulance, so that an emergency
  can lose one twin, keep another, and have a third that has finished. `settle` has
  three emergencies for one worker, so that two wait at once and one overtakes.
- *Timers.* 60 and 30 ticks are replaced by 2 (in `stopping` 1), the sentinel -10 by
  -2 (-1): what matters is that every order of expiry, promotion, arrival and
  completion occurs, and that a timer can pass zero before it reaches the sentinel.
  Times on the scene are 1 and 2 ticks.
- *Map.* A row of two or three cells at speed 1: walks of one and two rounds, on which
  the end of a round is determined. In `preempt` one emergency is at the base, where a
  twin that has never moved has no trajectory to follow; no other run sends a twin to
  its own base. Every shape of walk is the subject of `walk`, whose map of 5 x 4 cells
  has flat, steep and diagonal lines of several rounds.
- *Timers of paused emergencies* are not counted below the sentinel
  (`Decrement`): all such values are negative and different from it.
- *Queue.* Three threads in `pq_pop`, at most `MaxItems` = 2 items at once, two
  levels, and pushes to levels that do not exist (-1 and 2), which `pq_push` clamps.
- Each emergency is received at most once; a request that is repeated is another
  element of `Emergency`.
- *Files* (`life`). `FileLines` = 3 lines for each file, out of six, five and six kinds:
  enough for a legal file with a comment, a type twice, a second type and a refused line
  in any order. A line of an emergency has up to four requests where `MaxRequests` is 2,
  so the array is filled and then passed. `MaxEnvLines` is not reached; a line that is
  too long and a line too many take the same branch as one with illegal values. The life
  is followed past the parse for one outcome of it (`Catalogue`, one emergency type with
  room behind its requests): what the threads do does not depend on more of it, and every
  other outcome is checked up to there.
- *Threads* (`life`). One worker: it shares the emergencies' mutex with the updater and
  main and can be kept from its end by each. That a thief wakes another worker is the
  subject of `preempt`. `MaxTicks` = 2 ticks before the stop give two rounds, one with
  two ticks in it, and two with one number. `MaxSent` = 1 request with `MqRoom` = 1, not
  10: the mailbox is full with the request or with the stop message. `LogRoom` = 8, not
  10: one more than the `CloseLines` = 7 of main's closing, so that it depends on the
  threads whether main finds room.
- *Sessions.* Two clients, `MaxStarts` = 2 servers of which the first may be killed or
  have a fatal error (`MaxFailing` = 1): a client may have parts of either, and the second
  server meets everything a first one can leave. A parse may fail in both. One request for
  a client (`MaxFileLines`) and `MqRoom` = 1: the second client, or the stop message,
  finds the queue full. `LogRoom` = 1: every line may be the one that fills the log.

Symmetry is used in `preempt` only, which checks safety properties that treat the two
workers alike, and the two fire engines: invariants, and the steps of `EmergencyLife`,
which has neither. Runs with liveness do not use it.

### Fairness

`FairSpec` of `RescueServer` makes every worker, the updater, main's shutdown and the
receiver's stop weakly fair: the threads are preemptively scheduled, every mutex is
held for a bounded time, the clock thread ticks for ever, and main has put the stop
message into the receiver's queue. No fairness is assumed of clients and signals. In
`Bresenham` the updater walks a twin that is not at its target once per tick. In
`PqMonitor` a thread that wants the mutex gets it; spurious wake-ups are allowed but
never needed.

`FairSpec` of `ServerLife` makes main, the clock, the updater, the receiver and every
worker weakly fair, for the same reasons; a step that needs a mutex, room in a queue or
room in the log is not enabled while there is none, so fairness promises nothing there,
and the hangs of `StopEnds` are possible. `Sigwait` and `ClientSend` are not fair: nobody
has to stop the server or use it. The clock is kept from more than `MaxTicks` ticks only
before the stop. `FairSpec` of `Session` makes the server's steps, its logger, its
receiver and every client weakly fair; starting, killing and signalling a server are not,
nor is any failure (`StartFails`, `UpdaterFatal`, `Crash`). Main's `SendStop` and `Join`
are fair only until the log has ended: then a thread may wait for room in the log with a
mutex that main needs, and they may be delayed for ever (`MainWaits`).

Deadlock is not checked in the runs whose system may stop: the server that has exited,
and clients and servers that are no more.

## 4. The proofs

All checked by `tlapm`, for every value of the constants that satisfies the named
assumptions of `PriorityQueue`, `RescueState` (the sets are finite, what the parsers accept,
and that no row of the table is due at once: `config_server.h:42-47`), `Bresenham`,
`PqMonitor`, `Configuration` (what a line of a file may be), `ServerLife` (the workers are
not the other threads) and `Session` (the number of starts is a number).

| theorem | property |
|---|---|
| `RescueServerProofs!TypeCorrect` | `TypeOK` |
| `RescueServerProofs!CrewsAgree` | `CrewConsistent` |
| `RescueServerProofs!CountersCount` | `Accounting` |
| `RescueServerProofs!EntriesSuffice` | how many entries of `rescuer_twins` a search has to fill |
| `OwnershipProofs!OwnedOnce` | `OneOwner` |
| `OwnershipProofs!SlotsKept` | `SlotOwned` |
| `OutcomeProofs!LevelsKept` | `QueuedAtItsLevel` |
| `OutcomeProofs!RoundsFinish` | `NothingOverdue` |
| `OutcomeProofs!WakeupsArrive` | `NoLostWakeup` |
| `OutcomeProofs!NothingLost` | `Conservation` |
| `OutcomeProofs!LifeImplemented` | `ImplementsLife` |
| `OutcomeProofs!CompleteIsServed` | `CompletedMeansServed` |
| `OutcomeProofs!CompletedStays` | `CompletedUntouched` |
| `BresenhamProofs!WalkTypes` | `TypeOK` |
| `BresenhamProofs!NoOvershoot`, `StraightOn`, `StaysOnTheMap` | `NeverOvershoots`, `NoDetour`, `OnTheMap` |
| `BresenhamProofs!WalkImplemented` | `ImplementsWalk` |
| `MonitorProofs!NobodyStranded`, `MonitorTypes`, `SizeAgrees` | `NoneStranded`, `TypeOK`, `SizeCounts` |
| `MonitorProofs!QueueImplemented` | the safety part of `ImplementsQueue` |
| `ServerLifeProofs!CatalogueIsSound` | `CatalogueSound` |
| `ServerLifeProofs!TickHeard`, `RoundsInOrder` | `NoTickSleptThrough`, `RoundsNumbered` |
| `ServerLifeProofs!MainIsLast` | `LastOneOut` |
| `SessionProofs!AlwaysRestartable`, `MemoryIsComplete`, `LogGoesOn` | `Restartable`, `MemoryComplete`, `LogOutlivesClients` |
| `PriorityTable!LevelsRankPriorities`, `TimersOfTheRow`, `NextIsNextRow` | the functions of the table |

*Types.* `TypeOK` is not inductive: the code indexes by "the emergency of this
worker" or "of this twin". `TypeInv` adds `Known` (whoever holds an emergency holds a
received one) and `Busy` (a twin has an emergency exactly while it works).

*Crews.* `CrewsMatch`, the agreement of the two directions of the pointers, is
inductive with `TypeInv`: a new emergency has no twins because it was not received
before, a theft updates both sides, and so does a departure.

*Counters.* `Accounting` is inductive with `TypeInv` and `CrewsMatch`. A demand is a
finite set of units, so that a stolen twin is one unit more of what is missing and one
twin less in the crew (`TwinsFinite`, `UnitsFinite`); the new crew has as many twins as
were missing, type by type, because that is how many candidates the search has found; an
arrival and a departure move a twin from one part of the sum to another. `EntriesSuffice`
adds `CrewFits`: `notDone` never exceeds `rescuer_count`, so neither do crew and missing
rescuers together, and the loop that fills the NULL entries has at least as many entries
as candidates, and more of them exactly if some rescuer has finished before another was
stolen, which is the step to undefined behaviour that `candidates_overread` finds.

*Ownership.* `OneOwner` is inductive with `TypeInv`: a worker gets an emergency only
from the queue, where it was once, and the receiver pushes only new ones. The lemmas
on `PqPush`, `PqPop` and `PqExtract` say that they keep the items distinct. With one
owner, an emergency that was PAUSED or COMPLETED when its worker left the wait loop
still is, so a slot is closed when the worker goes on (`SlotOwned`).

*Levels and rounds.* An emergency at work may be promoted too, and it must not be one
that waits: `SlotHeld` (what is in a slot is held by its worker) and `OneOwner` keep the
two apart, and `AtLevels` is kept by each operation of the queue. `OverdueInv` follows a
round: after `UpdaterExpired` nothing in the queue has expired, after `UpdaterPromoted`
nothing is due, and between rounds only new emergencies come in, with the timers of their
row. A promoted emergency gets the timers of its new row as well; both need that no row is
due at once.

*Wake-ups.* `WakeInv` puts together that a worker at work has its emergency in its slot
(`SlotOwned`), which is where main's broadcast looks; that the flag is up once main has
begun to stop, so that nobody goes to sleep after the broadcast; and `OneOwner`, so that
nobody else stores the emergency of a sleeping worker as completed.

*Conservation.* `OneOwner` says that the hands an emergency is in are at most one.
`KeptInv` adds that they are at least one (`KeptSomewhere`, unless the queue is closed),
that what is stored is in neither the queue nor the updater's hand, and once only while
the server runs (`StoredOnce`), that a worker's `e` is nobody else's (`HeldApart`) and, at
each place of a worker, whether it has stored its emergency yet (`PlaceTells`). `StepShape`
reduces every step to what it does with emergencies: nothing, a move at the queue, a pop, a
store or a release. So the invariant is shown for five shapes and not for thirty actions,
and `LifeImplemented` needs the same five: the invariant tells where the emergency was, the
shape where it goes, and no other emergency moves. That a closed queue implies the flag
(`ClosedLate`) is why only a stopping server loses one.

*Completion.* `CompletedMeansServed` is inductive with `Accounting`: the updater declares
an emergency complete when `notDone` has come down to zero, which is then the number of
rescuers at work and still wanted (`ZeroMeansServed`). Nothing is dispatched to a completed
emergency later: a search needs something that is missing, and nobody has a twin left to
steal; a worker that stores its emergency as completed has found it so (`CompleteSettled`),
and nobody else has it (`OneOwner`). `CompletedStays` follows: what is in the completed
store has no twin by `CompletedMeansServed`, so no theft pauses it, and is neither in the
queue nor in other hands by `PlaceTells` and `StoredOnce`, so nobody opens or expires it. This
is the half of README.md:76 that the code keeps; of the emergencies that timed out it is not
true (run `timed_out_touched`).

*The walk.* With `RestX` and `RestY` cells left on the two axes, the error term is
`dx - dy + dy * RestX - dx * RestY`, wherever the walk began and wherever a round has
ended. So a half of a diagonal is walked only when something is left on its axis, even
if the two halves belong to different rounds, and one of the halves always is.

*The monitor.* While some thread sleeps, at least as many threads are awake in
`pq_pop` as there are items: a push adds one to both, since it wakes a sleeper, and a
pop takes one from both. `CountInv` says that the lists have finitely many nodes and
`size` of them. The refinement maps a thread that is anywhere in `pq_pop` to one that is
asking: waiting, waking and sleeping are stutters, and the answer is given in the step
that leaves. It needs `CountInv`, because the code tests `size` where the abstract queue
looks at its lists.

*The process.* `LifeInv` is the conjunction of `ConfigInv` (the types of what has been
parsed, nothing left over between two emergencies, and `CatalogueSound`), `PcType`,
`Handshake`, `RoundsInv` and `EndInv`.
`Handshake`: an updater that is about to sleep, or asleep, has seen that there is no tick;
the clock cannot tick in between, for it needs the mutex, and main's broadcast, which does
not take it, brings no tick.
`RoundsInv` relates the tick, the count, the number the updater has read and the rounds
written: while a tick waits, or has been taken and not been numbered, the count is beyond
the number of every round but the last; this is what excludes a third round of one number.
`EndInv`: a thread that has not been started or has ended stays so, and the log ends by a
fatal error, which sets the exit code in the next step, or by main's own end.

*Sessions.* `SessionInv` adds to the types how far `server_ipc_setup` has come (what it is
going to create is not in the table), that whoever has passed the semaphore of a server,
or may pass it, finds a complete memory behind it (the post comes after the writes), and
that no line in the queue of a server at work ends its log unless `exited` is set, which
takes a fatal error.

*The table.* A level is the number of smaller rows. For an ascending table that is the
place of the row; for another one it still ranks the priorities, but the timers are those
of another row. `config_server.h` has an ascending table.

Every invariant and every action property the runs check is proved. Model-checked only
are liveness and what needs `ENABLED`, which are out of the prover's reach: `StopEnds`,
`TickTaken`, `CompletedIsStored`, `EverySettled`, `Arrives`, `ClientEnds`, `ServerCloses`,
and the fairness in `ImplementsQueue`. So are the counterexamples of the five runs that
end in one.

## 5. What the models do not say

- *Grain of `RescueServer`.* The stop message is always delivered (`MainSignal` merges
  the flag and the `mq_send` of `main.c:71`), a round may begin at any time (which includes
  every pace of the clock and every merged tick), and `MapAssumption` puts every scene and
  every base on the map, although the parsers accept x = width and y = height
  (`parse_emergencies.c:186`, `parse_rescuers.c:75-77`). What becomes of it otherwise is in
  `ServerLife`, which in turn leaves the second store of an emergency to `RescueServer`.
- *The catalogue of `life`.* Its base is within the map; a base at the border is a case of
  `LeadsAstray` that the run does not reach, with the same consequence as a scene there.
- *The log in `ServerLife`.* One line per round and per request; the lines a round writes
  for single twins would only fill a log that has ended sooner. The debug output
  (`LOG_DEBUG`, `LOG_CLOCK`) is off. The text of a line, standard output and the flushing
  of the file are left out.
- *The JSON visualizer.* A round appends its number; the drawing, the summary of the
  positions and a file that cannot be opened are left out.
- *Sessions.* One server at a time: a second one that is started while the first runs
  takes its names. A client is not killed between its `sem_wait` and `sem_post`. A client
  may come in by the semaphore of a server that was killed and read the memory of the
  next one before the pid is written: `MemoryComplete` does not speak of it, and
  `kill(0)` then signals the client's own group. The lines that threads other than main,
  the receiver and the updater log are left out (what they can do is in `MainWaits`), and
  the updater's fatal line is one step with the flag it raises. A queue name that has
  the maximal length   and closing descriptors that were never opened have no effect in
  the model.
- *Widths of integers.* All counters are small; the only unbounded one is the timer of
  a paused emergency, which would need 2^31 ticks to wrap. The rounding of the arrival
  time (`thread_worker.c:100`) is in the model, and no document says what it should be.
- *Memory.* Failing allocations end the process wherever they happen; freeing is modelled
  where it follows a NULL that may be missing.
- *Not modelled*: `old_code/`, `conf/`, `docs/` and `out/`, which are not part of the
  built program or are data; the help text of the client; the length of a tick; string
  handling other than the blanks after a name.

## 6. The plan

1. *Done*: the queue, the walk, the server's threads; the parsers, the clock's handshake,
   start, failure and stop of the process, the log, servers and clients; the table.
   The safety properties are proved, and the refinements of the walk, of the queue and
   of the life of an emergency.
2. *Left*: a module `Search` with the greedy loop of `find_rescuers` against
   `Candidates`; two workers in `life`; a second catalogue with a base at the border and a
   full array of requests, which is beyond the size of `life` as it is.
