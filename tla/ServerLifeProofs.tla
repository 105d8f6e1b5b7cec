-------------------------- MODULE ServerLifeProofs --------------------------
(***************************************************************************)
(* The files, the clock and the end of the server, for files with any      *)
(* lines, any number of workers and requests and any bounds.               *)
(***************************************************************************)
EXTENDS ServerLife, TLAPS

-----------------------------------------------------------------------------
(***************************************************************************)
(* The files.                                                              *)
(***************************************************************************)
\* The names of the lines, and that of no emergency.
TypeName == STRING \cup {NoFields.name}

Rescuer == [name : STRING, amount : Int, x : Int, y : Int]
RescuerRequest == [name : STRING, count : Int, padded : BOOLEAN]
EmergencyType ==
    [name : TypeName, priority : Int, requests : Seq(RescuerRequest)]

ConfigType ==
    /\ rescuers \in Seq(Rescuer)
    /\ types \in Seq(EmergencyType)
    /\ fields \in EmergencyType
    /\ tokens \in Seq(Token)

\* The emergency whose requests are being taken is not there yet.
NewFields == phase = "requests" => ~Named(fields.name, types)

ConfigInv == ConfigType /\ NewFields /\ CatalogueSound

LEMMA DistinctMore ==
    ASSUME NEW E, NEW s \in Seq(E), NEW e \in E, Distinct(s), ~Named(e.name, s)
    PROVE  Distinct(Append(s, e))
<1>1. /\ DOMAIN Append(s, e) = DOMAIN s \cup {Len(s) + 1}
      /\ \A i \in DOMAIN s : Append(s, e)[i] = s[i]
      /\ Append(s, e)[Len(s) + 1] = e
  OBVIOUS
<1>. QED
  BY <1>1 DEF Distinct, Named

\* Another rescuer takes nothing from what can be served.
LEMMA ServableStill ==
    ASSUME rescuers \in Seq(Rescuer), NEW e \in Rescuer,
           rescuers' = Append(rescuers, e)
    PROVE  \A q : Servable(q) => Servable(q)'
<1>1. /\ DOMAIN rescuers \subseteq DOMAIN rescuers'
      /\ \A i \in DOMAIN rescuers : rescuers'[i] = rescuers[i]
  OBVIOUS
<1>. QED
  BY <1>1 DEF Servable

\* A request that is taken is new, or padded, and there are twins for it.
LEMMA ServableMore ==
    ASSUME NEW q \in Seq(RescuerRequest), NEW r \in RescuerRequest, Servable(q),
           Len(q) < MaxRequests, r.padded \/ ~Named(r.name, q),
           \E j \in DOMAIN rescuers : /\ rescuers[j].name = r.name
                                      /\ r.count <= rescuers[j].amount
    PROVE  Servable(Append(q, r))
<1>1. /\ DOMAIN Append(q, r) = DOMAIN q \cup {Len(q) + 1}
      /\ \A i \in DOMAIN q : Append(q, r)[i] = q[i]
      /\ Append(q, r)[Len(q) + 1] = r
      /\ Len(Append(q, r)) = Len(q) + 1 /\ Len(q) \in Nat
      /\ \A i \in DOMAIN q : i \in Nat /\ i < Len(q) + 1
  OBVIOUS
<1>2. Len(Append(q, r)) <= MaxRequests
  BY <1>1, ConfigurationAssumption
<1>. QED
  BY <1>1, <1>2 DEF Servable, Named

LEMMA NoFieldsYet ==
    NoFields \in EmergencyType /\ Servable(NoFields.requests)
<1>1. <<>> \in Seq(RescuerRequest)
  OBVIOUS
<1>2. NoFields.requests = <<>>
  BY DEF NoFields
<1>3. NoFields \in EmergencyType
  BY <1>1 DEF NoFields, EmergencyType, TypeName
<1>. QED
  BY <1>2, <1>3, ConfigurationAssumption DEF Servable

LEMMA ConfigStarts ==
    ASSUME ConfigInit
    PROVE  ConfigInv
<1>1. <<>> \in Seq(Rescuer) /\ <<>> \in Seq(EmergencyType) /\ <<>> \in Seq(Token)
  OBVIOUS
<1>3. Distinct(rescuers) /\ Distinct(types)
  BY DEF ConfigInit, Distinct
<1>. QED
  BY <1>1, <1>3, NoFieldsYet DEF ConfigInit, ConfigInv, ConfigType, NewFields,
     CatalogueSound

LEMMA RescuersKept ==
    ASSUME ConfigInv, ReadRescuerLine
    PROVE  ConfigInv'
<1>1. PICK l \in RescuerLine : \/ UNCHANGED rescuers
                               \/ ~RescuersRefused(l) /\ AddRescuer(l)
  BY DEF ReadRescuerLine
<1>2. /\ UNCHANGED <<types, fields, tokens>>
      /\ phase' # "requests"
  BY DEF ReadRescuerLine
<1>3. CASE UNCHANGED rescuers
  BY <1>2, <1>3 DEF ConfigInv, ConfigType, NewFields, CatalogueSound, Distinct,
     Servable
<1>4. CASE ~RescuersRefused(l) /\ AddRescuer(l) /\ rescuers' # rescuers
  <2>. DEFINE e == [name |-> l.name, amount |-> l.amount, x |-> l.x, y |-> l.y]
  <2>1. rescuers' = Append(rescuers, e) /\ ~Named(e.name, rescuers)
    BY <1>4 DEF AddRescuer
  <2>2. l.kind \notin NoFieldLine
    BY <1>4 DEF RescuersRefused, Refused, AddRescuer, Passed, NoFieldLine
  <2>3. e \in Rescuer
    BY <2>2, ConfigurationAssumption DEF Rescuer
  <2>4. rescuers \in Seq(Rescuer) /\ rescuers' \in Seq(Rescuer)
    BY <2>1, <2>3 DEF ConfigInv, ConfigType
  <2>5. Distinct(rescuers)'
    BY <2>1, <2>3, <2>4, DistinctMore DEF ConfigInv, CatalogueSound
  <2>6. \A q : Servable(q) => Servable(q)'
    BY <2>1, <2>3, <2>4, ServableStill
  <2>. QED
    BY <1>2, <2>4, <2>5, <2>6 DEF ConfigInv, ConfigType, NewFields, CatalogueSound,
       Distinct
<1>. QED
  BY <1>1, <1>3, <1>4

LEMMA RequestsKept ==
    ASSUME ConfigInv, TakeRequest
    PROVE  ConfigInv'
<1>. DEFINE k == Head(tokens)
            r == [name |-> k.name, count |-> k.count, padded |-> k.padded]
<1>1. /\ UNCHANGED <<rescuers, types>>
      /\ tokens # <<>> /\ tokens' = Tail(tokens)
      /\ phase' = "requests" => phase = "requests"
  BY DEF TakeRequest
<1>2. k \in Token /\ tokens' \in Seq(Token)
  BY <1>1 DEF ConfigInv, ConfigType
<1>3. CASE UNCHANGED fields
  BY <1>1, <1>2, <1>3 DEF ConfigInv, ConfigType, NewFields, CatalogueSound, Distinct,
     Servable
<1>4. CASE fields' # fields
  <2>1. /\ ~Requested(k) /\ ~(Len(fields.requests) >= MaxRequests) /\ Available(k)
        /\ fields' = [fields EXCEPT !.requests = Append(@, r)]
    BY <1>4 DEF TakeRequest
  <2>2. r \in RescuerRequest /\ fields.requests \in Seq(RescuerRequest)
    BY <1>2 DEF Token, RescuerRequest, ConfigInv, ConfigType, EmergencyType
  <2>3. /\ fields' \in EmergencyType /\ fields'.name = fields.name
        /\ fields'.requests = Append(fields.requests, r)
    <3>1. Append(fields.requests, r) \in Seq(RescuerRequest)
      BY <2>2
    <3>. QED
      BY <2>1, <3>1 DEF ConfigInv, ConfigType, EmergencyType
  <2>4. Servable(fields.requests)
    BY DEF ConfigInv, CatalogueSound
  <2>5. Len(fields.requests) < MaxRequests
    BY <2>1, <2>2, ConfigurationAssumption
  <2>6. Servable(Append(fields.requests, r))
    BY <2>1, <2>2, <2>4, <2>5, ServableMore DEF Requested, Available
  <2>7. Servable(fields.requests)'
    BY <1>1, <2>3, <2>6 DEF Servable
  <2>8. ConfigType'
    BY <1>1, <1>2, <2>3 DEF ConfigInv, ConfigType
  <2>9. NewFields'
    BY <1>1, <2>3 DEF ConfigInv, NewFields, Named
  <2>10. \A q : Servable(q)' <=> Servable(q)
    BY <1>1 DEF Servable
  <2>11. CatalogueSound'
    BY <1>1, <2>7, <2>10 DEF ConfigInv, CatalogueSound, Distinct
  <2>. QED
    BY <2>8, <2>9, <2>11 DEF ConfigInv
<1>. QED
  BY <1>3, <1>4

LEMMA TypesKept ==
    ASSUME ConfigInv, AddEmergency
    PROVE  ConfigInv'
<1>1. /\ UNCHANGED <<rescuers, tokens>> /\ phase' # "requests"
      /\ types' = Append(types, fields) /\ fields' = NoFields
      /\ ~Named(fields.name, types)
  BY DEF AddEmergency, ConfigInv, NewFields
<1>2. types \in Seq(EmergencyType) /\ fields \in EmergencyType
  BY DEF ConfigInv, ConfigType
<1>3. Distinct(types')
  BY <1>1, <1>2, DistinctMore DEF ConfigInv, CatalogueSound
<1>4. \A i \in DOMAIN types' : Servable(types'[i].requests)
  BY <1>1, <1>2 DEF ConfigInv, CatalogueSound
<1>5. types' \in Seq(EmergencyType)
  BY <1>1, <1>2
<1>6. \A q : Servable(q)' <=> Servable(q)
  BY <1>1 DEF Servable
<1>. QED
  BY <1>1, <1>3, <1>4, <1>5, <1>6, NoFieldsYet DEF ConfigInv, ConfigType, NewFields,
     CatalogueSound, Distinct

LEMMA ConfigKept ==
    ASSUME ConfigInv, ConfigNext
    PROVE  ConfigInv'
<1>. USE DEF ConfigInv, ConfigType, NewFields, CatalogueSound, Distinct, Servable
<1>1. CASE ReadRescuerLine
  BY <1>1, RescuersKept
<1>2. CASE TakeRequest
  BY <1>2, RequestsKept
<1>3. CASE AddEmergency
  BY <1>3, TypesKept
<1>4. CASE ReadEmergencyLine
  <2>1. PICK l \in EmergencyLine :
           \/ UNCHANGED <<fields, tokens>> /\ phase' # "requests"
           \/ /\ ~EmergenciesRefused(l) /\ ~Passed(l) /\ ~Named(l.name, types)
              /\ fields' = [NoFields EXCEPT !.name = l.name,
                                            !.priority = l.priority]
              /\ tokens' = l.tokens
    BY <1>4 DEF ReadEmergencyLine
  <2>2. UNCHANGED <<rescuers, types>>
    BY <1>4 DEF ReadEmergencyLine
  <2>3. CASE UNCHANGED <<fields, tokens>> /\ phase' # "requests"
    BY <2>2, <2>3
  <2>4. CASE /\ ~EmergenciesRefused(l) /\ ~Passed(l) /\ ~Named(l.name, types)
             /\ fields' = [NoFields EXCEPT !.name = l.name,
                                           !.priority = l.priority]
             /\ tokens' = l.tokens
    <3>1. l.kind \notin NoFieldLine
      BY <2>4 DEF EmergenciesRefused, Refused, Passed, NoFieldLine
    <3>2. l.name \in STRING /\ l.priority \in Int /\ l.tokens \in Seq(Token)
      BY <3>1, ConfigurationAssumption
    <3>3. fields' = [name |-> l.name, priority |-> l.priority, requests |-> <<>>]
      BY <2>4 DEF NoFields
    <3>4. fields' \in EmergencyType
      BY <3>2, <3>3 DEF EmergencyType, TypeName
    <3>5. Servable(fields'.requests)
      BY <3>3, ConfigurationAssumption DEF Servable
    <3>. QED
      BY <2>2, <2>4, <3>2, <3>3, <3>4, <3>5
  <2>. QED
    BY <2>1, <2>3, <2>4
<1>5. CASE UNCHANGED <<rescuers, types, fields, tokens>> /\ phase' # "requests"
  BY <1>5
<1>6. CASE SkipEnvLine \/ ReadEnvLine \/ EnvEndsEarly \/ CheckEnv
  BY <1>5, <1>6 DEF SkipEnvLine, ReadEnvLine, EnvEndsEarly, CheckEnv, EnvField,
     AfterField
<1>7. CASE RescuersEnd \/ EmergenciesEnd
  BY <1>5, <1>7 DEF RescuersEnd, EmergenciesEnd
<1>. QED
  BY <1>1, <1>2, <1>3, <1>4, <1>6, <1>7 DEF ConfigNext

-----------------------------------------------------------------------------
(***************************************************************************)
(* Where the threads are.                                                  *)
(***************************************************************************)
StopPlace == {"swap", "flag", "post", "close", "bell", "slots"}
MainPlace == {"parse", "set up", "died", "start", "sigwait", "join", "report",
              "clean up", "exited"}
ClockPlace == {"sleep", "last tick"}
UpdaterPlace == {"test", "drowsy", "asleep", "number", "lock", "round", "walked"}
ReceiverPlace == {"receive", "answer"}
WorkerPlace == {"pop", "open", "inner", "search", "wait", "asleep", "leave", "store"}
Place == StopPlace \cup {"fatal", "unborn", "loop", "dead"} \cup MainPlace
         \cup ClockPlace \cup UpdaterPlace \cup ReceiverPlace \cup WorkerPlace

PcType == pc \in [Thread \cup {"main"} -> Place]

LEMMA Threads ==
    /\ "clock" \in Thread /\ "updater" \in Thread /\ "receiver" \in Thread
    /\ "main" \notin Thread
    /\ \A w \in Worker : w \in Thread /\ w \notin {"clock", "updater", "receiver", "main"}
BY ServerLifeAssumption DEF Thread

LEMMA Places ==
    /\ StopPlace \subseteq Place /\ {"fatal", "unborn", "loop", "dead"} \subseteq Place
    /\ MainPlace \subseteq Place /\ ClockPlace \subseteq Place
    /\ UpdaterPlace \subseteq Place /\ ReceiverPlace \subseteq Place
    /\ WorkerPlace \subseteq Place
BY DEF Place

LEMMA Goes ==
    ASSUME PcType, NEW t \in Thread \cup {"main"}, NEW s \in Place, Goto(t, s)
    PROVE  /\ PcType' /\ pc'[t] = s
           /\ \A u \in Thread \cup {"main"} : u # t => pc'[u] = pc[u]
BY DEF PcType, Goto

LEMMA Wakes ==
    ASSUME PcType, NEW t \in Thread \cup {"main"}, NEW s \in Place,
           WakeUpdater(t, s), t = "updater" => s # "asleep"
    PROVE  /\ PcType' /\ pc'[t] = s
           /\ \A u \in Thread \cup {"main"} : u # t /\ u # "updater" => pc'[u] = pc[u]
           /\ t # "updater" => pc'["updater"] = IF pc["updater"] = "asleep" THEN "test"
                                                 ELSE pc["updater"]
BY Threads, Places DEF PcType, WakeUpdater, UpdaterPlace

LEMMA AfterPlace ==
    ASSUME NEW t \in {"main", "updater"}, NEW s \in StopPlace \ {"swap"}
    PROVE  After(t, s) \in StopPlace \cup {Caller(t)} /\ After(t, s) \in Place
BY Places DEF StopPlace, After, BySignal, Caller, MainPlace, UpdaterPlace

\* A step of t, which stops the server: the others stay where they are, or are
\* woken.
StopMove(t) ==
    /\ PcType'
    /\ pc[t] \in StopPlace \cup {"fatal"}
    /\ pc'[t] \in StopPlace \cup {Caller(t)}
    /\ \A u \in Thread \cup {"main"} : u # t =>
          \/ pc'[u] = pc[u]
          \/ pc[u] = "asleep" /\ pc'[u] = IF u \in Worker THEN "wait" ELSE "test"

LEMMA Stops ==
    ASSUME PcType, NEW t \in {"main", "updater"}, Stop(t)
    PROVE  StopMove(t)
<1>1. t \in Thread \cup {"main"} /\ Caller(t) \in Place
  BY Threads, Places DEF Caller, MainPlace, UpdaterPlace
<1>2. ASSUME NEW s \in StopPlace \cup {Caller(t)}, Goto(t, s),
             pc[t] \in StopPlace \cup {"fatal"}
      PROVE  StopMove(t)
  BY <1>1, <1>2, Goes, Places DEF StopMove
<1>3. CASE Fatal(t)
  BY <1>2, <1>3 DEF Fatal, StopPlace
<1>4. CASE Swap(t)
  BY <1>2, <1>4 DEF Swap, StopPlace
<1>5. CASE RaiseFlag(t)
  BY <1>2, <1>5, AfterPlace DEF RaiseFlag, StopPlace
<1>6. CASE PostStop(t)
  BY <1>2, <1>6, AfterPlace DEF PostStop, StopPlace
<1>7. CASE CloseQueue(t)
  BY <1>2, <1>7, AfterPlace DEF CloseQueue, StopPlace
<1>8. CASE RingBell(t)
  <2>1. After(t, "bell") = "slots" /\ pc[t] = "bell"
    BY <1>8 DEF RingBell, After
  <2>2. "slots" \in Place /\ "slots" \in StopPlace /\ "bell" \in StopPlace
    BY Places DEF StopPlace
  <2>3. WakeUpdater(t, "slots")
    BY <1>8, <2>1 DEF RingBell
  <2>4. /\ PcType' /\ pc'[t] = "slots"
        /\ \A u \in Thread \cup {"main"} : u # t /\ u # "updater" => pc'[u] = pc[u]
        /\ t # "updater" => pc'["updater"] = IF pc["updater"] = "asleep" THEN "test"
                                              ELSE pc["updater"]
    BY <1>1, <2>2, <2>3, Wakes
  <2>. QED
    BY <2>1, <2>2, <2>4, Threads DEF StopMove
<1>9. CASE WakeWorkers(t)
  <2>. DEFINE to == After(t, "slots")
  <2>1. to \in StopPlace \cup {Caller(t)} /\ to \in Place /\ pc[t] = "slots"
    BY <1>9, AfterPlace DEF WakeWorkers, StopPlace
  <2>2. pc' = [u \in Thread \cup {"main"} |->
                 IF u = t THEN to
                 ELSE IF u \in Worker /\ pc[u] = "asleep" THEN "wait" ELSE pc[u]]
    BY <1>9 DEF WakeWorkers, PcType
  <2>3. PcType'
    BY <2>1, <2>2, Places DEF PcType, WorkerPlace
  <2>4. /\ pc'[t] = to
        /\ \A u \in Thread \cup {"main"} : u # t =>
              pc'[u] = IF u \in Worker /\ pc[u] = "asleep" THEN "wait" ELSE pc[u]
    BY <1>1, <2>2
  <2>. QED
    BY <2>1, <2>3, <2>4 DEF StopMove, StopPlace
<1>. QED
  BY <1>3, <1>4, <1>5, <1>6, <1>7, <1>8, <1>9 DEF Stop

\* A step of the thread t that is no stop.
OtherMove(t) ==
    /\ PcType'
    /\ pc[t] \notin StopPlace \cup {"fatal", "unborn", "dead", "join"}
    /\ \A u \in Thread \cup {"main"} : u # t =>
          \/ pc'[u] = pc[u]
          \/ /\ pc[u] = "asleep" /\ pc'[u] \in {"inner", "leave", "test"}
             /\ pc'[u] = "test" <=> u = "updater"

LEMMA ClockMoves ==
    ASSUME PcType, Clock
    PROVE  OtherMove("clock")
<1>1. CASE Tick
  <2>1. PICK s \in {"loop", "dead"} : WakeUpdater("clock", s)
    BY <1>1 DEF Tick
  <2>2. s \in Place
    BY <2>1, Places
  <2>3. pc["clock"] \in {"sleep", "last tick"}
    BY <1>1 DEF Tick
  <2>. QED
    BY <2>1, <2>2, <2>3, Wakes, Threads DEF OtherMove, StopPlace
<1>2. CASE ClockLoop
  <2>1. PICK s \in {"sleep", "last tick"} : Goto("clock", s)
    BY <1>2 DEF ClockLoop, Look
  <2>2. s \in Place
    BY <2>1, Places DEF ClockPlace
  <2>3. pc["clock"] = "loop"
    BY <1>2 DEF ClockLoop, Look
  <2>. QED
    BY <2>1, <2>2, <2>3, Goes, Threads DEF OtherMove, StopPlace
<1>. QED
  BY <1>1, <1>2 DEF Clock

LEMMA UpdaterMoves ==
    ASSUME PcType, Updater
    PROVE  OtherMove("updater")
<1>1. CASE UpdaterRound
  <2>1. PICK S \in SUBSET {w \in Worker : pc[w] = "asleep"} :
           pc' = [t \in DOMAIN pc |-> IF t = "updater" THEN "loop"
                                      ELSE IF t \in S THEN "leave" ELSE pc[t]]
    BY <1>1 DEF UpdaterRound
  <2>2. {"loop", "leave"} \subseteq Place
    BY Places DEF WorkerPlace
  <2>3. pc["updater"] \in {"round", "walked"}
    BY <1>1 DEF UpdaterRound
  <2>. QED
    BY <2>1, <2>2, <2>3, Threads DEF OtherMove, StopPlace, PcType
<1>2. CASE ~UpdaterRound
  <2>1. PICK s \in UpdaterPlace \cup {"dead", "fatal"} : Goto("updater", s)
    BY <1>2 DEF Updater, UpdaterLoop, Look, UpdaterTest, UpdaterSleep, UpdaterNumber,
       UpdaterLock, UpdaterAstray, UpdaterPlace
  <2>2. s \in Place
    BY <2>1, Places
  <2>3. pc["updater"] \in UpdaterPlace \cup {"loop"}
    BY <1>2 DEF Updater, UpdaterLoop, Look, UpdaterTest, UpdaterSleep, UpdaterNumber,
       UpdaterLock, UpdaterAstray, UpdaterPlace
  <2>. QED
    BY <2>1, <2>2, <2>3, Goes, Threads DEF OtherMove, StopPlace, UpdaterPlace
<1>. QED
  BY <1>1, <1>2

LEMMA ReceiverMoves ==
    ASSUME PcType, Receiver
    PROVE  OtherMove("receiver")
<1>1. PICK s \in ReceiverPlace \cup {"loop", "dead"} : Goto("receiver", s)
  BY DEF Receiver, ReceiverLoop, Look, Receive, ReceiverAnswer, ReceiverPlace
<1>2. s \in Place
  BY <1>1, Places
<1>3. pc["receiver"] \in ReceiverPlace \cup {"loop"}
  BY DEF Receiver, ReceiverLoop, Look, Receive, ReceiverAnswer, ReceiverPlace
<1>. QED
  BY <1>1, <1>2, <1>3, Goes, Threads DEF OtherMove, StopPlace, ReceiverPlace

LEMMA WorkerMoves ==
    ASSUME PcType, NEW w \in Worker, Work(w)
    PROVE  OtherMove(w)
<1>1. CASE \E S \in SUBSET {v \in Worker : pc[v] = "asleep"} :
             /\ pc' = [t \in DOMAIN pc |->
                          IF t = w THEN "wait"
                          ELSE IF t \in S THEN "inner" ELSE pc[t]]
             /\ pc[w] = "search"
  <2>1. {"wait", "inner"} \subseteq Place
    BY Places DEF WorkerPlace
  <2>. QED
    BY <1>1, <2>1, Threads DEF OtherMove, StopPlace, PcType
<1>2. CASE \E s \in WorkerPlace \cup {"loop", "dead"} :
             Goto(w, s) /\ pc[w] \in WorkerPlace \cup {"loop"}
  <2>1. PICK s \in WorkerPlace \cup {"loop", "dead"} :
             Goto(w, s) /\ pc[w] \in WorkerPlace \cup {"loop"}
    BY <1>2
  <2>2. s \in Place
    BY <2>1, Places
  <2>. QED
    BY <2>1, <2>2, Goes, Threads DEF OtherMove, StopPlace, WorkerPlace
<1>. QED
  BY <1>1, <1>2 DEF Work, WorkerLoop, Look, WorkerPop, WorkerOpen, WorkerInner,
     WorkerSearch, WorkerWait, WorkerLeave, WorkerStore, WorkerPlace

\* A step of main that neither starts threads nor stops them.
MainStep == Parsed \/ SetUp \/ Sigwait \/ Join \/ Report \/ CleanUp

LEMMA MainMoves ==
    ASSUME PcType, MainStep
    PROVE  PcType' /\ \A u \in Thread : pc'[u] = pc[u]
<1>1. PICK s \in MainPlace \cup {"flag"} : Goto("main", s)
  BY DEF MainStep, Parsed, SetUp, Sigwait, Join, Report, CleanUp, MainPlace
<1>2. s \in Place
  BY <1>1, Places DEF StopPlace
<1>. QED
  BY <1>1, <1>2, Goes, Threads

LEMMA StartMoves ==
    ASSUME PcType, StartThread
    PROVE  /\ PcType' /\ pc["main"] = "start"
           /\ pc'["main"] \in {"start", "fatal", "sigwait"}
           /\ \A u \in Thread :
                 \/ pc'[u] = pc[u]
                 \/ pc[u] = "unborn" /\ pc'[u] = "loop"
<1>1. {"start", "fatal", "sigwait", "loop"} \subseteq Place
  BY Places DEF MainPlace
<1>2. pc["main"] = "start"
  BY DEF StartThread
<1>3. CASE \E s \in {"fatal", "sigwait"} : Goto("main", s)
  <2>1. PICK s \in {"fatal", "sigwait"} : Goto("main", s)
    BY <1>3
  <2>2. /\ PcType' /\ pc'["main"] = s
        /\ \A u \in Thread \cup {"main"} : u # "main" => pc'[u] = pc[u]
    BY <1>1, <2>1, Goes
  <2>3. \A u \in Thread : pc'[u] = pc[u]
    BY <2>2, Threads
  <2>. QED
    BY <1>2, <2>1, <2>2, <2>3
<1>4. CASE \E t \in NextThreads \ Started : Goto(t, "loop")
  <2>1. PICK t \in NextThreads \ Started : Goto(t, "loop")
    BY <1>4
  <2>2. t \in Thread
    BY <2>1, Threads DEF NextThreads
  <2>3. pc[t] = "unborn"
    BY <2>1, <2>2 DEF Started
  <2>4. /\ PcType' /\ pc'[t] = "loop"
        /\ \A u \in Thread \cup {"main"} : u # t => pc'[u] = pc[u]
    BY <1>1, <2>1, <2>2, Goes
  <2>5. pc'["main"] = "start"
    BY <1>2, <2>2, <2>4, Threads
  <2>6. \A u \in Thread :
           \/ pc'[u] = pc[u]
           \/ pc[u] = "unborn" /\ pc'[u] = "loop"
    BY <2>3, <2>4
  <2>. QED
    BY <1>2, <2>4, <2>5, <2>6
<1>. QED
  BY <1>3, <1>4 DEF StartThread

\* What each step does to the places.
LEMMA Moves ==
    ASSUME PcType, [Next]_vars
    PROVE  \/ UNCHANGED pc
           \/ StartThread
           \/ MainStep
           \/ \E t \in {"main", "updater"} : Stop(t) /\ StopMove(t)
           \/ Clock /\ OtherMove("clock")
           \/ Updater /\ OtherMove("updater")
           \/ Receiver /\ OtherMove("receiver")
           \/ \E w \in Worker : Work(w) /\ OtherMove(w)
<1>1. CASE Parse \/ ClientSend \/ UNCHANGED vars
  BY <1>1 DEF Parse, ClientSend, vars, lifeVars
<1>2. \A t \in {"main", "updater"} : Stop(t) => StopMove(t)
  BY Stops
<1>3. \A w \in Worker : Work(w) => OtherMove(w)
  BY WorkerMoves
<1>. QED
  BY <1>1, <1>2, <1>3, ClockMoves, UpdaterMoves, ReceiverMoves
     DEF Next, Main, MainStep

LEMMA PcKept ==
    ASSUME PcType, [Next]_vars
    PROVE  PcType'
BY Moves, MainMoves, StartMoves DEF PcType, StopMove, OtherMove

-----------------------------------------------------------------------------
(***************************************************************************)
(* The clock and the updater.                                              *)
(***************************************************************************)
\* The updater goes to sleep only when it has seen that there is no tick.
Handshake == pc["updater"] \in {"drowsy", "asleep"} => ~tick

\* Only the clock and the updater touch the tick, and nobody else takes the
\* updater away but by waking or starting it.
LEMMA ClockLeftAlone ==
    ASSUME PcType, [Next]_vars, ~Clock, ~Updater
    PROVE  /\ UNCHANGED <<clockVars, cycle, ticksFile>>
           /\ \/ pc'["updater"] = pc["updater"]
              \/ pc["updater"] = "asleep" /\ pc'["updater"] = "test"
              \/ pc["updater"] = "unborn" /\ pc'["updater"] = "loop"
              \/ pc["updater"] \in InRound /\ pc'["updater"] \in InRound
<1>1. UNCHANGED <<clockVars, cycle, ticksFile>>
  <2>1. CASE \E t : Stop(t)
    BY <2>1 DEF Stop, Fatal, Swap, RaiseFlag, PostStop, CloseQueue, RingBell,
       WakeWorkers
  <2>2. CASE Receiver
    BY <2>2 DEF Receiver, ReceiverLoop, Look, Receive, ReceiverAnswer
  <2>3. CASE \E w \in Worker : Work(w)
    BY <2>3 DEF Work, WorkerLoop, Look, WorkerPop, WorkerOpen, WorkerInner,
       WorkerSearch, WorkerWait, WorkerLeave, WorkerStore
  <2>4. CASE MainStep \/ StartThread \/ Parse
    BY <2>4 DEF MainStep, Parsed, SetUp, Sigwait, Join, Report, CleanUp, StartThread,
       Parse, lifeVars
  <2>5. CASE ClientSend \/ UNCHANGED vars
    BY <2>5 DEF ClientSend, vars, lifeVars
  <2>. QED
    BY <2>1, <2>2, <2>3, <2>4, <2>5 DEF Next, Main, MainStep
<1>2. \/ pc'["updater"] = pc["updater"]
      \/ pc["updater"] = "asleep" /\ pc'["updater"] = "test"
      \/ pc["updater"] = "unborn" /\ pc'["updater"] = "loop"
      \/ pc["updater"] \in InRound /\ pc'["updater"] \in InRound
  <2>1. StopPlace \cup {"fatal", Caller("updater")} \subseteq InRound
    BY DEF StopPlace, InRound, Caller
  <2>2. CASE \E t \in {"main", "updater"} : StopMove(t)
    BY <2>1, <2>2, Threads DEF StopMove
  <2>3. CASE OtherMove("receiver") \/ \E w \in Worker : OtherMove(w)
    BY <2>3, Threads DEF OtherMove
  <2>4. CASE MainStep \/ StartThread
    BY <2>4, MainMoves, StartMoves, Threads
  <2>. QED
    BY <2>2, <2>3, <2>4, Moves
<1>. QED
  BY <1>1, <1>2

LEMMA HandshakeKept ==
    ASSUME PcType, Handshake, [Next]_vars
    PROVE  Handshake'
<1>. USE DEF Handshake
<1>1. CASE Tick
  BY <1>1, Threads DEF Tick, ClockFree, WakeUpdater, PcType
<1>2. CASE ClockLoop
  BY <1>2, Threads DEF ClockLoop, Look, Goto, PcType, clockVars
<1>3. CASE UpdaterTest \/ UpdaterSleep
  BY <1>3, Threads DEF UpdaterTest, UpdaterSleep, Goto, PcType, clockVars
<1>4. CASE UpdaterRound
  BY <1>4, Threads DEF UpdaterRound, PcType, clockVars
<1>5. CASE UpdaterLoop \/ UpdaterNumber \/ UpdaterLock \/ UpdaterAstray
  BY <1>5, Threads DEF UpdaterLoop, Look, UpdaterNumber, UpdaterLock, UpdaterAstray,
     Goto, PcType, clockVars
<1>6. CASE ~Clock /\ ~Updater
  BY <1>6, ClockLeftAlone DEF InRound, clockVars
<1>. QED
  BY <1>1, <1>2, <1>3, <1>4, <1>5, <1>6 DEF Clock, Updater

\* The updater has read the count of a round that it has not written yet.
Unwritten == pc["updater"] \in InRound \cup {"lock"}

\* It has taken the tick of a round, and has not read the count.
Unnumbered == pc["updater"] = "number"

\* A tick that is taken is newer than the round before the last one, and one
\* that comes while a round is on its way is newer than the last one too.
RoundsInv ==
    /\ tickCount \in Nat /\ cycle \in Nat /\ ticksFile \in Seq(Nat)
    /\ RoundsNumbered
    /\ tick \/ Unnumbered =>
          /\ tickCount > 0
          /\ \A i \in DOMAIN ticksFile :
                i < Len(ticksFile) => ticksFile[i] < tickCount
    /\ tick /\ (Unnumbered \/ Unwritten) =>
          \A i \in DOMAIN ticksFile : ticksFile[i] < tickCount
    /\ Unwritten =>
          /\ cycle \in 1..tickCount
          /\ \A i \in DOMAIN ticksFile :
                /\ ticksFile[i] <= cycle
                /\ i < Len(ticksFile) => ticksFile[i] < cycle

\* Nothing that counts has changed, or the updater has only been idle.
LEMMA RoundsLeftAlone ==
    ASSUME RoundsInv, UNCHANGED <<clockVars, cycle, ticksFile>>,
           Unnumbered' => Unnumbered, Unwritten' => Unwritten
    PROVE  RoundsInv'
BY DEF RoundsInv, RoundsNumbered, clockVars

LEMMA TickCounts ==
    ASSUME PcType, RoundsInv, Tick
    PROVE  RoundsInv'
<1>1. UNCHANGED <<cycle, ticksFile>> /\ tickCount' = tickCount + 1
  BY DEF Tick
<1>2. (Unnumbered' <=> Unnumbered) /\ (Unwritten' <=> Unwritten)
  BY Threads DEF Tick, WakeUpdater, PcType, Unnumbered, Unwritten, InRound
<1>3. tickCount \in Nat /\ \A i \in DOMAIN ticksFile : ticksFile[i] \in 1..tickCount
  BY DEF RoundsInv, RoundsNumbered
<1>4. \A i \in DOMAIN ticksFile : ticksFile[i] < tickCount' /\ ticksFile[i] \in 1..tickCount'
  BY <1>1, <1>3
<1>5. cycle \in 1..tickCount => cycle \in 1..tickCount'
  BY <1>1, <1>3
<1>. QED
  BY <1>1, <1>2, <1>3, <1>4, <1>5 DEF RoundsInv, RoundsNumbered

LEMMA RoundWritten ==
    ASSUME PcType, RoundsInv, UpdaterRound
    PROVE  RoundsInv'
<1>. DEFINE n == Len(ticksFile) + 1
<1>1. /\ Unwritten /\ ~Unwritten' /\ ~Unnumbered'
      /\ UNCHANGED <<clockVars, cycle>>
      /\ ticksFile' = Append(ticksFile, cycle)
  BY Threads DEF UpdaterRound, Unwritten, Unnumbered, InRound, PcType
<1>2. /\ tickCount \in Nat /\ cycle \in 1..tickCount /\ ticksFile \in Seq(Nat)
      /\ cycle \in Nat
  BY <1>1 DEF RoundsInv
<1>3. /\ DOMAIN ticksFile' = DOMAIN ticksFile \cup {n} /\ ticksFile'[n] = cycle
      /\ \A i \in DOMAIN ticksFile : ticksFile'[i] = ticksFile[i]
      /\ \A i \in DOMAIN ticksFile : i \in Nat /\ i < n
      /\ Len(ticksFile') = n /\ n \in Nat
      /\ ticksFile' \in Seq(Nat)
  BY <1>1, <1>2
<1>4. \A i \in DOMAIN ticksFile :
         /\ ticksFile[i] <= cycle
         /\ i + 2 <= n => ticksFile[i] < cycle
         /\ ticksFile[i] \in 1..tickCount
  BY <1>1, <1>3 DEF RoundsInv, RoundsNumbered
<1>5. RoundsNumbered'
  <2>1. \A i \in DOMAIN ticksFile' : ticksFile'[i] \in 1..tickCount'
    BY <1>1, <1>2, <1>3, <1>4 DEF clockVars
  <2>2. ASSUME NEW i \in DOMAIN ticksFile', NEW j \in DOMAIN ticksFile'
        PROVE  /\ i <= j => ticksFile'[i] <= ticksFile'[j]
               /\ i + 2 <= j => ticksFile'[i] < ticksFile'[j]
    <3>1. CASE i \in DOMAIN ticksFile /\ j \in DOMAIN ticksFile
      BY <1>3, <3>1 DEF RoundsInv, RoundsNumbered
    <3>2. CASE j = n /\ i \in DOMAIN ticksFile
      BY <1>3, <1>4, <3>2
    <3>3. CASE i = n
      BY <1>2, <1>3, <2>2, <3>3
    <3>. QED
      BY <1>3, <3>1, <3>2, <3>3
  <2>. QED
    BY <2>1, <2>2 DEF RoundsNumbered
<1>6. tick' => /\ tickCount' > 0
               /\ \A i \in DOMAIN ticksFile' :
                     i < Len(ticksFile') => ticksFile'[i] < tickCount'
  BY <1>1, <1>3 DEF RoundsInv, clockVars
<1>. QED
  BY <1>1, <1>2, <1>3, <1>5, <1>6 DEF RoundsInv, clockVars

LEMMA RoundsKept ==
    ASSUME PcType, RoundsInv, [Next]_vars
    PROVE  RoundsInv'
<1>1. CASE Tick
  BY <1>1, TickCounts
<1>2. CASE UpdaterRound
  BY <1>2, RoundWritten
<1>3. CASE UpdaterTest /\ tick' # tick
  <2>1. /\ tick /\ ~tick' /\ Unnumbered' /\ ~Unwritten'
        /\ UNCHANGED <<tickCount, cycle, ticksFile>>
    BY <1>3, Threads DEF UpdaterTest, Goto, PcType, Unnumbered, Unwritten, InRound
  <2>. QED
    BY <2>1 DEF RoundsInv, RoundsNumbered
<1>4. CASE UpdaterTest /\ tick' = tick
  <2>1. /\ ~Unnumbered' /\ ~Unwritten'
        /\ UNCHANGED <<clockVars, cycle, ticksFile>>
    BY <1>4, Threads DEF UpdaterTest, Goto, PcType, Unnumbered, Unwritten, InRound,
       clockVars
  <2>. QED
    BY <2>1, RoundsLeftAlone
<1>5. CASE UpdaterNumber
  <2>1. /\ Unnumbered /\ ~Unnumbered' /\ Unwritten' /\ cycle' = tickCount
        /\ UNCHANGED <<clockVars, ticksFile>>
    BY <1>5, Threads DEF UpdaterNumber, Goto, PcType, Unnumbered, Unwritten, InRound
  <2>2. /\ tickCount \in Nat /\ tickCount > 0 /\ cycle' \in 1..tickCount'
        /\ \A i \in DOMAIN ticksFile : ticksFile[i] <= tickCount
    BY <2>1 DEF RoundsInv, RoundsNumbered, clockVars
  <2>. QED
    BY <2>1, <2>2 DEF RoundsInv, RoundsNumbered, clockVars
<1>6. CASE ClockLoop \/ UpdaterLoop \/ UpdaterSleep \/ UpdaterLock \/ UpdaterAstray
  <2>1. /\ Unnumbered' => Unnumbered
        /\ Unwritten' => Unwritten
        /\ UNCHANGED <<clockVars, cycle, ticksFile>>
    BY <1>6, Threads DEF ClockLoop, Look, UpdaterLoop, UpdaterSleep, UpdaterLock,
       UpdaterAstray, Goto, PcType, Unnumbered, Unwritten, InRound
  <2>. QED
    BY <2>1, RoundsLeftAlone
<1>7. CASE ~Clock /\ ~Updater
  BY <1>7, ClockLeftAlone, RoundsLeftAlone DEF Unnumbered, Unwritten, InRound
<1>. QED
  BY <1>1, <1>2, <1>3, <1>4, <1>5, <1>6, <1>7 DEF Clock, Updater

-----------------------------------------------------------------------------
(***************************************************************************)
(* The end.                                                                *)
(***************************************************************************)
Ended == {"unborn", "dead"}

\* Threads exist only while main waits for them, and a server that has not
\* failed has nothing to say after it has ended its log.
EndInv ==
    /\ pc["main"] \in {"parse", "set up"} => \A t \in Thread : pc[t] = "unborn"
    /\ pc["main"] \in {"report", "clean up", "exited"} =>
          \A t \in Thread : pc[t] \in Ended
    /\ logEnded \in BOOLEAN /\ logStuck \in Nat
    /\ ~logEnded => logStuck = 0
    /\ exitCode = "success" /\ logEnded =>
          \/ pc["main"] \in {"swap", "clean up", "exited", "died"}
          \/ pc["updater"] = "swap"
    /\ exitCode = "success" /\ pc["main"] \in {"clean up", "exited"} => logStuck = 0

\* What has not been started, or has ended, stays so.
LEMMA EndedStays ==
    ASSUME PcType, [Next]_vars, ~StartThread, NEW u \in Thread, pc[u] \in Ended
    PROVE  pc'[u] = pc[u]
<1>. USE DEF Ended
<1>1. \A t \in {"main", "updater"} : StopMove(t) => pc'[u] = pc[u]
  BY Threads DEF StopMove, StopPlace
<1>2. \A t \in Thread : OtherMove(t) => pc'[u] = pc[u]
  BY DEF OtherMove
<1>3. MainStep => pc'[u] = pc[u]
  BY MainMoves
<1>. QED
  BY <1>1, <1>2, <1>3, Moves, Threads

\* A line of the log from a thread that lives.
LEMMA LoggedOn ==
    ASSUME EndInv, Log(1)
    PROVE  /\ UNCHANGED logEnded /\ logStuck' \in Nat
           /\ ~logEnded => logStuck' = 0
<1>1. logStuck \in Nat /\ logEnded \in BOOLEAN /\ (~logEnded => logStuck = 0)
  BY DEF EndInv
<1>2. UNCHANGED logEnded
  BY DEF Log
<1>3. logStuck' = IF logEnded THEN logStuck + 1 ELSE logStuck
  BY DEF Log
<1>. QED
  BY <1>1, <1>2, <1>3

LEMMA LoggedLast ==
    ASSUME EndInv, LogLast
    PROVE  logEnded' = TRUE /\ logStuck' \in Nat
<1>1. logStuck \in Nat
  BY DEF EndInv
<1>2. logEnded' = TRUE /\ logStuck' = IF logEnded THEN logStuck + 1 ELSE logStuck
  BY DEF LogLast
<1>. QED
  BY <1>1, <1>2

\* Only a fatal error, and main's own end, end the log.
LEMMA LogFrame ==
    ASSUME PcType, EndInv, [Next]_vars, ~Report, ~Parsed,
           ~(\E t \in {"main", "updater"} : Fatal(t))
    PROVE  /\ UNCHANGED logEnded /\ logStuck' \in Nat
           /\ ~logEnded => logStuck' = 0
           /\ exitCode' \in {exitCode, "failure"}
<1>1. CASE \E t \in {"main", "updater"} : Stop(t)
  BY <1>1 DEF Stop, Swap, RaiseFlag, PostStop, CloseQueue, RingBell, WakeWorkers,
     logVars, stopVars, EndInv
<1>2. CASE Clock \/ Updater
  BY <1>2, LoggedOn DEF Clock, ClockLoop, Look, Tick, Updater, UpdaterLoop,
     UpdaterTest, UpdaterSleep, UpdaterNumber, UpdaterLock, UpdaterAstray,
     UpdaterRound, logVars, stopVars, EndInv
<1>3. CASE Receiver \/ \E w \in Worker : Work(w)
  BY <1>3, LoggedOn DEF Receiver, ReceiverLoop, Look, Receive, ReceiverAnswer, Work,
     WorkerLoop, WorkerPop, WorkerOpen, WorkerInner, WorkerSearch, WorkerWait,
     WorkerLeave, WorkerStore, logVars, stopVars, EndInv
<1>4. CASE SetUp \/ Join \/ CleanUp \/ Sigwait \/ StartThread
  BY <1>4, LoggedOn DEF SetUp, Join, CleanUp, Sigwait, StartThread, logVars, stopVars,
     EndInv
<1>5. CASE Parse \/ ClientSend \/ UNCHANGED vars
  BY <1>5 DEF Parse, ClientSend, vars, lifeVars, logVars, stopVars, EndInv
<1>. QED
  BY <1>1, <1>2, <1>3, <1>4, <1>5 DEF Next, Main

\* When all have ended only main and the clients make steps.
LEMMA OnlyMain ==
    ASSUME PcType, [Next]_vars, \A t \in Thread : pc[t] \in Ended,
           pc["main"] \in {"clean up", "exited"}
    PROVE  UNCHANGED logVars /\ pc'["main"] \in {"clean up", "exited", "died"}
<1>1. \A t \in Thread : ~OtherMove(t) /\ ~StopMove("updater") /\ ~StopMove("main")
  BY Threads DEF OtherMove, StopMove, StopPlace, Ended
<1>2. ~StartThread /\ ~Parsed /\ ~SetUp /\ ~Sigwait /\ ~Join /\ ~Report /\ ~Parse
  BY DEF StartThread, Parsed, SetUp, Sigwait, Join, Joined, Report, Parse
<1>3. CASE CleanUp
  BY <1>3 DEF CleanUp, Goto, PcType
<1>4. CASE ClientSend \/ UNCHANGED vars
  BY <1>4 DEF ClientSend, vars, lifeVars
<1>5. ~Clock /\ ~Updater /\ ~Receiver /\ (\A w \in Worker : ~Work(w))
      /\ ~Stop("main") /\ ~Stop("updater")
  BY <1>1, ClockMoves, UpdaterMoves, ReceiverMoves, WorkerMoves, Stops, Threads
<1>. QED
  BY <1>2, <1>3, <1>4, <1>5 DEF Next, Main

LEMMA ThreadsGone ==
    ASSUME PcType, EndInv, [Next]_vars
    PROVE  /\ pc'["main"] \in {"parse", "set up"} => \A t \in Thread : pc'[t] = "unborn"
           /\ pc'["main"] \in {"report", "clean up", "exited"} =>
                 \A t \in Thread : pc'[t] \in Ended
<1>. DEFINE Late == {"report", "clean up", "exited"}
            Early == {"parse", "set up"}
<1>1. CASE StartThread
  BY <1>1, StartMoves
<1>2. CASE ~StartThread /\ pc'["main"] = pc["main"]
  BY <1>2, EndedStays DEF EndInv, Ended
<1>3. CASE MainStep
  <2>1. \A u \in Thread : pc'[u] = pc[u]
    BY <1>3, MainMoves
  <2>2. pc["main"] \in {"join"} => \A t \in Thread : Joined => pc[t] \in Ended
    BY DEF Joined, Started, Ended
  <2>3. pc'["main"] \in Early => pc["main"] \in Early
    BY <1>3 DEF MainStep, Parsed, SetUp, Sigwait, Join, Report, CleanUp, Goto, PcType
  <2>4. pc'["main"] \in Late =>
           \/ pc["main"] \in Early \cup Late
           \/ pc["main"] = "join" /\ Joined
    BY <1>3 DEF MainStep, Parsed, SetUp, Sigwait, Join, Joined, Report, CleanUp, Goto,
       PcType
  <2>. QED
    BY <2>1, <2>2, <2>3, <2>4 DEF EndInv, Ended
<1>4. CASE StopMove("main")
  BY <1>4 DEF StopMove, StopPlace, Caller
<1>5. CASE /\ ~StartThread
           /\ StopMove("updater") \/ \E t \in Thread : OtherMove(t)
  <2>1. pc'["main"] = pc["main"] \/ pc["main"] = "asleep"
    BY <1>5, Threads DEF StopMove, OtherMove
  <2>2. pc["main"] = "asleep" => pc'["main"] \notin Early \cup Late
    BY <1>5, Threads DEF StopMove, OtherMove
  <2>. QED
    BY <1>2, <1>5, <2>1, <2>2
<1>6. CASE UNCHANGED pc
  BY <1>6 DEF EndInv
<1>. QED
  BY <1>1, <1>3, <1>4, <1>5, <1>6, Moves, Threads

LEMMA ConfigStays ==
    ASSUME ConfigInv, [Next]_vars
    PROVE  ConfigInv'
<1>1. CASE Parse
  BY <1>1, ConfigKept DEF Parse
<1>2. CASE UNCHANGED configVars
  BY <1>2 DEF configVars, ConfigInv, ConfigType, NewFields, CatalogueSound, Distinct,
     Servable
<1>3. CASE \E t : Stop(t)
  BY <1>2, <1>3 DEF Stop, Fatal, Swap, RaiseFlag, PostStop, CloseQueue, RingBell,
     WakeWorkers
<1>4. CASE Clock \/ Updater
  BY <1>2, <1>4 DEF Clock, ClockLoop, Look, Tick, Updater, UpdaterLoop, UpdaterTest,
     UpdaterSleep, UpdaterNumber, UpdaterLock, UpdaterAstray, UpdaterRound
<1>5. CASE Receiver \/ \E w \in Worker : Work(w)
  BY <1>2, <1>5 DEF Receiver, ReceiverLoop, Look, Receive, ReceiverAnswer, Work,
     WorkerLoop, WorkerPop, WorkerOpen, WorkerInner, WorkerSearch, WorkerWait,
     WorkerLeave, WorkerStore
<1>6. CASE MainStep \/ StartThread
  BY <1>2, <1>6 DEF MainStep, Parsed, SetUp, Join, Report, CleanUp, Sigwait,
     StartThread
<1>7. CASE ClientSend \/ UNCHANGED vars
  BY <1>2, <1>7 DEF ClientSend, vars
<1>. QED
  BY <1>1, <1>3, <1>4, <1>5, <1>6, <1>7 DEF Next, Main, MainStep

\* main is in its last steps only after its report, ...
LEMMA ClosingComes ==
    ASSUME PcType, EndInv, [Next]_vars, ~Report,
           pc["main"] \notin {"clean up", "exited"}
    PROVE  pc'["main"] \notin {"clean up", "exited"}
<1>1. CASE MainStep
  BY <1>1 DEF MainStep, Parsed, SetUp, Sigwait, Join, CleanUp, Goto, PcType
<1>2. CASE StartThread
  BY <1>2, StartMoves
<1>3. CASE StopMove("main")
  BY <1>3 DEF StopMove, StopPlace, Caller
<1>4. CASE StopMove("updater") \/ \E t \in Thread : OtherMove(t)
  BY <1>4, Threads DEF StopMove, OtherMove
<1>5. CASE UNCHANGED pc
  BY <1>5
<1>. QED
  BY <1>1, <1>2, <1>3, <1>4, <1>5, Moves, Threads

\* ... and who has died stays so ...
LEMMA DeadMain ==
    ASSUME PcType, [Next]_vars, pc["main"] = "died"
    PROVE  pc'["main"] = "died"
<1>1. ~MainStep /\ ~StartThread /\ ~StopMove("main")
  BY DEF MainStep, Parsed, SetUp, Sigwait, Join, Joined, Report, CleanUp, StartThread,
     StopMove, StopPlace
<1>2. CASE StopMove("updater") \/ \E t \in Thread : OtherMove(t)
  BY <1>2, Threads DEF StopMove, OtherMove
<1>3. CASE UNCHANGED pc
  BY <1>3
<1>. QED
  BY <1>1, <1>2, <1>3, Moves, Threads

\* ... and who leaves "swap" has set the exit code.
LEMMA SwapGoes ==
    ASSUME PcType, [Next]_vars, NEW t \in {"main", "updater"}, pc[t] = "swap",
           pc'[t] # "swap"
    PROVE  exitCode' = "failure"
<1>1. CASE Stop(t)
  BY <1>1 DEF Stop, Fatal, Swap, RaiseFlag, PostStop, CloseQueue, RingBell,
     WakeWorkers
<1>2. ~MainStep \/ t # "main"
  BY DEF MainStep, Parsed, SetUp, Sigwait, Join, Joined, Report, CleanUp
<1>3. CASE MainStep
  BY <1>2, <1>3, MainMoves, Threads
<1>4. CASE StartThread
  BY <1>4, StartMoves, Threads
<1>5. CASE \E u \in {"main", "updater"} : u # t /\ StopMove(u)
  BY <1>5, Threads DEF StopMove
<1>6. CASE \E u \in Thread : OtherMove(u)
  BY <1>6, Threads DEF OtherMove, StopPlace
<1>. QED
  BY <1>1, <1>3, <1>4, <1>5, <1>6, Moves, Threads

LEMMA EndKept ==
    ASSUME PcType, EndInv, [Next]_vars
    PROVE  EndInv'
<1>. DEFINE Swapping == pc["main"] = "swap" \/ pc["updater"] = "swap"
            Closing == pc["main"] \in {"clean up", "exited"}
            Died == pc["main"] = "died"
<1>1. /\ logEnded' \in BOOLEAN /\ logStuck' \in Nat /\ (~logEnded' => logStuck' = 0)
      /\ exitCode' = "success" /\ logEnded' => (Swapping \/ Closing \/ Died)'
      /\ exitCode' = "success" /\ Closing' => logStuck' = 0
  <2>1. CASE Closing
    <3>1. UNCHANGED logVars /\ (Closing \/ Died)'
      BY <2>1, OnlyMain DEF EndInv
    <3>2. exitCode' = "success" => exitCode = "success"
      <4>1. ~Parsed /\ ~(\E t \in {"main", "updater"} : Stop(t))
        BY <2>1, Stops, Threads DEF EndInv, Ended, StopMove, StopPlace, Parsed
      <4>. QED
        BY <4>1 DEF Next, Main, Parse, SetUp, StartThread, Join, Report, CleanUp,
           Clock, ClockLoop, Look, Tick, Updater, UpdaterLoop, UpdaterTest,
           UpdaterSleep, UpdaterNumber, UpdaterLock, UpdaterAstray, UpdaterRound,
           Receiver, ReceiverLoop, Receive, ReceiverAnswer, Work, WorkerLoop,
           WorkerPop, WorkerOpen, WorkerInner, WorkerSearch, WorkerWait, WorkerLeave,
           WorkerStore, Sigwait, ClientSend, stopVars, vars, lifeVars
    <3>. QED
      BY <2>1, <3>1, <3>2 DEF EndInv, logVars
  <2>2. CASE ~Closing /\ Report
    <3>1. /\ pc["main"] = "report" /\ pc'["main"] = "clean up" /\ UNCHANGED exitCode
          /\ logEnded' = TRUE
          /\ logStuck' = IF logEnded THEN logStuck + CloseLines ELSE logStuck
      BY <2>2, Threads DEF Report, Goto, PcType, stopVars
    <3>2. pc["updater"] # "swap"
      BY <3>1, Threads DEF EndInv, Ended
    <3>3. exitCode = "success" => ~logEnded
      BY <3>1, <3>2 DEF EndInv
    <3>4. logEnded \in BOOLEAN /\ logStuck \in Nat /\ (~logEnded => logStuck = 0)
      BY DEF EndInv
    <3>5. logStuck' \in Nat /\ (~logEnded => logStuck' = 0)
      <4>1. logStuck' = IF logEnded THEN logStuck + CloseLines ELSE logStuck
        BY <3>1
      <4>2. CloseLines \in Nat
        BY DEF CloseLines
      <4>3. CASE logEnded
        BY <3>4, <4>1, <4>2, <4>3
      <4>4. CASE ~logEnded
        BY <3>4, <4>1, <4>4
      <4>. QED
        BY <3>4, <4>3, <4>4
    <3>. QED
      BY <3>1, <3>3, <3>5
  <2>3. CASE ~Closing /\ Parsed
    <3>1. pc["main"] = "parse" /\ (exitCode' = "success" => UNCHANGED logVars)
      BY <2>3 DEF Parsed
    <3>2. logEnded' \in BOOLEAN /\ logStuck' \in Nat /\ (~logEnded' => logStuck' = 0)
      <4>1. logEnded \in BOOLEAN /\ logStuck \in Nat /\ (~logEnded => logStuck = 0)
        BY DEF EndInv
      <4>2. LogLast \/ UNCHANGED <<logEnded, logStuck>>
        BY <2>3 DEF Parsed, logVars
      <4>3. CASE LogLast
        BY <4>1, <4>3, LoggedLast
      <4>. QED
        BY <4>1, <4>2, <4>3
    <3>3. exitCode' = "success" => exitCode = "success"
      BY <2>3 DEF Parsed
    <3>4. ~Closing' /\ pc["updater"] = "unborn"
      BY <2>3, <3>1, Threads DEF Parsed, Goto, PcType, EndInv
    <3>. QED
      BY <3>1, <3>2, <3>3, <3>4 DEF EndInv, logVars
  <2>4. CASE ~Closing /\ \E t \in {"main", "updater"} : Fatal(t)
    <3>1. PICK t \in {"main", "updater"} : Fatal(t)
      BY <2>4
    <3>2. pc'[t] = "swap" /\ ~Closing'
      BY <2>4, <3>1, Threads DEF Fatal, Goto, PcType
    <3>3. logEnded' = TRUE /\ logStuck' \in Nat
      BY <3>1, LoggedLast DEF Fatal
    <3>. QED
      BY <3>1, <3>2, <3>3
  <2>5. CASE /\ ~Closing /\ ~Report /\ ~Parsed
             /\ ~(\E t \in {"main", "updater"} : Fatal(t))
    <3>1. /\ UNCHANGED logEnded /\ logStuck' \in Nat /\ (~logEnded => logStuck' = 0)
          /\ exitCode' \in {exitCode, "failure"}
      BY <2>5, LogFrame
    <3>2. ~Closing'
      BY <2>5, ClosingComes
    <3>3. Swapping /\ ~Swapping' => exitCode' = "failure"
      BY <2>5, SwapGoes
    <3>4. Died => Died'
      BY DeadMain
    <3>5. "success" # "failure"
      OBVIOUS
    <3>. QED
      BY <3>1, <3>2, <3>3, <3>4, <3>5, <2>5 DEF EndInv
  <2>. QED
    BY <2>1, <2>2, <2>3, <2>4, <2>5
<1>. QED
  BY <1>1, ThreadsGone DEF EndInv

-----------------------------------------------------------------------------
(***************************************************************************)
(* The theorems.                                                           *)
(***************************************************************************)
LifeInv == ConfigInv /\ PcType /\ Handshake /\ RoundsInv /\ EndInv

LEMMA LifeInductive == Spec => []LifeInv
<1>1. Init => LifeInv
  <2>. SUFFICES ASSUME Init PROVE LifeInv
    OBVIOUS
  <2>1. ConfigInv
    BY ConfigStarts DEF Init
  <2>2. pc = [t \in Thread \cup {"main"} |-> IF t = "main" THEN "parse" ELSE "unborn"]
    BY DEF Init
  <2>3. /\ PcType /\ pc["main"] = "parse"
        /\ \A t \in Thread : pc[t] = "unborn"
    BY <2>2, Threads, Places DEF PcType, MainPlace
  <2>4. Handshake /\ ~Unwritten /\ ~Unnumbered
    BY <2>3, Threads DEF Handshake, Unwritten, Unnumbered, InRound
  <2>5. RoundsInv
    BY <2>4 DEF Init, RoundsInv, RoundsNumbered
  <2>6. EndInv
    BY <2>3 DEF Init, EndInv
  <2>. QED
    BY <2>1, <2>3, <2>4, <2>5, <2>6 DEF LifeInv
<1>2. LifeInv /\ [Next]_vars => LifeInv'
  <2>. SUFFICES ASSUME LifeInv, [Next]_vars PROVE LifeInv'
    OBVIOUS
  <2>1. ConfigInv'
    BY ConfigStays DEF LifeInv
  <2>. QED
    BY <2>1, PcKept, HandshakeKept, RoundsKept, EndKept DEF LifeInv
<1>. QED
  BY <1>1, <1>2, PTL DEF Spec

\* Files that are parsed to their end give a catalogue without duplicates and
\* with twins enough for every request (parse_emergencies.c:114-138,
\* parse_rescuers.c:119).
THEOREM CatalogueIsSound == Spec => []CatalogueSound
<1>1. LifeInv => CatalogueSound
  BY DEF LifeInv, ConfigInv
<1>. QED
  BY <1>1, LifeInductive, PTL

\* The updater never sleeps while a tick waits for it (thread_clock.c:9-12,
\* thread_updater.c:15-17).
THEOREM TickHeard == Spec => []NoTickSleptThrough
<1>1. LifeInv => NoTickSleptThrough
  BY DEF LifeInv, Handshake, NoTickSleptThrough
<1>. QED
  BY <1>1, LifeInductive, PTL

\* The numbers of the rounds never go back, and no number is given three times
\* (thread_updater.c:22-25, 31).
THEOREM RoundsInOrder == Spec => []RoundsNumbered
<1>1. LifeInv => RoundsNumbered
  BY DEF LifeInv, RoundsInv
<1>. QED
  BY <1>1, LifeInductive, PTL

\* main takes nothing apart that a thread may still use, and reports success
\* only if no line of the log is lost (main.c:53-63, 83-91).
THEOREM MainIsLast == Spec => []LastOneOut
<1>1. LifeInv => LastOneOut
  BY Threads DEF LifeInv, EndInv, Ended, LastOneOut, Started
<1>. QED
  BY <1>1, LifeInductive, PTL
=============================================================================
