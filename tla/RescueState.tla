---------------------------- MODULE RescueState ----------------------------
(***************************************************************************)
(* The state shared by the threads of the rescue server and the rules its  *)
(* steps are built from: who may be dispatched, who is preferred, how a    *)
(* digital twin walks, how a priority is promoted.  The fields of          *)
(* emergency_t and of rescuer_digital_twin_t (include/structs.h) are       *)
(* functions on Emergency and on Twin.  Module RescueServer holds the      *)
(* threads.                                                                *)
(***************************************************************************)
EXTENDS PriorityQueue, Grid

CONSTANTS
    Emergency,      \* the emergency requests a run of the server may receive
    RescuerType,    \* the lines of rescuers.conf
    Twin,           \* the digital twins of all the types
    Worker,         \* the WORKER_THREADS_NUMBER worker threads
    Width, Height,  \* the map of env.conf
    TypeOf,         \* t->rescuer
    Base, Speed,    \* x, y and speed of a rescuer_type_t
    Site,           \* x, y of an emergency_request_t
    BaseLevel,      \* level of the priority of the emergency's type
    Required,       \* required_count, for each emergency and type
    TimeToManage,   \* time_to_manage, for each emergency and type
    TimeBeforePromotion, TimeBeforeTimeout, \* columns of priority_lookup_table
    NoTimeout, NoPromotion,                 \* the sentinels of structs.h
    NoEmergency, NoCell                     \* NULL, a target never set

InvalidTime == -1

\* The <<x, y>> of the map.
Cell == (0 .. Width - 1) \X (0 .. Height - 1)

ASSUME CardinalityAssumption ==
    /\ IsFiniteSet(Emergency) /\ IsFiniteSet(RescuerType)
    /\ IsFiniteSet(Twin) /\ IsFiniteSet(Worker)
    /\ NoEmergency \notin Emergency /\ NoCell \notin Cell

\* Bases and scenes are cells of the map.  The parsers accept x = width and
\* y = height too (parse_rescuers.c:75-77, parse_emergencies.c:186); where that
\* leads is the subject of ServerLife and Session.
ASSUME MapAssumption ==
    /\ Width \in Nat \ {0} /\ Height \in Nat \ {0}
    /\ Base \in [RescuerType -> Cell]
    /\ Site \in [Emergency -> Cell]

ASSUME CatalogueAssumption ==
    /\ TypeOf \in [Twin -> RescuerType]
    /\ Speed \in [RescuerType -> Nat \ {0}]
    /\ BaseLevel \in [Emergency -> Level]
    /\ Required \in [Emergency -> [RescuerType -> Nat]]
    /\ TimeToManage \in [Emergency -> [RescuerType -> Nat]]

ASSUME TableAssumption ==
    /\ NoTimeout \in Int /\ NoTimeout < 0
    /\ NoPromotion \in Int /\ NoPromotion < 0
    /\ TimeBeforePromotion \in [Level -> Nat \cup {NoPromotion}]
    /\ TimeBeforeTimeout \in [Level -> Nat \cup {NoTimeout}]

\* No row of the table is due at once (config_server.h:42-47).
ASSUME TimersAssumption ==
    \A l \in Level : TimeBeforePromotion[l] # 0 /\ TimeBeforeTimeout[l] # 0

VARIABLES
    \* emergency_t
    status, priority, timeoutTimer, promotionTimer,
    missing,            \* rescuers_missing[i]->required_count
    crew,               \* the non-NULL entries of rescuer_twins
    notArrived, notDone,
    \* rescuer_digital_twin_t
    tStatus, tEmergency,
    tTarget,            \* the target of the trajectory
    tPos, tLeft,        \* x, y and time_left_before_leaving
    \* the queues of server_context_t
    queue, closed,
    completed, canceled,    \* how often each emergency was pushed there
    \* active_emergencies->array
    slot

emergencyVars == <<status, priority, timeoutTimer, promotionTimer,
                   missing, crew, notArrived, notDone>>
twinVars == <<tStatus, tEmergency, tTarget, tPos, tLeft>>
storeVars == <<completed, canceled>>

EmergencyStatus == {"UNBORN", "WAITING", "ASSIGNED", "IN_PROGRESS", "PAUSED",
                    "COMPLETED", "CANCELED", "TIMEOUT"}
RescuerStatus == {"IDLE", "EN_ROUTE_TO_SCENE", "ON_SCENE", "RETURNING_TO_BASE"}

(***************************************************************************)
(* Units.  A demand maps a rescuer type to a count; Units makes it a set   *)
(* with one element per wanted rescuer, so that its cardinality is the sum *)
(* the source computes with a loop.                                        *)
(***************************************************************************)
Units(demand) == UNION {{r} \X (1 .. demand[r]) : r \in RescuerType}

NoDemand == [r \in RescuerType |-> 0]

\* rescuer_count: the length of rescuer_twins.
RescuerCount(e) == Cardinality(Units(Required[e]))

SpeedOf(t) == Speed[TypeOf[t]]
BaseOf(t) == Base[TypeOf[t]]

(***************************************************************************)
(* Who may be dispatched, and who is preferred (thread_worker.c).          *)
(***************************************************************************)

\* estimated_arrival_time: the quotient of two ints.
ArrivalTime(e, t) == Distance(Site[e], tPos[t]) \div SpeedOf(t)

\* is_preemptable_or_available, for an emergency of the given level.
IsPreemptableOrAvailable(t, level) ==
    \/ tStatus[t] = "IDLE"
    \/ /\ tStatus[t] \in {"EN_ROUTE_TO_SCENE", "ON_SCENE"}
       /\ \/ tEmergency[t] = NoEmergency
          \/ priority[tEmergency[t]] < level

\* The ETA filter of find_best_twin_blocked.
ArrivesInTime(e, t) ==
    timeoutTimer[e] = NoTimeout \/ ArrivalTime(e, t) <= timeoutTimer[e]

Eligible(e) == {t \in Twin : /\ IsPreemptableOrAvailable(t, priority[e])
                             /\ tEmergency[t] # e
                             /\ ArrivesInTime(e, t)}

\* The level a twin is taken from, below every level when it is idle.
OwnerLevel(t) ==
    IF tEmergency[t] = NoEmergency THEN -1 ELSE priority[tEmergency[t]]

\* compare_twins(e, a, b) > 0: idle first, then the less important owner,
\* then the earlier arrival, then a twin still on its way.
Better(e, a, b) ==
    \/ tStatus[a] = "IDLE" /\ tStatus[b] # "IDLE"
    \/ /\ tStatus[a] = "IDLE" <=> tStatus[b] = "IDLE"
       /\ \/ OwnerLevel(a) < OwnerLevel(b)
          \/ /\ OwnerLevel(a) = OwnerLevel(b)
             /\ \/ ArrivalTime(e, a) < ArrivalTime(e, b)
                \/ /\ ArrivalTime(e, a) = ArrivalTime(e, b)
                   /\ tStatus[a] = "EN_ROUTE_TO_SCENE"
                   /\ tStatus[b] = "ON_SCENE"

OfType(S, r) == {t \in S : TypeOf[t] = r}

\* The sets of candidates find_rescuers_logging_blocking can end with: as
\* many twins of each type as are missing, each time the best one left.
\* Equivalent twins are interchangeable.
Candidates(e) ==
    {C \in SUBSET Eligible(e) :
        /\ \A r \in RescuerType : Cardinality(OfType(C, r)) = missing[e][r]
        /\ \A t \in C, u \in Eligible(e) \ C :
              TypeOf[t] = TypeOf[u] => ~ Better(e, u, t)}

(***************************************************************************)
(* How a twin walks (thread_updater.c:54-130): what module ShortestWalk    *)
(* promises, and module Bresenham keeps.                                   *)
(***************************************************************************)

\* change_rescuer_digital_twin_destination_blocked: the trajectory is
\* recomputed only when the twin is not already in the cell.
NewTarget(t, cell) == IF tPos[t] = cell THEN tTarget[t] ELSE cell

InReach(t, target) == Distance(tPos[t], target) <= SpeedOf(t)

Walk(t, target) == AfterWalk(Cell, tPos[t], target, SpeedOf(t))

(***************************************************************************)
(* Promotion (promote_emergency_logging_blocked, get_next_priority).       *)
(***************************************************************************)
NextLevel(l) == IF l = Levels - 1 THEN l ELSE l + 1

\* Promotion of the emergencies of S.
Promote(S) ==
    /\ priority' = [e \in Emergency |->
          IF e \in S THEN NextLevel(priority[e]) ELSE priority[e]]
    /\ promotionTimer' = [e \in Emergency |->
          IF e \in S THEN TimeBeforePromotion[NextLevel(priority[e])]
          ELSE promotionTimer[e]]
    /\ timeoutTimer' = [e \in Emergency |->
          IF e \in S THEN TimeBeforeTimeout[NextLevel(priority[e])]
          ELSE timeoutTimer[e]]

\* emergency_has_expired, emergency_is_to_promote.
Expired == {e \in Emergency :
              timeoutTimer[e] # NoTimeout /\ timeoutTimer[e] <= 0}
ToPromote == {e \in Emergency :
              promotionTimer[e] # NoPromotion /\ promotionTimer[e] <= 0}
=============================================================================
