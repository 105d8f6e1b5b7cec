--------------------------- MODULE MCRescueServer ---------------------------
(***************************************************************************)
(* Small instances of the server for TLC.  The map is a row of cells, on   *)
(* which every walk is determined; the tables are priority_lookup_table    *)
(* with shorter times.                                                     *)
(***************************************************************************)
EXTENDS RescueClaims

CONSTANTS low, mid, high,       \* emergencies
          fire, ambulance,      \* rescuer types
          f1, f2, a1            \* twins

\* priority_lookup_table: level 0 is promoted and never times out, the
\* others time out and are never promoted.
MCTimeBeforePromotion == [l \in Level |-> IF l = 0 THEN 2 ELSE NoPromotion]
MCTimeBeforeTimeout == [l \in Level |-> IF l = 0 THEN NoTimeout ELSE 2]

\* NO_TIMEOUT and NO_PROMOTION, as near to the shorter times as -10 is not
\* to the real ones.
MCSentinel == -2
MCNearSentinel == -1

MCShortTimeout == [l \in Level |-> 1]

MCTypeOf == [t \in Twin |-> IF t = a1 THEN ambulance ELSE fire]
MCBase == [r \in RescuerType |-> IF r = fire THEN <<0, 0>> ELSE <<1, 0>>]
MCSpeed == [r \in RescuerType |-> 1]

\* Emergencies one and two cells away from the fire engines.
MCSite == [e \in Emergency |-> IF e = high THEN <<1, 0>> ELSE <<2, 0>>]

\* high is at the base, where a twin that has never moved finds no trajectory.
MCSiteAtBase == [e \in Emergency |-> IF e = high THEN <<0, 0>> ELSE <<2, 0>>]

MCNearSite == [e \in Emergency |-> <<1, 0>>]

\* One emergency of each kind.
MCBaseLevel == [e \in Emergency |-> IF e = low THEN 0
                                    ELSE IF e = mid THEN 1 ELSE 2]
MCTwoLow == [e \in Emergency |-> IF e = high THEN 1 ELSE 0]
MCMidHigh == [e \in Emergency |-> IF e = high THEN 2 ELSE 1]

\* Everybody wants one fire engine; low wants two.
MCOneEach == [e \in Emergency |-> [r \in RescuerType |-> 1]]
MCTwoForLow == [e \in Emergency |-> [r \in RescuerType |->
                   IF e = low THEN 2 ELSE 1]]
\* low wants every twin there is; high wants one fire engine.
MCAllForLow == [e \in Emergency |-> [r \in RescuerType |->
                   IF e = low THEN Cardinality(OfType(Twin, r))
                   ELSE IF r = fire THEN 1 ELSE 0]]
MCBrief == [e \in Emergency |-> [r \in RescuerType |-> 1]]
MCTimeToManage == [e \in Emergency |-> [r \in RescuerType |->
                   IF e = high THEN 1 ELSE 2]]

\* Workers are alike, and so are fire engines: sound for safety.
MCSymmetry == Permutations(Worker) \cup Permutations({f1, f2})
=============================================================================
