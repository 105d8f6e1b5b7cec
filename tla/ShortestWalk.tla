---------------------------- MODULE ShortestWalk ----------------------------
(***************************************************************************)
(* What the walk of a digital twin promises its users: whatever way it     *)
(* takes to the target it was given last, each round brings it as much     *)
(* nearer as its speed allows, and a target within reach is reached.       *)
(* RescueState relies on this and on nothing else of the walk.             *)
(***************************************************************************)
EXTENDS Grid

CONSTANTS Cell,     \* the cells of the map
          Speed     \* cells walked in a round

VARIABLES pos, target

Init == pos \in Cell /\ target \in Cell

Retarget == /\ target' \in Cell \ {pos}
            /\ UNCHANGED pos

Walk == /\ pos # target
        /\ pos' \in AfterWalk(Cell, pos, target, Speed)
        /\ UNCHANGED target

Spec == Init /\ [][Retarget \/ Walk]_<<pos, target>>
=============================================================================
