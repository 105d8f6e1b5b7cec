----------------------------- MODULE Bresenham -----------------------------
(***************************************************************************)
(* How a digital twin walks (src/bresenham.c): a line of Bresenham's to    *)
(* the target, some cells in each round, that can be abandoned for a new   *)
(* target between two rounds.  The error term outlives the round, and a    *)
(* round may end between the two halves of a diagonal.                     *)
(*                                                                         *)
(* The twin's x and y change when a round returns; until then              *)
(* compute_bresenham_step walks with its locals xA and yA, one turn of its *)
(* loop in each step of the model.                                         *)
(***************************************************************************)
EXTENDS Grid

CONSTANTS Width, Height,    \* the map
          Speed             \* cells_per_step, the speed of the rescuer

ASSUME BresenhamAssumption ==
    Width \in Nat \ {0} /\ Height \in Nat \ {0} /\ Speed \in Nat \ {0}

VARIABLES
    x, y,                           \* of the twin
    xT, yT, dx, dy, sx, sy, err,    \* bresenham_trajectory_t
    xA, yA, i,                      \* locals of compute_bresenham_step
    walking                         \* inside its loop

trajectory == <<xT, yT, dx, dy, sx, sy, err>>
vars == <<x, y, trajectory, xA, yA, i, walking>>

Cell == (0 .. Width - 1) \X (0 .. Height - 1)

\* change_bresenham_trajectory sets each field from the cells c and d.
Toward(c, d) == [x |-> d[1], y |-> d[2],
                 dx |-> Abs(d[1] - c[1]), dy |-> Abs(d[2] - c[2]),
                 sx |-> IF c[1] < d[1] THEN 1 ELSE -1,
                 sy |-> IF c[2] < d[2] THEN 1 ELSE -1]

\* A twin that has just been given its first target.
Init ==
    \E c, d \in Cell :
        LET t == Toward(c, d)
        IN  /\ c # d
            /\ x = c[1] /\ y = c[2]
            /\ xT = t.x /\ yT = t.y /\ dx = t.dx /\ dy = t.dy
            /\ sx = t.sx /\ sy = t.sy /\ err = t.dx - t.dy
            /\ xA = c[1] /\ yA = c[2] /\ i = 0
            /\ walking = FALSE

\* change_rescuer_digital_twin_destination_blocked, between two rounds.
ChangeDestination(d) ==
    LET t == Toward(<<x, y>>, d)
    IN  /\ ~ walking
        /\ d # <<x, y>>
        /\ xT' = t.x /\ yT' = t.y /\ dx' = t.dx /\ dy' = t.dy
        /\ sx' = t.sx /\ sy' = t.sy /\ err' = t.dx - t.dy
        /\ UNCHANGED <<x, y, xA, yA, i, walking>>

Manhattan == Distance(<<x, y>>, <<xT, yT>>)

\* Mutant: the whole trajectory is added, not what is left of it.
ArriveByDelta ==
    /\ ~ walking
    /\ Manhattan <= Speed
    /\ x' = x + dx * sx
    /\ y' = y + dy * sy
    /\ UNCHANGED <<trajectory, xA, yA, i, walking>>

\* Mutant: a target exactly one round away is not reached.
ArriveStrictly ==
    /\ ~ walking
    /\ Manhattan < Speed
    /\ x' = x + Abs(x - xT) * sx
    /\ y' = y + Abs(y - yT) * sy
    /\ UNCHANGED <<trajectory, xA, yA, i, walking>>

\* The target is reached in less than a round.
Arrive ==
    /\ ~ walking
    /\ Manhattan <= Speed
    /\ x' = x + Abs(x - xT) * sx
    /\ y' = y + Abs(y - yT) * sy
    /\ UNCHANGED <<trajectory, xA, yA, i, walking>>

Enter ==
    /\ ~ walking
    /\ Manhattan > Speed
    /\ xA' = x /\ yA' = y /\ i' = 0
    /\ walking' = TRUE
    /\ UNCHANGED <<x, y, trajectory>>

AtTarget == xA = xT /\ yA = yT

\* Mutant: the second half of a diagonal ignores the budget.
TurnOverBudget ==
    LET e2 == 2 * err
        onX == e2 >= -dy
        onY == e2 <= dx
    IN  /\ walking /\ i < Speed /\ ~ AtTarget
        /\ xA' = IF onX THEN xA + sx ELSE xA
        /\ yA' = IF onY THEN yA + sy ELSE yA
        /\ err' = err - (IF onX THEN dy ELSE 0) + (IF onY THEN dx ELSE 0)
        /\ i' = i + (IF onX THEN 1 ELSE 0) + (IF onY THEN 1 ELSE 0)
        /\ UNCHANGED <<x, y, xT, yT, dx, dy, sx, sy, walking>>

\* Mutant: a diagonal counts as one cell.
TurnDiagonalOnce ==
    LET e2 == 2 * err
        onX == e2 >= -dy
        onY == e2 <= dx
    IN  /\ walking /\ i < Speed /\ ~ AtTarget
        /\ xA' = IF onX THEN xA + sx ELSE xA
        /\ yA' = IF onY THEN yA + sy ELSE yA
        /\ err' = err - (IF onX THEN dy ELSE 0) + (IF onY THEN dx ELSE 0)
        /\ i' = i + 1
        /\ UNCHANGED <<x, y, xT, yT, dx, dy, sx, sy, walking>>

\* Mutant: each axis is charged with the other's delta.
TurnWrongError ==
    LET e2 == 2 * err
        onX == e2 >= -dy
        cells == IF onX THEN i + 1 ELSE i
        onY == cells < Speed /\ e2 <= dx
    IN  /\ walking /\ i < Speed /\ ~ AtTarget
        /\ xA' = IF onX THEN xA + sx ELSE xA
        /\ yA' = IF onY THEN yA + sy ELSE yA
        /\ err' = err - (IF onX THEN dx ELSE 0) + (IF onY THEN dy ELSE 0)
        /\ i' = IF onY THEN cells + 1 ELSE cells
        /\ UNCHANGED <<x, y, xT, yT, dx, dy, sx, sy, walking>>

\* One turn of the loop.  e2 is computed once for both axes, and the second
\* half is left out when the first one used up the round.
Turn ==
    LET e2 == 2 * err
        onX == e2 >= -dy
        cells == IF onX THEN i + 1 ELSE i
        onY == cells < Speed /\ e2 <= dx
    IN  /\ walking /\ i < Speed /\ ~ AtTarget
        /\ xA' = IF onX THEN xA + sx ELSE xA
        /\ yA' = IF onY THEN yA + sy ELSE yA
        /\ err' = err - (IF onX THEN dy ELSE 0) + (IF onY THEN dx ELSE 0)
        /\ i' = IF onY THEN cells + 1 ELSE cells
        /\ UNCHANGED <<x, y, xT, yT, dx, dy, sx, sy, walking>>

\* Mutant: the round ends one cell early.
ReturnEarly ==
    /\ walking
    /\ i >= Speed - 1 \/ AtTarget
    /\ x' = xA /\ y' = yA
    /\ walking' = FALSE
    /\ UNCHANGED <<trajectory, xA, yA, i>>

Return ==
    /\ walking
    /\ i >= Speed \/ AtTarget
    /\ x' = xA /\ y' = yA
    /\ walking' = FALSE
    /\ UNCHANGED <<trajectory, xA, yA, i>>

Round == Arrive \/ Enter \/ Turn \/ Return

Next == Round \/ \E d \in Cell : ChangeDestination(d)

Spec == Init /\ [][Next]_vars

\* The updater walks every twin that is not at its target in every round.
FairSpec == Spec /\ WF_vars(Round)

-----------------------------------------------------------------------------
(***************************************************************************)
(* Properties.                                                             *)
(***************************************************************************)

\* What is left to walk on each axis, in the direction of the trajectory.
LeftX == sx * (xT - xA)
LeftY == sy * (yT - yA)

TypeOK ==
    /\ x \in Int /\ y \in Int /\ xT \in Int /\ yT \in Int
    /\ dx \in Nat /\ dy \in Nat /\ err \in Int
    /\ sx \in {-1, 1} /\ sy \in {-1, 1}
    /\ xA \in Int /\ yA \in Int /\ i \in 0 .. Speed
    /\ walking \in BOOLEAN

\* The walk overshoots the target on neither axis, even when rounds end in
\* the middle of a diagonal: it stays in the rectangle of its two ends, and
\* with them on the map (bresenham.c:43-61, thread_updater.c:88-90).
NeverOvershoots == walking => LeftX \in 0 .. dx /\ LeftY \in 0 .. dy

\* In the middle of a round every cell walked has brought the twin nearer,
\* so that no speed is wasted on a detour (bresenham.c:47-60).
NoDetour ==
    walking => Distance(<<xA, yA>>, <<xT, yT>>) = Manhattan - i

\* The twin is always on the map (thread_updater.c:88-90).
OnTheMap == <<x, y>> \in Cell

\* The detailed walk implements the abstract one.
Promise == INSTANCE ShortestWalk WITH pos <- <<x, y>>, target <- <<xT, yT>>
ImplementsWalk == Promise!Spec

\* A twin whose target does not change any more arrives (bresenham.c:47).
Arrives == <>[][~ \E d \in Cell : ChangeDestination(d)]_vars
              => <>(<<x, y>> = <<xT, yT>>)
=============================================================================
