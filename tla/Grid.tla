-------------------------------- MODULE Grid --------------------------------
(***************************************************************************)
(* The grid the rescuers move on: cells <<x, y>> and the Manhattan         *)
(* distance between them.                                                  *)
(***************************************************************************)
EXTENDS Integers

\* ABS.
Abs(n) == IF n < 0 THEN -n ELSE n

\* MANHATTAN(x1, y1, x2, y2).
Distance(c, d) == Abs(c[1] - d[1]) + Abs(c[2] - d[2])

\* The cells of S where a walk of n cells from c towards target may end: at
\* the target when it is not further than that, else n cells nearer to it.
\* A diagonal counts as two cells.
AfterWalk(S, c, target, n) ==
    IF Distance(c, target) <= n THEN {target}
    ELSE {d \in S : /\ Distance(c, d) = n
                    /\ Distance(d, target) = Distance(c, target) - n}
=============================================================================
