-------------------------- MODULE BresenhamProofs --------------------------
(***************************************************************************)
(* What holds of the walk for every map and every speed.                   *)
(***************************************************************************)
EXTENDS Bresenham, TLAPS

-----------------------------------------------------------------------------
(***************************************************************************)
(* Arithmetic of one turn.  With rx and ry cells left on the axes, the     *)
(* error term is dx - dy + dy * rx - dx * ry: the walk needs no memory of  *)
(* where it began.                                                         *)
(***************************************************************************)

\* An axis on which nothing is left is never chosen, and one always is.
LEMMA Choice ==
    ASSUME NEW a \in Nat, NEW b \in Nat, NEW rx \in 0 .. a, NEW ry \in 0 .. b,
           rx # 0 \/ ry # 0,
           NEW e \in Int, e = a - b + b * rx - a * ry
    PROVE  /\ 2 * e >= -b => rx >= 1
           /\ 2 * e <= a => ry >= 1
           /\ 2 * e >= -b \/ 2 * e <= a
<1>1. ASSUME rx = 0
      PROVE  ~ (2 * e >= -b)
  <2>1. ry >= 1 /\ b >= 1
    BY <1>1
  <2>2. a * ry >= a
    BY <2>1
  <2>3. b * rx = 0
    BY <1>1
  <2>4. e <= -b
    BY <2>2, <2>3
  <2>. QED
    BY <2>1, <2>4
<1>2. ASSUME ry = 0
      PROVE  ~ (2 * e <= a)
  <2>1. rx >= 1 /\ a >= 1
    BY <1>2
  <2>2. b * rx >= b
    BY <2>1
  <2>3. a * ry = 0
    BY <1>2
  <2>4. e >= a
    BY <2>2, <2>3
  <2>. QED
    BY <2>1, <2>4
<1>3. 2 * e >= -b \/ 2 * e <= a
  OBVIOUS
<1>. QED
  BY <1>1, <1>2, <1>3

\* The error term after a cell on either axis.
LEMMA ErrorKept ==
    ASSUME NEW a \in Int, NEW b \in Int, NEW rx \in Int, NEW ry \in Int
    PROVE  /\ b * (rx - 1) = b * rx - b
           /\ a * (ry - 1) = a * ry - a
OBVIOUS

\* The error term of a fresh line, on which everything is left.
LEMMA FreshError ==
    ASSUME NEW a \in Nat, NEW b \in Nat
    PROVE  a - b = a - b + b * a - a * b
<1>. DEFINE p == a * b
<1>1. b * a = p
  OBVIOUS
<1>2. p \in Int
  OBVIOUS
<1>. HIDE DEF p
<1>3. a - b = a - b + p - p
  BY <1>2
<1>. QED
  BY <1>1, <1>3 DEF p

\* One axis of a trajectory: the target t, the direction s.
LEMMA Axis ==
    ASSUME NEW s \in {-1, 1}, NEW t \in Int, NEW a \in Int, s * (t - a) >= 0
    PROVE  /\ Abs(a - t) = s * (t - a)
           /\ a = t <=> s * (t - a) = 0
           /\ s * (t - (a + s)) = s * (t - a) - 1
<1>1. CASE s = 1
  BY <1>1 DEF Abs
<1>2. CASE s = -1
  BY <1>2 DEF Abs
<1>. QED
  BY <1>1, <1>2

-----------------------------------------------------------------------------
(***************************************************************************)
(* The inductive invariant: the walk is on its line.                       *)
(***************************************************************************)
RestX(a) == sx * (xT - a)
RestY(b) == sy * (yT - b)

OnLine(a, b) ==
    /\ RestX(a) \in 0 .. dx
    /\ RestY(b) \in 0 .. dy
    /\ err = dx - dy + dy * RestX(a) - dx * RestY(b)

\* Between two rounds: the twin has arrived, or it is on its line.
Between == ~ walking => (x = xT /\ y = yT) \/ OnLine(x, y)

\* Inside a round: the locals are on the line, i cells on from the twin.
Inside ==
    walking =>
        /\ OnLine(xA, yA)
        /\ RestX(x) \in RestX(xA) .. dx
        /\ RestY(y) \in RestY(yA) .. dy
        /\ i = (RestX(x) - RestX(xA)) + (RestY(y) - RestY(yA))
        /\ RestX(x) + RestY(y) > Speed

Ends == x \in 0 .. Width - 1 /\ y \in 0 .. Height - 1
        /\ xT \in 0 .. Width - 1 /\ yT \in 0 .. Height - 1

WalkInv == TypeOK /\ Ends /\ Between /\ Inside

\* A fresh trajectory is on its line.
LEMMA FreshLine ==
    ASSUME NEW c \in Cell, NEW d \in Cell,
           xT = d[1], yT = d[2],
           dx = Abs(d[1] - c[1]), dy = Abs(d[2] - c[2]),
           sx = (IF c[1] < d[1] THEN 1 ELSE -1),
           sy = (IF c[2] < d[2] THEN 1 ELSE -1),
           err = dx - dy
    PROVE  /\ OnLine(c[1], c[2])
           /\ dx \in Nat /\ dy \in Nat /\ err \in Int
           /\ sx \in {-1, 1} /\ sy \in {-1, 1}
<1>1. c[1] \in Int /\ c[2] \in Int /\ d[1] \in Int /\ d[2] \in Int
  BY BresenhamAssumption DEF Cell
<1>2. RestX(c[1]) = dx /\ RestY(c[2]) = dy
  BY <1>1 DEF RestX, RestY, Abs
<1>3. dx \in Nat /\ dy \in Nat
  BY <1>1 DEF Abs
<1>4. dx - dy = dx - dy + dy * dx - dx * dy
  BY <1>3, FreshError
<1>5. err = dx - dy + dy * RestX(c[1]) - dx * RestY(c[2])
  BY <1>2, <1>4
<1>6. RestX(c[1]) \in 0 .. dx /\ RestY(c[2]) \in 0 .. dy
  BY <1>2, <1>3
<1>7. OnLine(c[1], c[2])
  BY <1>5, <1>6 DEF OnLine
<1>8. err \in Int
  BY <1>3
<1>9. sx \in {-1, 1} /\ sy \in {-1, 1}
  OBVIOUS
<1>. QED
  BY <1>3, <1>7, <1>8, <1>9

\* On its line the twin is as far as what is left on the two axes.
LEMMA OnLineDistance ==
    ASSUME TypeOK, NEW a \in Int, NEW b \in Int, RestX(a) >= 0, RestY(b) >= 0
    PROVE  /\ Distance(<<a, b>>, <<xT, yT>>) = RestX(a) + RestY(b)
           /\ Abs(a - xT) = RestX(a) /\ Abs(b - yT) = RestY(b)
           /\ RestX(a) \in Nat /\ RestY(b) \in Nat
           /\ a = xT <=> RestX(a) = 0
           /\ b = yT <=> RestY(b) = 0
<1>1. Abs(a - xT) = RestX(a) /\ (a = xT <=> RestX(a) = 0)
  BY Axis DEF TypeOK, RestX
<1>2. Abs(b - yT) = RestY(b) /\ (b = yT <=> RestY(b) = 0)
  BY Axis DEF TypeOK, RestY
<1>3. RestX(a) \in Int /\ RestY(b) \in Int
  BY DEF TypeOK, RestX, RestY
<1>. QED
  BY <1>1, <1>2, <1>3 DEF Distance

\* The same of every cell on the line.
LEMMA OnLineRest ==
    ASSUME TypeOK, NEW a \in Int, NEW b \in Int, OnLine(a, b)
    PROVE  /\ Distance(<<a, b>>, <<xT, yT>>) = RestX(a) + RestY(b)
           /\ Abs(a - xT) = RestX(a) /\ Abs(b - yT) = RestY(b)
           /\ RestX(a) \in Nat /\ RestY(b) \in Nat
           /\ a = xT <=> RestX(a) = 0
           /\ b = yT <=> RestY(b) = 0
<1>1. RestX(a) >= 0 /\ RestY(b) >= 0
  BY DEF OnLine, TypeOK
<1>. QED
  BY <1>1, OnLineDistance

\* The first trajectory.
LEMMA InitWalk == Init => WalkInv
<1>. SUFFICES ASSUME Init PROVE WalkInv
  OBVIOUS
<1>1. PICK c \in Cell, d \in Cell :
          /\ x = c[1] /\ y = c[2]
          /\ xT = d[1] /\ yT = d[2]
          /\ dx = Abs(d[1] - c[1]) /\ dy = Abs(d[2] - c[2])
          /\ sx = (IF c[1] < d[1] THEN 1 ELSE -1)
          /\ sy = (IF c[2] < d[2] THEN 1 ELSE -1)
          /\ err = dx - dy
          /\ xA = c[1] /\ yA = c[2] /\ i = 0 /\ walking = FALSE
  BY DEF Init, Toward
<1>2. /\ OnLine(x, y)
      /\ dx \in Nat /\ dy \in Nat /\ err \in Int
      /\ sx \in {-1, 1} /\ sy \in {-1, 1}
  BY <1>1, FreshLine
<1>3. Ends
  BY <1>1 DEF Ends, Cell
<1>4. x \in Int /\ y \in Int /\ xT \in Int /\ yT \in Int
  BY <1>3, BresenhamAssumption DEF Ends
<1>5. TypeOK
  <2>1. xA \in Int /\ yA \in Int /\ i \in 0 .. Speed
    BY <1>1, <1>4, BresenhamAssumption
  <2>2. walking \in BOOLEAN
    BY <1>1
  <2>. QED
    BY <1>2, <1>4, <2>1, <2>2 DEF TypeOK
<1>. QED
  BY <1>1, <1>2, <1>3, <1>5 DEF WalkInv, Between, Inside

\* A new target: a new line that begins where the twin is.
LEMMA ChangeWalk ==
    ASSUME WalkInv, NEW d \in Cell, ChangeDestination(d)
    PROVE  WalkInv'
<1>1. <<x, y>> \in Cell
  BY DEF WalkInv, Ends, Cell
<1>2. /\ xT' = d[1] /\ yT' = d[2]
      /\ dx' = Abs(d[1] - x) /\ dy' = Abs(d[2] - y)
      /\ sx' = (IF x < d[1] THEN 1 ELSE -1)
      /\ sy' = (IF y < d[2] THEN 1 ELSE -1)
      /\ err' = dx' - dy'
      /\ UNCHANGED <<x, y, xA, yA, i, walking>> /\ ~ walking
  BY DEF ChangeDestination, Toward
<1>3. x \in Int /\ y \in Int /\ d[1] \in Int /\ d[2] \in Int
  BY BresenhamAssumption DEF Cell, WalkInv, TypeOK
<1>4. Ends'
  BY <1>2 DEF WalkInv, Ends, Cell
<1>5. RestX(x)' = dx' /\ RestY(y)' = dy' /\ dx' \in Nat /\ dy' \in Nat
  BY <1>2, <1>3 DEF RestX, RestY, Abs
<1>6. dx' - dy' = dx' - dy' + dy' * dx' - dx' * dy'
  BY <1>5, FreshError
<1>7. OnLine(x, y)'
  <2>1. err' = dx' - dy' + dy' * RestX(x)' - dx' * RestY(y)'
    BY <1>2, <1>5, <1>6
  <2>2. RestX(x)' \in 0 .. dx' /\ RestY(y)' \in 0 .. dy'
    BY <1>5
  <2>. QED
    BY <2>1, <2>2 DEF OnLine
<1>8. TypeOK'
  BY <1>2, <1>3, <1>5 DEF TypeOK, WalkInv
<1>. QED
  BY <1>2, <1>4, <1>7, <1>8 DEF WalkInv, Between, Inside

\* A target within reach is reached.
LEMMA ArriveWalk ==
    ASSUME WalkInv, Arrive
    PROVE  WalkInv' /\ x' = xT /\ y' = yT
<1>1. x' = xT /\ y' = yT
  <2>1. CASE x = xT /\ y = yT
    BY <2>1 DEF Arrive, Abs, WalkInv, TypeOK
  <2>2. CASE OnLine(x, y)
    <3>1. TypeOK /\ x \in Int /\ y \in Int
      BY DEF WalkInv, TypeOK
    <3>2. Abs(x - xT) = RestX(x) /\ Abs(y - yT) = RestY(y)
      BY <2>2, <3>1, OnLineRest
    <3>3. x' = x + RestX(x) * sx /\ y' = y + RestY(y) * sy
      BY <3>2 DEF Arrive
    <3>4. x + RestX(x) * sx = xT
      <4>1. sx = 1 \/ sx = -1
        BY <3>1 DEF TypeOK
      <4>. QED
        BY <3>1, <4>1 DEF RestX, TypeOK
    <3>5. y + RestY(y) * sy = yT
      <4>1. sy = 1 \/ sy = -1
        BY <3>1 DEF TypeOK
      <4>. QED
        BY <3>1, <4>1 DEF RestY, TypeOK
    <3>. QED
      BY <3>3, <3>4, <3>5
  <2>. QED
    BY <2>1, <2>2 DEF WalkInv, Between, Arrive
<1>. QED
  BY <1>1 DEF Arrive, trajectory, WalkInv, TypeOK, Ends, Between, Inside

\* The locals start where the twin is.
LEMMA EnterWalk ==
    ASSUME WalkInv, Enter
    PROVE  WalkInv'
<1>1. ~ (x = xT /\ y = yT)
  BY BresenhamAssumption DEF Enter, Manhattan, Distance, Abs, WalkInv, TypeOK
<1>2. OnLine(x, y)
  BY <1>1 DEF WalkInv, Between, Enter
<1>3. RestX(x) + RestY(y) > Speed /\ RestX(x) \in Nat /\ RestY(y) \in Nat
  <2>1. TypeOK /\ x \in Int /\ y \in Int
    BY DEF WalkInv, TypeOK
  <2>. QED
    BY <1>2, <2>1, OnLineRest DEF Enter, Manhattan
<1>4. /\ xA' = x /\ yA' = y /\ i' = 0 /\ walking' = TRUE
      /\ UNCHANGED <<x, y, xT, yT, dx, dy, sx, sy, err>>
  BY DEF Enter, trajectory
<1>5. TypeOK'
  BY <1>4, BresenhamAssumption DEF WalkInv, TypeOK
<1>6. Inside'
  BY <1>2, <1>3, <1>4 DEF Inside, OnLine, RestX, RestY
<1>. QED
  BY <1>4, <1>5, <1>6 DEF WalkInv, Ends, Between

\* A turn of the loop walks on an axis only if there is something left on it.
LEMMA TurnWalk ==
    ASSUME WalkInv, Turn
    PROVE  WalkInv'
<1>. DEFINE e2 == 2 * err
            onX == e2 >= -dy
            cells == IF onX THEN i + 1 ELSE i
            onY == cells < Speed /\ e2 <= dx
            rx == RestX(xA)
            ry == RestY(yA)
<1>1. /\ TypeOK /\ Ends /\ walking /\ OnLine(xA, yA) /\ ~ AtTarget
      /\ xA \in Int /\ yA \in Int /\ i \in 0 .. Speed /\ i < Speed
      /\ dx \in Nat /\ dy \in Nat /\ err \in Int
      /\ sx \in {-1, 1} /\ sy \in {-1, 1}
  BY DEF WalkInv, TypeOK, Inside, Turn
<1>2. /\ rx \in 0 .. dx /\ ry \in 0 .. dy
      /\ rx \in Nat /\ ry \in Nat
      /\ rx # 0 \/ ry # 0
      /\ err = dx - dy + dy * rx - dx * ry
  BY <1>1, OnLineRest DEF OnLine, AtTarget
<1>3. (onX => rx >= 1) /\ (2 * err <= dx => ry >= 1)
  <2>. HIDE DEF rx, ry
  <2>. QED
    BY <1>1, <1>2, Choice
<1>4. /\ xA' = (IF onX THEN xA + sx ELSE xA)
      /\ yA' = (IF onY THEN yA + sy ELSE yA)
      /\ err' = err - (IF onX THEN dy ELSE 0) + (IF onY THEN dx ELSE 0)
      /\ i' = (IF onY THEN cells + 1 ELSE cells)
      /\ UNCHANGED <<x, y, xT, yT, dx, dy, sx, sy, walking>>
  BY DEF Turn
<1>5. RestX(xA)' = (IF onX THEN rx - 1 ELSE rx)
  <2>1. RestX(xA)' = sx * (xT - xA')
    BY <1>4 DEF RestX
  <2>2. sx * (xT - (xA + sx)) = rx - 1
    BY <1>1, <1>2, Axis DEF RestX, TypeOK
  <2>. QED
    BY <1>4, <2>1, <2>2 DEF RestX
<1>6. RestY(yA)' = (IF onY THEN ry - 1 ELSE ry)
  <2>1. RestY(yA)' = sy * (yT - yA')
    BY <1>4 DEF RestY
  <2>2. sy * (yT - (yA + sy)) = ry - 1
    BY <1>1, <1>2, Axis DEF RestY, TypeOK
  <2>. QED
    BY <1>4, <2>1, <2>2 DEF RestY
<1>7. RestX(x)' = RestX(x) /\ RestY(y)' = RestY(y)
  BY <1>4 DEF RestX, RestY
<1>. HIDE DEF rx, ry
<1>8. err' = dx - dy + dy * RestX(xA)' - dx * RestY(yA)'
  <2>1. /\ dy * (rx - 1) = dy * rx - dy
        /\ dx * (ry - 1) = dx * ry - dx
    BY <1>1, <1>2, ErrorKept
  <2>2. dy * rx \in Int /\ dx * ry \in Int
    BY <1>1, <1>2
  <2>. QED
    BY <1>1, <1>2, <1>4, <1>5, <1>6, <2>1, <2>2
<1>9. /\ RestX(xA)' \in 0 .. dx /\ RestY(yA)' \in 0 .. dy
  BY <1>1, <1>2, <1>3, <1>5, <1>6
<1>10. OnLine(xA, yA)'
  BY <1>4, <1>8, <1>9 DEF OnLine
<1>11. /\ RestX(x) \in rx .. dx /\ RestY(y) \in ry .. dy
       /\ i = (RestX(x) - rx) + (RestY(y) - ry)
       /\ RestX(x) + RestY(y) > Speed
  BY <1>1 DEF WalkInv, Inside, rx, ry
<1>12. i' = (RestX(x)' - RestX(xA)') + (RestY(y)' - RestY(yA)')
  BY <1>1, <1>2, <1>4, <1>5, <1>6, <1>7, <1>11
<1>13. /\ RestX(x)' \in RestX(xA)' .. dx' /\ RestY(y)' \in RestY(yA)' .. dy'
       /\ RestX(x)' + RestY(y)' > Speed
  BY <1>1, <1>2, <1>4, <1>5, <1>6, <1>7, <1>11
<1>14. i' \in 0 .. Speed
  BY <1>1, <1>4, BresenhamAssumption
<1>15. TypeOK'
  BY <1>1, <1>4, <1>14 DEF TypeOK
<1>. QED
  BY <1>1, <1>4, <1>10, <1>12, <1>13, <1>15 DEF WalkInv, Ends, Between, Inside

\* A round that returns has walked exactly its speed, straight on.
LEMMA ReturnWalk ==
    ASSUME WalkInv, Return
    PROVE  /\ WalkInv'
           /\ Distance(<<x, y>>, <<x', y'>>) = Speed
           /\ Distance(<<x', y'>>, <<xT, yT>>)
                 = Distance(<<x, y>>, <<xT, yT>>) - Speed
           /\ Distance(<<x, y>>, <<xT, yT>>) > Speed
<1>1. /\ TypeOK /\ Ends /\ walking /\ OnLine(xA, yA)
      /\ x \in Int /\ y \in Int /\ xA \in Int /\ yA \in Int /\ i \in 0 .. Speed
      /\ xT \in Int /\ yT \in Int
      /\ sx \in {-1, 1} /\ sy \in {-1, 1} /\ dx \in Nat /\ dy \in Nat
      /\ RestX(x) \in RestX(xA) .. dx /\ RestY(y) \in RestY(yA) .. dy
      /\ i = (RestX(x) - RestX(xA)) + (RestY(y) - RestY(yA))
      /\ RestX(x) + RestY(y) > Speed
  BY DEF WalkInv, TypeOK, Inside, Return
<1>2. /\ Distance(<<xA, yA>>, <<xT, yT>>) = RestX(xA) + RestY(yA)
      /\ RestX(xA) \in Nat /\ RestY(yA) \in Nat
      /\ AtTarget => RestX(xA) = 0 /\ RestY(yA) = 0
  BY <1>1, OnLineRest DEF AtTarget
<1>3. RestX(x) \in Int /\ RestY(y) \in Int /\ RestX(x) >= 0 /\ RestY(y) >= 0
  BY <1>1, <1>2
<1>4. Distance(<<x, y>>, <<xT, yT>>) = RestX(x) + RestY(y)
  BY <1>1, <1>3, OnLineDistance
<1>5. i = Speed
  BY <1>1, <1>2, <1>3, BresenhamAssumption DEF Return
<1>6. /\ x' = xA /\ y' = yA /\ walking' = FALSE
      /\ UNCHANGED <<xT, yT, dx, dy, sx, sy, err, xA, yA, i>>
  BY DEF Return, trajectory
<1>7. Abs(x - xA) = RestX(x) - RestX(xA) /\ Abs(y - yA) = RestY(y) - RestY(yA)
  <2>1. sx = 1 \/ sx = -1
    BY <1>1
  <2>2. Abs(x - xA) = RestX(x) - RestX(xA)
    BY <1>1, <2>1 DEF RestX, Abs
  <2>3. sy = 1 \/ sy = -1
    BY <1>1
  <2>4. Abs(y - yA) = RestY(y) - RestY(yA)
    BY <1>1, <2>3 DEF RestY, Abs
  <2>. QED
    BY <2>2, <2>4
<1>8. Distance(<<x, y>>, <<x', y'>>) = Speed
  BY <1>1, <1>5, <1>6, <1>7 DEF Distance
<1>9. Distance(<<x', y'>>, <<xT, yT>>) = Distance(<<x, y>>, <<xT, yT>>) - Speed
  BY <1>1, <1>2, <1>3, <1>4, <1>5, <1>6
<1>10. x' \in 0 .. Width - 1 /\ y' \in 0 .. Height - 1
  <2>1. 0 <= RestX(xA) /\ RestX(xA) <= RestX(x) /\ 0 <= RestY(yA) /\ RestY(yA) <= RestY(y)
    BY <1>1, <1>2
  <2>2. sx = 1 \/ sx = -1
    BY <1>1
  <2>3. xA \in 0 .. Width - 1
    BY <1>1, <2>1, <2>2, BresenhamAssumption DEF Ends, RestX
  <2>4. sy = 1 \/ sy = -1
    BY <1>1
  <2>5. yA \in 0 .. Height - 1
    BY <1>1, <2>1, <2>4, BresenhamAssumption DEF Ends, RestY
  <2>. QED
    BY <1>6, <2>3, <2>5
<1>11. TypeOK' /\ Ends'
  BY <1>1, <1>6, <1>10 DEF TypeOK, Ends
<1>12. OnLine(x, y)'
  BY <1>1, <1>6 DEF OnLine, RestX, RestY
<1>13. WalkInv'
  BY <1>6, <1>11, <1>12 DEF WalkInv, Between, Inside
<1>. QED
  BY <1>1, <1>4, <1>8, <1>9, <1>13

\* Every step of a walk.
LEMMA NextWalk == WalkInv /\ [Next]_vars => WalkInv'
<1>. SUFFICES ASSUME WalkInv, [Next]_vars PROVE WalkInv'
  OBVIOUS
<1>1. CASE UNCHANGED vars
  BY <1>1 DEF vars, trajectory, WalkInv, TypeOK, Ends, Between, Inside, OnLine,
       RestX, RestY
<1>. QED
  BY <1>1, ChangeWalk, ArriveWalk, EnterWalk, TurnWalk, ReturnWalk
  DEF Next, Round

\* The invariant of the walk.
LEMMA WalkAlways == Spec => []WalkInv
BY InitWalk, NextWalk, PTL DEF Spec

-----------------------------------------------------------------------------
(***************************************************************************)
(* Results.                                                                *)
(***************************************************************************)

\* The fields of a trajectory and the locals of a round keep their types: the
\* deltas are never negative, and a round never walks more cells than its
\* speed, even when its budget ends in the middle of a diagonal
\* (bresenham.c:43-61).
THEOREM WalkTypes == Spec => []TypeOK
<1>1. WalkInv => TypeOK
  BY DEF WalkInv
<1>. QED
  BY <1>1, WalkAlways, PTL

\* A walk never overshoots its target on either axis, for any map, any speed
\* and any change of target (bresenham.c:43-61).
THEOREM NoOvershoot == Spec => []NeverOvershoots
<1>1. WalkInv => NeverOvershoots
  BY DEF WalkInv, Inside, OnLine, RestX, RestY, NeverOvershoots, LeftX, LeftY
<1>. QED
  BY <1>1, WalkAlways, PTL

\* Every cell walked brings the twin nearer to its target
\* (bresenham.c:47-60).
THEOREM StraightOn == Spec => []NoDetour
<1>1. WalkInv => NoDetour
  <2>. SUFFICES ASSUME WalkInv, walking PROVE Distance(<<xA, yA>>, <<xT, yT>>) = Manhattan - i
    BY DEF NoDetour
  <2>1. /\ TypeOK /\ x \in Int /\ y \in Int /\ xA \in Int /\ yA \in Int
        /\ OnLine(xA, yA) /\ dx \in Nat /\ dy \in Nat
        /\ RestX(x) \in RestX(xA) .. dx /\ RestY(y) \in RestY(yA) .. dy
        /\ i = (RestX(x) - RestX(xA)) + (RestY(y) - RestY(yA))
    BY DEF WalkInv, TypeOK, Inside
  <2>2. /\ Distance(<<xA, yA>>, <<xT, yT>>) = RestX(xA) + RestY(yA)
        /\ RestX(xA) \in Nat /\ RestY(yA) \in Nat
    BY <2>1, OnLineRest
  <2>3. RestX(x) \in Nat /\ RestY(y) \in Nat
    BY <2>1, <2>2
  <2>4. Manhattan = RestX(x) + RestY(y)
    <3>1. TypeOK /\ x \in Int /\ y \in Int /\ RestX(x) >= 0 /\ RestY(y) >= 0
      BY <2>1, <2>3
    <3>2. Distance(<<x, y>>, <<xT, yT>>) = RestX(x) + RestY(y)
      BY <3>1, OnLineDistance
    <3>. QED
      BY <3>2 DEF Manhattan
  <2>. QED
    BY <2>1, <2>2, <2>3, <2>4
<1>. QED
  BY <1>1, WalkAlways, PTL

\* A twin that walks between cells of the map stays on it, so that the check
\* of the updater never fails for it (thread_updater.c:88-90).
THEOREM StaysOnTheMap == Spec => []OnTheMap
<1>1. WalkInv => OnTheMap
  BY DEF WalkInv, Ends, OnTheMap, Cell
<1>. QED
  BY <1>1, WalkAlways, PTL

\* The line of Bresenham's implements the walk RescueState relies on: a round
\* goes exactly as far as the speed, nearer with every cell, or arrives.
THEOREM WalkImplemented == Spec => ImplementsWalk
<1>1. \A c, d : Promise!Distance(c, d) = Distance(c, d)
  BY DEF Promise!Distance, Distance, Promise!Abs, Abs
<1>2. Init => Promise!Init
  <2>. SUFFICES ASSUME Init PROVE Promise!Init
    OBVIOUS
  <2>1. WalkInv
    BY InitWalk
  <2>. QED
    BY <2>1 DEF Promise!Init, WalkInv, Ends, Cell
<1>3. WalkInv /\ WalkInv' /\ [Next]_vars
         => [Promise!Retarget \/ Promise!Walk]_<< <<x, y>>, <<xT, yT>> >>
  <2>. SUFFICES ASSUME WalkInv, WalkInv', [Next]_vars
                PROVE  [Promise!Retarget \/ Promise!Walk]_<< <<x, y>>, <<xT, yT>> >>
    OBVIOUS
  <2>1. ASSUME NEW d \in Cell, ChangeDestination(d)
        PROVE  Promise!Retarget
    <3>1. /\ xT' = d[1] /\ yT' = d[2] /\ d = << d[1], d[2] >>
          /\ d # <<x, y>> /\ x' = x /\ y' = y
      BY <2>1 DEF ChangeDestination, Toward, Cell
    <3>. QED
      BY <2>1, <3>1 DEF Promise!Retarget
  <2>2. CASE Arrive
    <3>1. x' = xT /\ y' = yT /\ UNCHANGED <<xT, yT>>
      BY <2>2, ArriveWalk DEF Arrive, trajectory
    <3>2. Distance(<<x, y>>, <<xT, yT>>) <= Speed
      BY <2>2 DEF Arrive, Manhattan
    <3>. QED
      BY <1>1, <3>1, <3>2 DEF Promise!Walk, Promise!AfterWalk
  <2>3. CASE Enter \/ Turn
    BY <2>3 DEF Enter, Turn, trajectory
  <2>4. CASE Return
    <3>1. /\ Distance(<<x, y>>, <<x', y'>>) = Speed
          /\ Distance(<<x', y'>>, <<xT, yT>>) = Distance(<<x, y>>, <<xT, yT>>) - Speed
          /\ Distance(<<x, y>>, <<xT, yT>>) > Speed
          /\ UNCHANGED <<xT, yT>>
      BY <2>4, ReturnWalk DEF Return, trajectory
    <3>2. <<x', y'>> \in Cell
      BY DEF WalkInv, Ends, Cell
    <3>3. ~ (Distance(<<x, y>>, <<xT, yT>>) <= Speed)
      <4>1. Distance(<<x, y>>, <<xT, yT>>) \in Int
        BY DEF Distance, Abs, WalkInv, TypeOK
      <4>. QED
        BY <3>1, <4>1, BresenhamAssumption
    <3>4. <<x', y'>> \in Promise!AfterWalk(Cell, <<x, y>>, <<xT, yT>>, Speed)
      BY <1>1, <3>1, <3>2, <3>3 DEF Promise!AfterWalk
    <3>5. <<x, y>> # <<xT, yT>>
      <4>1. SUFFICES ASSUME x = xT, y = yT PROVE FALSE
        OBVIOUS
      <4>. QED
        BY <3>3, <4>1, BresenhamAssumption DEF Distance, Abs, WalkInv, TypeOK
    <3>. QED
      BY <3>1, <3>4, <3>5 DEF Promise!Walk
  <2>5. CASE UNCHANGED vars
    BY <2>5 DEF vars, trajectory
  <2>. QED
    BY <2>1, <2>2, <2>3, <2>4, <2>5 DEF Next, Round
<1>. QED
  BY <1>2, <1>3, WalkAlways, PTL DEF Spec, ImplementsWalk, Promise!Spec
=============================================================================
