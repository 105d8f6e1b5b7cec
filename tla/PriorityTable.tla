--------------------------- MODULE PriorityTable ---------------------------
(***************************************************************************)
(* priority_lookup_table and the functions that read it (main.c:342-394).  *)
(* The source takes a priority to a level by counting the rows with a      *)
(* smaller number, and takes the level for the place of its row.  The      *)
(* table is an argument: a row of it has a number and two timers.          *)
(*                                                                         *)
(* RescueState speaks of levels only, takes the timers by level, and       *)
(* promotes a level to the next: TimersOfTheRow and NextIsNextRow are what *)
(* that rests on, for a table in ascending order.                          *)
(***************************************************************************)
EXTENDS Integers, Sequences, FiniteSets, FiniteSetTheorems, TLAPS

PriorityRule == [number : Int, timeBeforePromotion : Int,
                 timeBeforeTimeout : Int]

Smaller(p, table) == {i \in DOMAIN table : table[i].number < p}

Known(p, table) == \E i \in DOMAIN table : table[i].number = p

\* get_priority_level: a number that is not in the table has the lowest level.
PriorityToLevel(p, table) ==
    IF Known(p, table) THEN Cardinality(Smaller(p, table)) ELSE 0

\* The row at a level; the source counts rows from 0.
RowAt(level, table) == table[level + 1]

\* Levels beyond the table are brought back to its ends.
LevelToPriority(level, table) ==
    RowAt(IF level < 0 THEN 0
          ELSE IF level >= Len(table) THEN Len(table) - 1 ELSE level,
          table).number

TimeoutTimer(p, table) ==
    RowAt(PriorityToLevel(p, table), table).timeBeforeTimeout

PromotionTimer(p, table) ==
    RowAt(PriorityToLevel(p, table), table).timeBeforePromotion

NextPriority(p, table) ==
    IF PriorityToLevel(p, table) = Len(table) - 1 THEN p
    ELSE LevelToPriority(PriorityToLevel(p, table) + 1, table)

\* compare_priorities.
ComparePriorities(a, b, table) ==
    PriorityToLevel(a, table) - PriorityToLevel(b, table)

Ascending(table) ==
    \A i, j \in DOMAIN table : i < j => table[i].number < table[j].number

-----------------------------------------------------------------------------
LEMMA NumbersAreIntegers ==
    ASSUME NEW table \in Seq(PriorityRule)
    PROVE  \A i \in DOMAIN table : table[i].number \in Int
<1>1. \A i \in DOMAIN table : table[i] \in PriorityRule
  OBVIOUS
<1>. QED
  BY <1>1 DEF PriorityRule

\* The rows with a smaller number are finitely many, and among all.
LEMMA SmallerFinite ==
    ASSUME NEW table \in Seq(PriorityRule), NEW p
    PROVE  /\ IsFiniteSet(Smaller(p, table))
           /\ Cardinality(Smaller(p, table)) \in 0..Len(table)
<1>1. IsFiniteSet(1..Len(table)) /\ Cardinality(1..Len(table)) = Len(table)
  <2>1. Len(table) \in Nat
    OBVIOUS
  <2>. QED
    BY <2>1, FS_Interval
<1>2. Smaller(p, table) \in SUBSET (1..Len(table))
  BY DEF Smaller
<1>3. IsFiniteSet(Smaller(p, table))
      /\ Cardinality(Smaller(p, table)) <= Len(table)
  BY <1>1, <1>2, FS_Subset
<1>. QED
  BY <1>3, FS_CardinalityType

\* Whatever the order of its rows, the table ranks the priorities it has as
\* their numbers do: compare_priorities, and with it every theft of a twin and
\* every place in emergency_queue, does not depend on that order
\* (main.c:361-363, server_helpers.c:49-53).
THEOREM LevelsRankPriorities ==
    ASSUME NEW table \in Seq(PriorityRule),
           NEW a \in Int, NEW b \in Int, Known(a, table), Known(b, table)
    PROVE  (ComparePriorities(a, b, table) < 0) <=> a < b
<1>1. ASSUME NEW p \in Int, NEW q \in Int, p < q, Known(p, table), Known(q, table)
      PROVE  PriorityToLevel(p, table) < PriorityToLevel(q, table)
  <2>1. PICK i \in DOMAIN table : table[i].number = p
    BY <1>1 DEF Known
  <2>2. i \in Smaller(q, table) /\ i \notin Smaller(p, table)
    BY <1>1, <2>1 DEF Smaller
  <2>3. \A j \in DOMAIN table : table[j].number \in Int
    BY NumbersAreIntegers
  <2>4. Smaller(p, table) \in SUBSET Smaller(q, table)
    BY <1>1, <2>3 DEF Smaller
  <2>5. Cardinality(Smaller(p, table)) # Cardinality(Smaller(q, table))
    BY <2>2, <2>4, SmallerFinite, FS_Subset
  <2>6. Cardinality(Smaller(p, table)) <= Cardinality(Smaller(q, table))
    BY <2>4, SmallerFinite, FS_Subset
  <2>7. /\ Cardinality(Smaller(p, table)) \in Int
        /\ Cardinality(Smaller(q, table)) \in Int
    BY SmallerFinite
  <2>. QED
    BY <1>1, <2>5, <2>6, <2>7 DEF PriorityToLevel
<1>2. PriorityToLevel(a, table) \in Int /\ PriorityToLevel(b, table) \in Int
  BY SmallerFinite DEF PriorityToLevel
<1>3. CASE a < b
  BY <1>1, <1>2, <1>3 DEF ComparePriorities
<1>4. CASE b < a
  BY <1>1, <1>2, <1>4 DEF ComparePriorities
<1>5. CASE a = b
  BY <1>2, <1>5 DEF ComparePriorities
<1>. QED
  BY <1>3, <1>4, <1>5

\* In an ascending table the level of a priority is the place of its row.
LEMMA LevelIsPlace ==
    ASSUME NEW table \in Seq(PriorityRule), Ascending(table),
           NEW i \in DOMAIN table
    PROVE  PriorityToLevel(table[i].number, table) = i - 1
<1>1. \A j \in DOMAIN table : table[j].number \in Int
  BY NumbersAreIntegers
<1>2. Smaller(table[i].number, table) = 1..(i - 1)
  BY <1>1 DEF Smaller, Ascending
<1>3. Cardinality(1..(i - 1)) = i - 1
  BY FS_Interval
<1>. QED
  BY <1>2, <1>3 DEF PriorityToLevel, Known

\* In an ascending table a priority has the timers of its own row, and a level
\* is taken back to the priority it came from; the timers of an unordered table
\* would be another row's (main.c:380-388).
THEOREM TimersOfTheRow ==
    ASSUME NEW table \in Seq(PriorityRule), Ascending(table),
           NEW i \in DOMAIN table
    PROVE  /\ TimeoutTimer(table[i].number, table) = table[i].timeBeforeTimeout
           /\ PromotionTimer(table[i].number, table)
                = table[i].timeBeforePromotion
           /\ LevelToPriority(PriorityToLevel(table[i].number, table), table)
                = table[i].number
<1>1. PriorityToLevel(table[i].number, table) = i - 1
  BY LevelIsPlace
<1>2. (i - 1) + 1 = i /\ ~(i - 1 < 0) /\ ~(i - 1 >= Len(table))
  OBVIOUS
<1>. QED
  BY <1>1, <1>2 DEF TimeoutTimer, PromotionTimer, LevelToPriority, RowAt

\* In an ascending table a promotion goes to the next row, one level up, and
\* never past the last: an emergency is promoted as often as there are rows
\* above its own, and no more (main.c:390-394, thread_updater.c:139).
THEOREM NextIsNextRow ==
    ASSUME NEW table \in Seq(PriorityRule), Ascending(table),
           NEW i \in DOMAIN table
    PROVE  NextPriority(table[i].number, table)
             = table[IF i = Len(table) THEN i ELSE i + 1].number
<1>1. PriorityToLevel(table[i].number, table) = i - 1
  BY LevelIsPlace
<1>2. CASE i = Len(table)
  BY <1>1, <1>2 DEF NextPriority
<1>3. CASE i # Len(table)
  <2>1. i - 1 # Len(table) - 1 /\ (i - 1) + 1 = i /\ ~(i < 0) /\ ~(i >= Len(table))
    BY <1>3
  <2>. QED
    BY <1>1, <1>3, <2>1 DEF NextPriority, LevelToPriority, RowAt
<1>. QED
  BY <1>2, <1>3
=============================================================================
