--------------------------- MODULE PriorityQueue ---------------------------
(***************************************************************************)
(* The value of a pq_t (src/priority_queue.c): one FIFO list per level, a  *)
(* higher level being served first.  A queue is a function from Level to   *)
(* sequences; the node_t list surgery of the source is what Append, Tail   *)
(* and RemoveAt do to a sequence.  Every operation of the source runs      *)
(* under q->mtx, so a caller's step applies one of these operators         *)
(* atomically.  The mutex, the condition variable and the blocking of      *)
(* pq_pop are the subject of module PqMonitor.                             *)
(***************************************************************************)
EXTENDS Integers, Sequences, FiniteSets, SequencesExt

CONSTANT Levels     \* pq_create(levels): the number of priority levels

ASSUME LevelsAssumption == Levels \in Nat \ {0}

Level == 0 .. Levels - 1

\* pq_create: calloc'ed lists, all empty.
PqEmpty == [l \in Level |-> <<>>]

\* The bounds pq_push forces on the level it is given.
PqLevel(prio) == IF prio >= Levels THEN Levels - 1
                 ELSE IF prio < 0 THEN 0 ELSE prio

PqPush(q, item, prio) == [q EXCEPT ![PqLevel(prio)] = Append(@, item)]

\* l is the level the descending loop of pq_pop stops at.
PqTop(q, l) == /\ q[l] # <<>>
               /\ \A h \in Level : h > l => q[h] = <<>>

\* pq_pop from the level PqTop names.
PqPop(q, l) == [q EXCEPT ![l] = Tail(@)]

\* q->size == 0.
PqIsEmpty(q) == \A l \in Level : q[l] = <<>>

\* i is where pq_extract_first stops in level l when the items that satisfy
\* its predicate are those of the set S.
PqFirst(q, S, l, i) == /\ i \in 1 .. Len(q[l])
                       /\ q[l][i] \in S
                       /\ \A j \in 1 .. i - 1 : q[l][j] \notin S
                       /\ \A h \in Level : h > l =>
                             \A j \in 1 .. Len(q[h]) : q[h][j] \notin S

PqExtract(q, l, i) == [q EXCEPT ![l] = RemoveAt(@, i)]

\* The nodes of the lists.
PqPlaces(q) == UNION {{l} \X (1 .. Len(q[l])) : l \in Level}

\* The items pq_map visits.
PqItems(q) == UNION {ToSet(q[l]) : l \in Level}
=============================================================================
