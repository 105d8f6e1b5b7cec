---------------------------- MODULE MCServerLife ----------------------------
(***************************************************************************)
(* A small server for TLC: a map of two columns, one rescuer type with one *)
(* twin, one emergency type.                                               *)
(***************************************************************************)
EXTENDS ServerLife

Plain(kind) == [kind |-> kind]

MCEnvLine == {Plain("skip"), Plain("bad"), [kind |-> "queue", value |-> 2],
              [kind |-> "height", value |-> 1], [kind |-> "width", value |-> 2],
              [kind |-> "width", value |-> -5]}

RescuerLineOf(name, amount, x) ==
    [kind |-> "type", name |-> name, amount |-> amount, speed |-> 1,
     x |-> x, y |-> 0]

\* A comment, one type with one twin and with two, off the map, another type.
MCRescuerLine ==
    {Plain("skip"), RescuerLineOf("fire", 1, 0), RescuerLineOf("fire", 2, 0),
     RescuerLineOf("fire", 1, 3), RescuerLineOf("medic", 1, 0)}

Asked(count, padded) ==
    [name |-> "fire", count |-> count, time |-> 1, padded |-> padded]

EmergencyLineOf(name, asked) ==
    [kind |-> "type", name |-> name, priority |-> 0, tokens |-> asked]

\* One twin; two at once; one type asked for twice, with blanks after it, and
\* once too often; no twin at all.
MCEmergencyLine ==
    {Plain("skip"), Plain("bad"), EmergencyLineOf("blaze", <<Asked(1, FALSE)>>),
     EmergencyLineOf("blaze", <<Asked(2, FALSE)>>),
     EmergencyLineOf("crash", <<Asked(1, FALSE), Asked(1, FALSE),
                                Asked(1, TRUE), Asked(1, TRUE)>>),
     EmergencyLineOf("crash", <<Asked(0, FALSE)>>)}

MCCatalogue ==
    {<<[queue |-> 2, height |-> 1, width |-> 2],
       <<[name |-> "fire", amount |-> 1, x |-> 0, y |-> 0]>>,
       <<[name |-> "blaze", priority |-> 0,
          requests |-> <<[name |-> "fire", count |-> 1, padded |-> FALSE]>>]>> >>}

\* In the first cell, in the column behind the last, and for no emergency.
MCRequest == {[name |-> "blaze", x |-> 0, y |-> 0],
              [name |-> "blaze", x |-> 2, y |-> 0],
              [name |-> "flood", x |-> 0, y |-> 0]}
=============================================================================
