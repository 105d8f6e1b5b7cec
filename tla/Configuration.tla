--------------------------- MODULE Configuration ---------------------------
(***************************************************************************)
(* The parsers of the three configuration files, as main calls them one    *)
(* after the other, and of the requests.  A step reads a line, or the end  *)
(* of a file, or takes one rescuer request of the line of an emergency.    *)
(*                                                                         *)
(* A line is what the parser makes of it: "long" is longer than the limit, *)
(* "skip" is empty or a comment, "bad" does not have the syntax; any other *)
(* has the fields its syntax names.  What is read is chosen line by line.  *)
(* Where the code follows a NULL pointer or leaves an array, C gives no    *)
(* meaning to what comes after and the parse goes to "undefined".          *)
(***************************************************************************)
EXTENDS Integers, Sequences

CONSTANTS
    EnvLine, RescuerLine, EmergencyLine,    \* the lines the files may have
    FileLines,          \* bound: the lines of a file
    MaxEnvLines,        \* MAX_ENV_CONF_LINES
    MaxConfLines,       \* MAX_RESCUER_CONF_LINES
    MaxTypes,           \* MAX_RESCUER_TYPES_COUNT
    MaxRequests,        \* MAX_RESCUER_REQ_NUMBER_PER_EMERGENCY
    MaxCoordinate,      \* MAX_X_COORDINATE_ABSOLUTE_VALUE, and of y
    MaxAmount, MaxSpeed, MaxRequired, MaxTime,  \* MAX_ of the fields
    PriorityNumbers,    \* the numbers of priority_lookup_table
    NoLine              \* ps->line before the first line is read

\* What sscanf has made of a line, or of a request in it.
Token == [name : STRING, count : Int, time : Int, padded : BOOLEAN]
NoFieldLine == {"long", "skip", "bad"}

ASSUME ConfigurationAssumption ==
    /\ MaxRequests \in Nat
    /\ \A l \in RescuerLine :
          \/ l.kind \in NoFieldLine
          \/ l \in [kind : {"type"}, name : STRING, amount : Int, speed : Int,
                    x : Int, y : Int]
    /\ \A l \in EmergencyLine :
          \/ l.kind \in NoFieldLine
          \/ l \in [kind : {"type"}, name : STRING, priority : Int,
                    tokens : Seq(Token)]

VARIABLES
    phase,              \* what is being parsed
    line, lineNumber,   \* of ps
    atEnd,              \* the file has been read to its end
    environment,        \* the fields of env.conf
    rescuers,           \* rescuers->types
    types,              \* emergencies->types
    fields,             \* the emergency whose requests are being taken
    tokens              \* the requests left in its line

configVars == <<phase, line, lineNumber, atEnd, environment, rescuers, types,
                fields, tokens>>

Magnitude(n) == IF n < 0 THEN -n ELSE n

\* The fields of env.conf in their order, and what follows each.
EnvField == {"queue", "height", "width"}
AfterField == [f \in EnvField |-> CASE f = "queue" -> "height"
                                    [] f = "height" -> "width"
                                    [] OTHER -> "check"]

NoFields == [name |-> "none", priority |-> 0, requests |-> <<>>]

ConfigInit ==
    /\ phase = "queue"
    /\ line = NoLine /\ lineNumber = 0 /\ atEnd = FALSE
    /\ environment = [queue |-> 0, height |-> 0, width |-> 0]
    /\ rescuers = <<>> /\ types = <<>>
    /\ fields = NoFields /\ tokens = <<>>

\* get_rescuer_type_by_name and get_emergency_type_by_name look a name up in
\* an array; they cut off the blanks after it, as whoever stored it did.
Named(name, entries) == \E i \in DOMAIN entries : entries[i].name = name

-----------------------------------------------------------------------------
(***************************************************************************)
(* Lines (parsing_utils.c).                                                *)
(***************************************************************************)
GoToNextLine(l) ==
    /\ ~atEnd /\ lineNumber < FileLines
    /\ line' = l
    /\ lineNumber' = lineNumber + 1

\* check_if_line_can_be_processed_logging: what makes a parser give up ...
Refused(l, maxLines, parsed, maxParsed) ==
    \/ lineNumber + 1 > maxLines
    \/ parsed > maxParsed
    \/ l.kind = "long"

\* ... and what it passes over.
Passed(l) == l.kind = "skip"

\* The next file, with a parsing state of its own.
NextFile == line' = NoLine /\ lineNumber' = 0 /\ atEnd' = FALSE

-----------------------------------------------------------------------------
(***************************************************************************)
(* env.conf (parse_env.c).  A refused line is passed over like a comment,  *)
(* for skip_and_log_empty_or_illegal_lines does not look at                *)
(* should_continue_parsing.  A line that is not the field expected leaves  *)
(* the field as it is.                                                     *)
(***************************************************************************)
SkipEnvLine ==
    /\ phase \in EnvField
    /\ \E l \in EnvLine :
          /\ GoToNextLine(l)
          /\ Passed(l) \/ Refused(l, MaxEnvLines, 0, 0)
    /\ UNCHANGED <<phase, atEnd, environment, rescuers, types, fields, tokens>>

\* The sscanf of field f on line l.
Extract(f, l) == environment' = IF l.kind = f
                                THEN [environment EXCEPT ![f] = l.value]
                                ELSE environment

ReadEnvLine ==
    /\ phase \in EnvField
    /\ \E l \in EnvLine :
          /\ GoToNextLine(l)
          /\ ~Passed(l) /\ ~Refused(l, MaxEnvLines, 0, 0)
          /\ Extract(phase, l)
    /\ phase' = AfterField[phase]
    /\ UNCHANGED <<atEnd, rescuers, types, fields, tokens>>

\* The field is looked for all the same, in what getline has left of the
\* last line; if there was none, in a NULL pointer.
EnvEndsEarly ==
    /\ phase \in EnvField
    /\ atEnd' = TRUE
    /\ \/ /\ line = NoLine
          /\ phase' = "undefined" /\ UNCHANGED environment
       \/ /\ line # NoLine
          /\ phase' = AfterField[phase]
          /\ Extract(phase, line) \/ UNCHANGED environment
    /\ UNCHANGED <<line, lineNumber, rescuers, types, fields, tokens>>

\* environment_values_are_illegal.  A queue is the length of its name, which
\* cleanup_queue_name does not change.
EnvironmentIsLegal ==
    /\ environment.queue >= 2
    /\ Magnitude(environment.height) <= MaxCoordinate
    /\ Magnitude(environment.width) <= MaxCoordinate

\* main hands the width and the height on before it looks for NULL.
CheckEnv ==
    /\ phase = "check"
    /\ phase' = IF EnvironmentIsLegal THEN "rescuers" ELSE "undefined"
    /\ NextFile
    /\ UNCHANGED <<environment, rescuers, types, fields, tokens>>

-----------------------------------------------------------------------------
(***************************************************************************)
(* rescuers.conf (parse_rescuers.c).  If it returns NULL,                  *)
(* parse_emergencies follows the pointer (parse_emergencies.c:16).         *)
(***************************************************************************)
RescuerIsLegal(l) ==
    /\ l.amount \in 1..MaxAmount
    /\ l.speed \in 1..MaxSpeed
    /\ l.x \in 0..environment.width
    /\ l.y \in 0..environment.height

RescuersRefused(l) ==
    \/ Refused(l, MaxConfLines, Len(rescuers), MaxTypes)
    \/ l.kind = "bad"
    \/ l.kind = "type" /\ ~RescuerIsLegal(l)

\* Mutant: a rescuer that is there already is added again.
AddRescuerAgain(l) ==
    rescuers' = IF Passed(l) THEN rescuers
                ELSE Append(rescuers, [name |-> l.name, amount |-> l.amount,
                                       x |-> l.x, y |-> l.y])

\* A rescuer that is there already is ignored.
AddRescuer(l) ==
    rescuers' = IF Passed(l) \/ Named(l.name, rescuers) THEN rescuers
                ELSE Append(rescuers, [name |-> l.name, amount |-> l.amount,
                                       x |-> l.x, y |-> l.y])

ReadRescuerLine ==
    /\ phase = "rescuers"
    /\ \E l \in RescuerLine :
          /\ GoToNextLine(l)
          /\ \/ /\ RescuersRefused(l)
                /\ phase' = "undefined" /\ UNCHANGED rescuers
             \/ /\ ~RescuersRefused(l)
                /\ AddRescuer(l) /\ UNCHANGED phase
    /\ UNCHANGED <<atEnd, environment, types, fields, tokens>>

RescuersEnd ==
    /\ phase = "rescuers"
    /\ phase' = "emergencies"
    /\ NextFile
    /\ UNCHANGED <<environment, rescuers, types, fields, tokens>>

-----------------------------------------------------------------------------
(***************************************************************************)
(* emergency_types.conf (parse_emergencies.c), with the limits of          *)
(* rescuers.conf.  A line gives the name and the priority, and then its    *)
(* rescuer requests one by one.                                            *)
(***************************************************************************)
EmergenciesRefused(l) ==
    \/ Refused(l, MaxConfLines, Len(types), MaxTypes)
    \/ l.kind = "bad"
    \/ l.kind = "type" /\ l.priority \notin PriorityNumbers

ReadEmergencyLine ==
    /\ phase = "emergencies"
    /\ \E l \in EmergencyLine :
          /\ GoToNextLine(l)
          /\ \/ /\ EmergenciesRefused(l)
                /\ phase' = "failed" /\ UNCHANGED <<fields, tokens>>
             \/ /\ ~EmergenciesRefused(l)
                /\ Passed(l) \/ (~Passed(l) /\ Named(l.name, types))
                /\ UNCHANGED <<phase, fields, tokens>>
             \/ /\ ~EmergenciesRefused(l)
                /\ ~Passed(l) /\ ~Named(l.name, types)
                /\ phase' = "requests"
                /\ fields' = [NoFields EXCEPT !.name = l.name,
                                              !.priority = l.priority]
                /\ tokens' = l.tokens
    /\ UNCHANGED <<atEnd, environment, rescuers, types>>

\* check_and_extract_rescuer_request_fields_from_token: the number of requests
\* so far is tested with > (the seventeenth passes), then the values.
TokenRefused(k) ==
    \/ Len(fields.requests) > MaxRequests
    \/ k.count \notin 1..MaxRequired
    \/ k.time \notin 1..MaxTime

\* Mutant: the twins there are, whatever the type.
SomeAvailable(k) == Named(k.name, rescuers)

\* check_if_rescuer_requested_is_available.
Available(k) == \E i \in DOMAIN rescuers :
                    /\ rescuers[i].name = k.name
                    /\ k.count <= rescuers[i].amount

\* get_rescuer_request_by_name does not cut off the blanks after the name, so
\* it knows no name that is padded.
Requested(k) == ~k.padded /\ Named(k.name, fields.requests)

\* The array of requests has MaxRequests places and ends with a NULL only
\* while it is not full, so a search that finds nothing leaves a full one.
TakeRequest ==
    /\ phase = "requests" /\ tokens # <<>>
    /\ tokens' = Tail(tokens)
    /\ LET k == Head(tokens)
           known == Requested(k)
           full == Len(fields.requests) >= MaxRequests
       IN  \/ /\ TokenRefused(k)
              /\ phase' = "failed" /\ UNCHANGED fields
           \/ /\ ~TokenRefused(k) /\ known
              /\ UNCHANGED <<phase, fields>>
           \/ /\ ~TokenRefused(k) /\ ~known /\ full
              /\ phase' = "undefined" /\ UNCHANGED fields
           \/ /\ ~TokenRefused(k) /\ ~known /\ ~full /\ ~Available(k)
              /\ phase' = "failed" /\ UNCHANGED fields
           \/ /\ ~TokenRefused(k) /\ ~known /\ ~full /\ Available(k)
              /\ fields' = [fields EXCEPT !.requests =
                   Append(@, [name |-> k.name, count |-> k.count,
                              padded |-> k.padded])]
              /\ UNCHANGED phase
    /\ UNCHANGED <<line, lineNumber, atEnd, environment, rescuers, types>>

AddEmergency ==
    /\ phase = "requests" /\ tokens = <<>>
    /\ types' = Append(types, fields)
    /\ phase' = "emergencies"
    /\ fields' = NoFields
    /\ UNCHANGED <<line, lineNumber, atEnd, environment, rescuers, tokens>>

EmergenciesEnd ==
    /\ phase = "emergencies"
    /\ phase' = "parsed"
    /\ NextFile
    /\ UNCHANGED <<environment, rescuers, types, fields, tokens>>

ConfigNext ==
    \/ SkipEnvLine \/ ReadEnvLine \/ EnvEndsEarly \/ CheckEnv
    \/ ReadRescuerLine \/ RescuersEnd
    \/ ReadEmergencyLine \/ TakeRequest \/ AddEmergency \/ EmergenciesEnd

-----------------------------------------------------------------------------
(***************************************************************************)
(* Requests (parse_emergency_request).                                     *)
(***************************************************************************)
\* The coordinates are compared without their sign, and with <=.
RequestIsLegal(r) ==
    /\ Named(r.name, types)
    /\ Magnitude(r.x) <= Magnitude(environment.width)
    /\ Magnitude(r.y) <= Magnitude(environment.height)

-----------------------------------------------------------------------------
(***************************************************************************)
(* Properties.                                                             *)
(***************************************************************************)
Distinct(entries) ==
    \A i, j \in DOMAIN entries : entries[i].name = entries[j].name => i = j

\* The requests of an emergency fit their array, name a rescuer type again only
\* with blanks after it, and none asks for more twins than there are.
Servable(requests) ==
    /\ Len(requests) <= MaxRequests
    /\ \A i, j \in DOMAIN requests :
          (i < j /\ requests[i].name = requests[j].name) => requests[j].padded
    /\ \A i \in DOMAIN requests :
          \E j \in DOMAIN rescuers :
              /\ rescuers[j].name = requests[i].name
              /\ requests[i].count <= rescuers[j].amount

\* Whatever the files contain, the server has no rescuer and no emergency type
\* twice, and there are twins enough for every request of an emergency type,
\* although its line is checked a request at a time and against what another
\* file has left (parse_emergencies.c:114-138, parse_rescuers.c:119).
CatalogueSound ==
    /\ Distinct(rescuers) /\ Distinct(types)
    /\ \A i \in DOMAIN types : Servable(types[i].requests)
    /\ Servable(fields.requests)
=============================================================================
