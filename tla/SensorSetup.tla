----------------------------- MODULE SensorSetup -----------------------------
(***************************************************************************)
(* The start of the controller: main initialises the four zones one after  *)
(* the other, each asks libgpiod for an event request on its two lines     *)
(* (request_input_lines), and then the threads begin.  Every call of       *)
(* libgpiod may fail.  request_input_lines cleans up and returns NULL;     *)
(* brakeZone::init looks at nothing and always returns 0.                  *)
(*                                                                         *)
(* libgpiod is external: gpiod_line_request_get_fd asserts that there is a *)
(* request, so that a zone without one ends the process.                   *)
(***************************************************************************)
EXTENDS Integers

CONSTANT NumZones \* the zones that main initialises, in this order (4)

ASSUME SetupAssumption == NumZones \in Nat \ {0}

NumLines == 2
Resource == {"chip", "settings", "lineConfig", "requestConfig"}

VARIABLES
  pc,        \* the next call
  current,   \* the zone being initialised
  held,      \* what request_input_lines has to give back
  added,     \* lines that its configuration has settings for
  request,   \* lines of the request it returns, 0 for NULL
  watched,   \* watched[i]: lines that zone i has a request for
  buffered   \* zones with an event buffer

local == <<held, added, request>>
zones == <<watched, buffered>>
vars == <<pc, current, local, zones>>

TypeOK ==
  /\ pc \in {"open", "newSettings", "newLineConfig", "addLine", "newRequestConfig",
             "requestLines", "freeRequestConfig", "freeLineConfig", "freeSettings",
             "closeChip", "getFd", "newBuffer", "getValue", "threads", "aborted"}
  /\ current \in 1 .. NumZones
  /\ held \subseteq Resource
  /\ added \in 0 .. NumLines
  /\ request \in 0 .. NumLines
  /\ watched \in [1 .. NumZones -> 0 .. NumLines]
  /\ buffered \subseteq 1 .. NumZones

Init ==
  /\ pc = "open"
  /\ current = 1
  /\ held = {}
  /\ added = 0
  /\ request = 0
  /\ watched = [i \in 1 .. NumZones |-> 0]
  /\ buffered = {}

-----------------------------------------------------------------------------
(***************************************************************************)
(* request_input_lines                                                     *)
(***************************************************************************)
\* A call that returns a new object or NULL.
Acquire(call, r, next, otherwise) ==
  /\ pc = call
  /\ \/ pc' = next /\ held' = held \cup {r}
     \/ pc' = otherwise /\ UNCHANGED held
  /\ UNCHANGED <<current, added, request, zones>>

OpenChip == Acquire("open", "chip", "newSettings", "getFd")
NewSettings == Acquire("newSettings", "settings", "newLineConfig", "closeChip")
NewLineConfig == Acquire("newLineConfig", "lineConfig", "addLine", "freeSettings")

\* Mutant of NewRequestConfig: the wrong label.
NewRequestConfigSkips ==
  Acquire("newRequestConfig", "requestConfig", "requestLines", "freeSettings")

NewRequestConfig ==
  Acquire("newRequestConfig", "requestConfig", "requestLines", "freeLineConfig")

\* Mutant of AddLine: a line without settings is left out.
AddLineOrSkip ==
  /\ pc = "addLine"
  /\ \/ /\ added' = added + 1
        /\ pc' = IF added' = NumLines THEN "newRequestConfig" ELSE "addLine"
     \/ UNCHANGED added /\ pc' = "newRequestConfig"
  /\ UNCHANGED <<current, held, request, zones>>

AddLine ==
  /\ pc = "addLine"
  /\ \/ /\ added' = added + 1
        /\ pc' = IF added' = NumLines THEN "newRequestConfig" ELSE "addLine"
     \/ UNCHANGED added /\ pc' = "freeLineConfig"
  /\ UNCHANGED <<current, held, request, zones>>

\* The kernel grants the lines together or not at all.
RequestLines ==
  /\ pc = "requestLines"
  /\ request' \in {0, added}
  /\ pc' = "freeRequestConfig"
  /\ UNCHANGED <<current, held, added, zones>>

\* The labels at the end, each of which falls into the next.
Free(call, r, next) ==
  /\ pc = call
  /\ held' = held \ {r}
  /\ pc' = next
  /\ UNCHANGED <<current, added, request, zones>>

FreeRequestConfig == Free("freeRequestConfig", "requestConfig", "freeLineConfig")
FreeLineConfig == Free("freeLineConfig", "lineConfig", "freeSettings")
FreeSettings == Free("freeSettings", "settings", "closeChip")
CloseChip == Free("closeChip", "chip", "getFd")

-----------------------------------------------------------------------------
(***************************************************************************)
(* brakeZone::init and main                                                *)
(***************************************************************************)
GetFd ==
  /\ pc = "getFd"
  /\ pc' = IF request = 0 THEN "aborted" ELSE "newBuffer"
  /\ watched' = [watched EXCEPT ![current] = request]
  /\ UNCHANGED <<current, local, buffered>>

\* A zone without a buffer reads no event (the read returns -1 at once).
NewBuffer ==
  /\ pc = "newBuffer"
  /\ buffered' \in {buffered, buffered \cup {current}}
  /\ pc' = "getValue"
  /\ UNCHANGED <<current, local, watched>>

\* Mutant of GetValue: one zone too many.
GetValuePastEnd ==
  /\ pc = "getValue"
  /\ IF current <= NumZones
       THEN pc' = "open" /\ current' = current + 1
       ELSE pc' = "threads" /\ UNCHANGED current
  /\ added' = 0
  /\ request' = 0
  /\ UNCHANGED <<held, zones>>

\* The value is not used.  The next zone follows, or the threads.
GetValue ==
  /\ pc = "getValue"
  /\ IF current < NumZones
       THEN pc' = "open" /\ current' = current + 1
       ELSE pc' = "threads" /\ UNCHANGED current
  /\ added' = 0
  /\ request' = 0
  /\ UNCHANGED <<held, zones>>

Next ==
  \/ OpenChip \/ NewSettings \/ NewLineConfig \/ AddLine \/ NewRequestConfig
  \/ RequestLines
  \/ FreeRequestConfig \/ FreeLineConfig \/ FreeSettings \/ CloseChip
  \/ GetFd \/ NewBuffer \/ GetValue

Spec == Init /\ [][Next]_vars

-----------------------------------------------------------------------------
\* What the rest of request_input_lines gives back, label by label.
StillFreed ==
  CASE pc = "closeChip"         -> {"chip"}
    [] pc = "freeSettings"      -> {"chip", "settings"}
    [] pc = "freeLineConfig"    -> {"chip", "settings", "lineConfig"}
    [] pc = "freeRequestConfig" -> Resource
    [] OTHER                    -> {}

(***************************************************************************)
(* Whichever call fails, the label it jumps to gives back exactly what has *)
(* been taken: nothing is leaked and nothing is given back twice or        *)
(* without having been taken.                                              *)
(***************************************************************************)
GivesBackWhatItTook ==
  pc \notin {"newSettings", "newLineConfig", "addLine", "newRequestConfig", "requestLines"}
    => held = StillFreed

(***************************************************************************)
(* The threads only start when every zone has a request for both of its    *)
(* sensors, although no result is looked at: the ride does not run with a  *)
(* zone that sees one sensor, or none for want of a request.               *)
(***************************************************************************)
RideIsWatched ==
  pc = "threads" => \A i \in 1 .. NumZones : watched[i] = NumLines
=============================================================================
