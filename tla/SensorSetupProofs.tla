-------------------------- MODULE SensorSetupProofs --------------------------
(***************************************************************************)
(* The start of the controller, for every number of zones.                 *)
(***************************************************************************)
EXTENDS SensorSetup, TLAPS

\* What request_input_lines has taken when it makes a call.
Taken ==
  CASE pc = "newSettings"                    -> {"chip"}
    [] pc = "newLineConfig"                  -> {"chip", "settings"}
    [] pc \in {"addLine", "newRequestConfig"} -> {"chip", "settings", "lineConfig"}
    [] pc = "requestLines"                   -> Resource
    [] OTHER                                 -> StillFreed

\* GivesBackWhatItTook says nothing of the calls that take, from which the
\* labels are reached.
HeldInv == held = Taken

\* A request is for all lines or there is none, because it is only made when
\* every line has its settings.
RequestInv ==
  /\ request \in {0, NumLines}
  /\ pc \in {"open", "newSettings", "newLineConfig"} => added = 0
  /\ pc = "addLine" => added < NumLines
  /\ pc \in {"newRequestConfig", "requestLines"} => added = NumLines

\* The zones that main is done with have theirs.
WatchedInv ==
  /\ \A i \in 1 .. NumZones : i < current => watched[i] = NumLines
  /\ pc \in {"newBuffer", "getValue", "threads"} => watched[current] = NumLines
  /\ pc = "threads" => current = NumZones

SetupInv == TypeOK /\ HeldInv /\ RequestInv /\ WatchedInv

-----------------------------------------------------------------------------
LEMMA InitSetup == Init => SetupInv
  BY SetupAssumption DEF Init, SetupInv, TypeOK, HeldInv, Taken, StillFreed,
     RequestInv, WatchedInv, NumLines, Resource

\* The calls of request_input_lines touch no zone.
LEMMA AcquireKeeps ==
  ASSUME SetupInv,
         \/ OpenChip \/ NewSettings \/ NewLineConfig \/ NewRequestConfig
  PROVE  SetupInv'
<1> USE DEF SetupInv, Acquire, local, zones
<1>1. TypeOK'
  BY DEF TypeOK, OpenChip, NewSettings, NewLineConfig, NewRequestConfig, Resource
<1>2. HeldInv'
  BY DEF HeldInv, Taken, StillFreed, OpenChip, NewSettings, NewLineConfig,
         NewRequestConfig, Resource
<1>3. RequestInv'
  BY DEF RequestInv, NumLines, OpenChip, NewSettings, NewLineConfig, NewRequestConfig
<1>4. WatchedInv'
  BY DEF WatchedInv, OpenChip, NewSettings, NewLineConfig, NewRequestConfig
<1> QED
  BY <1>1, <1>2, <1>3, <1>4

LEMMA FreeKeeps ==
  ASSUME SetupInv,
         \/ FreeRequestConfig \/ FreeLineConfig \/ FreeSettings \/ CloseChip
  PROVE  SetupInv'
<1> USE DEF SetupInv, Free, local, zones
<1>1. TypeOK'
  BY DEF TypeOK, FreeRequestConfig, FreeLineConfig, FreeSettings, CloseChip
<1>2. HeldInv'
  BY DEF HeldInv, Taken, StillFreed, FreeRequestConfig, FreeLineConfig,
         FreeSettings, CloseChip, Resource
<1>3. RequestInv'
  BY DEF RequestInv, FreeRequestConfig, FreeLineConfig, FreeSettings, CloseChip
<1>4. WatchedInv'
  BY DEF WatchedInv, FreeRequestConfig, FreeLineConfig, FreeSettings, CloseChip
<1> QED
  BY <1>1, <1>2, <1>3, <1>4

LEMMA StepKeeps == SetupInv /\ [Next]_vars => SetupInv'
<1> SUFFICES ASSUME SetupInv, [Next]_vars
             PROVE  SetupInv'
  OBVIOUS
<1> USE SetupAssumption
<1>1. CASE OpenChip \/ NewSettings \/ NewLineConfig \/ NewRequestConfig
  BY <1>1, AcquireKeeps
<1>2. CASE FreeRequestConfig \/ FreeLineConfig \/ FreeSettings \/ CloseChip
  BY <1>2, FreeKeeps
<1>3. CASE AddLine
  <2> USE DEF SetupInv
  <2>1. TypeOK' /\ RequestInv'
    BY <1>3 DEF AddLine, TypeOK, RequestInv, NumLines, zones
  <2>2. HeldInv'
    BY <1>3 DEF AddLine, HeldInv, Taken, StillFreed, NumLines
  <2>3. WatchedInv'
    BY <1>3 DEF AddLine, WatchedInv, zones
  <2> QED
    BY <2>1, <2>2, <2>3
<1>4. CASE RequestLines
  <2> USE DEF SetupInv
  <2>1. TypeOK' /\ RequestInv'
    BY <1>4 DEF RequestLines, TypeOK, RequestInv, NumLines, zones
  <2>2. HeldInv'
    BY <1>4 DEF RequestLines, HeldInv, Taken, StillFreed
  <2>3. WatchedInv'
    BY <1>4 DEF RequestLines, WatchedInv, zones
  <2> QED
    BY <2>1, <2>2, <2>3
<1>5. CASE GetFd
  <2> USE DEF SetupInv
  <2>1. TypeOK' /\ RequestInv'
    BY <1>5 DEF GetFd, TypeOK, RequestInv, local
  <2>2. HeldInv'
    BY <1>5 DEF GetFd, HeldInv, Taken, StillFreed, local
  <2>3. WatchedInv'
    BY <1>5 DEF GetFd, WatchedInv, TypeOK, RequestInv, local, NumLines
  <2> QED
    BY <2>1, <2>2, <2>3
<1>6. CASE NewBuffer
  BY <1>6 DEF SetupInv, NewBuffer, TypeOK, HeldInv, Taken, StillFreed, RequestInv,
              WatchedInv, local
<1>7. CASE GetValue
  <2> USE DEF SetupInv
  <2>1. TypeOK' /\ RequestInv'
    BY <1>7 DEF GetValue, TypeOK, RequestInv, zones, NumLines
  <2>2. HeldInv'
    BY <1>7 DEF GetValue, HeldInv, Taken, StillFreed
  <2>3. WatchedInv'
    BY <1>7 DEF GetValue, WatchedInv, TypeOK, zones
  <2> QED
    BY <2>1, <2>2, <2>3
<1>8. CASE UNCHANGED vars
  BY <1>8 DEF SetupInv, TypeOK, HeldInv, Taken, StillFreed, RequestInv, WatchedInv,
              vars, local, zones
<1> QED
  BY <1>1, <1>2, <1>3, <1>4, <1>5, <1>6, <1>7, <1>8 DEF Next

LEMMA SetupIsInductive == Spec => []SetupInv
  BY InitSetup, StepKeeps, PTL DEF Spec

-----------------------------------------------------------------------------
(***************************************************************************)
(* Every variable of the setup keeps its type, in each of its calls.       *)
(***************************************************************************)
THEOREM TypeCorrect == Spec => []TypeOK
<1>1. SetupInv => TypeOK
  BY DEF SetupInv
<1> QED
  BY <1>1, SetupIsInductive, PTL

(***************************************************************************)
(* Every exit of request_input_lines gives back what it took, in each of   *)
(* the calls that any number of zones makes of it.                         *)
(***************************************************************************)
THEOREM ExitsGiveBack == Spec => []GivesBackWhatItTook
<1>1. SetupInv => GivesBackWhatItTook
  BY DEF SetupInv, HeldInv, Taken, GivesBackWhatItTook
<1> QED
  BY <1>1, SetupIsInductive, PTL

(***************************************************************************)
(* However many zones main initialises, the threads start with a request   *)
(* for both sensors of each.                                               *)
(***************************************************************************)
THEOREM ThreadsWatchEveryZone == Spec => []RideIsWatched
<1>1. SetupInv => RideIsWatched
  <2> SUFFICES ASSUME SetupInv, pc = "threads", NEW i \in 1 .. NumZones
               PROVE  watched[i] = NumLines
    BY DEF RideIsWatched
  <2>1. current = NumZones /\ watched[current] = NumLines
    BY DEF SetupInv, WatchedInv
  <2>2. i < current \/ i = current
    BY <2>1, SetupAssumption
  <2> QED
    BY <2>1, <2>2 DEF SetupInv, WatchedInv
<1> QED
  BY <1>1, SetupIsInductive, PTL
=============================================================================
