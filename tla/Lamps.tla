-------------------------------- MODULE Lamps --------------------------------
(***************************************************************************)
(* The lamps of the firmware's panel.  Three tickers blink them: one asks  *)
(* for the checkout, one for START, one for RESET.  A handler starts its   *)
(* ticker when it has to ask and pauses it when it is answered; a ticker   *)
(* blinks only while its handler runs, and two of them share toggleState.  *)
(* A mode that is left in between leaves its ticker and lamps behind.      *)
(*                                                                         *)
(* Of the packets only the controller's question for START matters here,   *)
(* and of the passes only reading the panel and handling the mode.         *)
(* Ignition and stop are switches that move at any time, buttons are       *)
(* pressed or not whenever they are read.  The Ticker library is external: *)
(* a running ticker may be due at any update.                              *)
(***************************************************************************)
EXTENDS Integers, Panel

VARIABLES
  ignition, estop,            \* the switches
  returnToSafe, recoverEstop, \* the latches
  state,                      \* the mode of this pass
  fwPc,                       \* "start" of a pass or "handle"
  lit,                        \* the lamps that are on
  running,                    \* the tickers that are not paused
  checkoutBlinking, toggleStartBlinking, emergencyStopBlinking,
  toggleState,                \* phase of the checkout and the reset lamps
  toggleStateStartingLEDS,    \* phase of the start lamp
  asked                       \* START was asked for and not answered yet

switches == <<ignition, estop>>
latches  == <<returnToSafe, recoverEstop>>
flags    == <<checkoutBlinking, toggleStartBlinking, emergencyStopBlinking>>
phases   == <<toggleState, toggleStateStartingLEDS>>
vars == <<switches, latches, state, fwPc, lit, running, flags, phases, asked>>

Ticker == {"ledToggle", "toggleStart", "toggleEmergency"}

\* The lamps that the checkout blinks against ACKNOWLEDGE.
CheckoutLed == {"ESTOP", "LIFT_START", "RIDE_START", "RIDE_STOP", "LIFT_STOP", "RESET"}
Led == CheckoutLed \cup {"ACKNOWLEDGE", "IGNITION"}

\* Between passes a ticker runs exactly when its flag says so.
TypeOK ==
  /\ ignition \in BOOLEAN /\ estop \in BOOLEAN
  /\ returnToSafe \in {0, 1} /\ recoverEstop \in {0, 1}
  /\ state \in Mode
  /\ fwPc \in {"start", "handle"}
  /\ lit \subseteq Led
  /\ running \subseteq Ticker
  /\ checkoutBlinking = (IF "ledToggle" \in running THEN 1 ELSE 0)
  /\ toggleStartBlinking = (IF "toggleStart" \in running THEN 1 ELSE 0)
  /\ emergencyStopBlinking = (IF "toggleEmergency" \in running THEN 1 ELSE 0)
  /\ toggleState \in {0, 1} /\ toggleStateStartingLEDS \in {0, 1}
  /\ asked \in BOOLEAN

\* The globals and setup(), which turns all lamps on and off again.
Init ==
  /\ ignition \in BOOLEAN /\ estop \in BOOLEAN
  /\ returnToSafe = 1 /\ recoverEstop = 0
  /\ state = 0
  /\ fwPc = "start"
  /\ lit = {}
  /\ running = {}
  /\ checkoutBlinking = 0
  /\ toggleStartBlinking = 0
  /\ emergencyStopBlinking = 0
  /\ toggleState = 0 /\ toggleStateStartingLEDS = 0
  /\ asked = FALSE

-----------------------------------------------------------------------------
MoveIgnition ==
  /\ ignition' = ~ignition
  /\ UNCHANGED <<estop, latches, state, fwPc, lit, running, flags, phases, asked>>

MoveEstop ==
  /\ estop' = ~estop
  /\ UNCHANGED <<ignition, latches, state, fwPc, lit, running, flags, phases, asked>>

\* The ignition is read twice and may move in between.
ReadState ==
  /\ fwPc = "start"
  /\ fwPc' = "handle"
  /\ lit' = IF ignition THEN lit \cup {"IGNITION"} ELSE lit \ {"IGNITION"}
  /\ ignition' \in BOOLEAN
  /\ \E selector \in Selector :
       state' = ModeOf(returnToSafe, recoverEstop, ignition', estop, selector)
  /\ returnToSafe' = SafeLatch(returnToSafe, recoverEstop, ignition')
  /\ recoverEstop' = EstopLatch(returnToSafe, recoverEstop, ignition', estop)
  /\ UNCHANGED <<estop, running, flags, phases, asked>>

-----------------------------------------------------------------------------
Handle(m) ==
  /\ fwPc = "handle"
  /\ state = m
  /\ fwPc' = "start"
  /\ UNCHANGED <<ignition, state>>

\* Ticker::update calls the function of a ticker that is running and due.
Update(t, due) == due /\ t \in running

\* A ticker is only resumed when its flag says that it is paused.
Resumed(t, blinking) == IF blinking = 0 THEN running \cup {t} ELSE running

Flip(phase, fires) == IF fires THEN 1 - phase ELSE phase

AutomaticOrMaintenance ==
  /\ Handle(AUTOMATIC) \/ Handle(MAINTENANCE)
  /\ lit' = lit \ {"RIDE_START"}
  /\ UNCHANGED <<estop, latches, running, flags, phases, asked>>

\* toggleStartLeds
StartToggled(fires) ==
  CASE fires /\ toggleStateStartingLEDS = 1 -> lit \cup {"RIDE_START"}
    [] fires /\ toggleStateStartingLEDS = 0 -> lit \ {"RIDE_START"}
    [] ~fires -> lit

\* MANUAL without the controller's question.
ManualUnasked(due) ==
  LET fires == Update("toggleStart", due) IN
    /\ Handle(MANUAL)
    /\ lit' = StartToggled(fires)
    /\ toggleStateStartingLEDS' = Flip(toggleStateStartingLEDS, fires)
    /\ UNCHANGED <<estop, latches, running, flags, toggleState, asked>>

\* The lamp begins to blink and goes on until START is found pressed.
ManualWaits(due) ==
  LET fires == Update("toggleStart", due) IN
    /\ Handle(MANUAL)
    /\ lit' = StartToggled(fires)
    /\ toggleStateStartingLEDS' = Flip(toggleStateStartingLEDS, fires)
    /\ toggleStartBlinking' = 1
    /\ running' = Resumed("toggleStart", toggleStartBlinking)
    /\ asked' = TRUE
    /\ UNCHANGED <<estop, latches, checkoutBlinking, emergencyStopBlinking, toggleState>>

\* Mutant of ManualStarts: the ticker is not paused.
ManualStartsWithoutPause(due) ==
  LET fires == Update("toggleStart", due) IN
    /\ Handle(MANUAL)
    /\ lit' = lit \ {"RIDE_START"}
    /\ toggleStateStartingLEDS' = Flip(toggleStateStartingLEDS, fires)
    /\ toggleStartBlinking' = 0
    /\ asked' = FALSE
    /\ UNCHANGED <<estop, latches, running, checkoutBlinking, emergencyStopBlinking,
                   toggleState>>

ManualStarts(due) ==
  LET fires == Update("toggleStart", due) IN
    /\ Handle(MANUAL)
    /\ lit' = lit \ {"RIDE_START"}
    /\ toggleStateStartingLEDS' = Flip(toggleStateStartingLEDS, fires)
    /\ toggleStartBlinking' = 0
    /\ running' = running \ {"toggleStart"}
    /\ asked' = FALSE
    /\ UNCHANGED <<estop, latches, checkoutBlinking, emergencyStopBlinking, toggleState>>

-----------------------------------------------------------------------------
\* getSafe puts the start lamp out in every pass, then checkout() lets the
\* ticker work.
CheckoutToggled(fires) ==
  CASE fires /\ toggleState = 1 -> (lit \ {"ACKNOWLEDGE"}) \cup CheckoutLed
    [] fires /\ toggleState = 0 -> (lit \cup {"ACKNOWLEDGE"}) \ CheckoutLed
    [] ~fires -> lit \ {"RIDE_START"}

GetSafe(due) ==
  /\ Handle(RETURN_TO_SAFE)
  /\ toggleState' = Flip(toggleState, Update("ledToggle", due))
  /\ recoverEstop' = IF estop THEN 1 ELSE recoverEstop
  /\ UNCHANGED <<estop, toggleStartBlinking, emergencyStopBlinking,
                 toggleStateStartingLEDS, asked>>

CheckoutOff(due) ==
  /\ GetSafe(due)
  /\ ~ignition
  /\ running' = running \ {"ledToggle"}
  /\ checkoutBlinking' = 0
  /\ lit' = {}
  /\ UNCHANGED returnToSafe

CheckoutWaits(due) ==
  /\ GetSafe(due)
  /\ ignition
  /\ lit' = CheckoutToggled(Update("ledToggle", due)) \cup {"IGNITION"}
  /\ running' = Resumed("ledToggle", checkoutBlinking)
  /\ checkoutBlinking' = 1
  /\ UNCHANGED returnToSafe

\* Mutant of CheckoutAcknowledged: only its own lamp is put out.
CheckoutAcknowledgedOneLamp(due) ==
  /\ GetSafe(due)
  /\ ignition
  /\ lit' = CheckoutToggled(Update("ledToggle", due)) \ {"ACKNOWLEDGE"}
  /\ running' = running \ {"ledToggle"}
  /\ checkoutBlinking' = 0
  /\ returnToSafe' = 0

CheckoutAcknowledged(due) ==
  /\ GetSafe(due)
  /\ ignition
  /\ lit' = {}
  /\ running' = running \ {"ledToggle"}
  /\ checkoutBlinking' = 0
  /\ returnToSafe' = 0

-----------------------------------------------------------------------------
\* emergencyStop: its lamp is on while the ticker works.
EmergencyToggled(fires) ==
  {"ESTOP"} \cup
    CASE fires /\ toggleState = 1 -> lit \cup {"RESET"}
      [] fires /\ toggleState = 0 -> lit \ {"RESET"}
      [] ~fires -> lit

\* stop: afterwards the ignition is looked at.
Stopped(due) ==
  /\ Handle(STOP)
  /\ toggleState' = Flip(toggleState, Update("toggleEmergency", due))
  /\ returnToSafe' = IF ~ignition THEN 1 ELSE returnToSafe
  /\ UNCHANGED <<checkoutBlinking, toggleStartBlinking,
                 toggleStateStartingLEDS, asked>>

\* What it lights, with the start lamp put out before.
StopLit(due) ==
  EmergencyToggled(Update("toggleEmergency", due)) \ {"RIDE_START"}

\* Mutant of EStopPressed: the flag is kept.
EStopPressedKeepsFlag(due) ==
  /\ Stopped(due)
  /\ estop
  /\ lit' = StopLit(due)
  /\ running' = running \ {"toggleEmergency"}
  /\ UNCHANGED <<estop, recoverEstop, emergencyStopBlinking>>

EStopPressed(due) ==
  /\ Stopped(due)
  /\ estop
  /\ lit' = StopLit(due)
  /\ running' = running \ {"toggleEmergency"}
  /\ emergencyStopBlinking' = 0
  /\ UNCHANGED <<estop, recoverEstop>>

\* The switch is read again, and is pressed by then.
EStopPressedMeanwhile(due) ==
  /\ Stopped(due)
  /\ ~estop
  /\ estop' = TRUE
  /\ lit' = StopLit(due)
  /\ UNCHANGED <<recoverEstop, running, emergencyStopBlinking>>

ResetAwaited(due) ==
  /\ Stopped(due)
  /\ ~estop
  /\ lit' = StopLit(due)
  /\ running' = Resumed("toggleEmergency", emergencyStopBlinking)
  /\ emergencyStopBlinking' = 1
  /\ UNCHANGED <<estop, recoverEstop>>

ResetPressed(due) ==
  /\ Stopped(due)
  /\ ~estop
  /\ lit' = StopLit(due) \ {"ESTOP", "RESET"}
  /\ running' = running \ {"toggleEmergency"}
  /\ emergencyStopBlinking' = 0
  /\ recoverEstop' = 0
  /\ UNCHANGED estop

Handler(due) ==
  \/ AutomaticOrMaintenance
  \/ ManualUnasked(due)
  \/ ManualWaits(due)
  \/ ManualStarts(due)
  \/ CheckoutOff(due)
  \/ CheckoutWaits(due)
  \/ CheckoutAcknowledged(due)
  \/ EStopPressed(due)
  \/ EStopPressedMeanwhile(due)
  \/ ResetAwaited(due)
  \/ ResetPressed(due)

Loop == ReadState \/ \E due \in BOOLEAN : Handler(due)

Next ==
  \/ MoveIgnition
  \/ MoveEstop
  \/ Loop

Spec == Init /\ [][Next]_vars

\* The loop goes on (a packet once begun is finished), and a ticker that is
\* asked often enough is due at some of the times: pause() and resume() keep
\* the time that has passed.
FairSpec == Spec /\ WF_vars(Loop) /\ SF_vars(Handler(TRUE))

-----------------------------------------------------------------------------
(***************************************************************************)
(* Once the checkout is acknowledged a lamp that is lit means something:   *)
(* nothing is left on of the checkout, of an emergency stop that was       *)
(* reset, or of a START that was given, whichever modes came in between    *)
(* and left their tickers running.                                         *)
(***************************************************************************)
LampsTellMode ==
  returnToSafe = 0 =>
    /\ lit \subseteq {"IGNITION", "ESTOP", "RESET", "RIDE_START"}
    /\ lit \cap {"ESTOP", "RESET"} # {} => recoverEstop = 1
    /\ "RIDE_START" \in lit => asked

Blinks(led) == []<>(led \in lit) /\ []<>(led \notin lit)

(***************************************************************************)
(* The operator is invited to do what the ride waits for, as long as it    *)
(* waits: the lamp of the button blinks, although its ticker was left      *)
(* paused or running, in either phase, when the mode was left before.      *)
(***************************************************************************)
Invited ==
  /\ <>[](state = RETURN_TO_SAFE /\ ignition) => Blinks("ACKNOWLEDGE")
  /\ <>[](state = STOP /\ ~estop) => Blinks("RESET")
  /\ <>[](state = MANUAL /\ asked) => Blinks("RIDE_START")
=============================================================================
