------------------------------ MODULE LampsProofs ------------------------------
(***************************************************************************)
(* The lamps of the panel tell the mode, after any number of passes of the *)
(* firmware's loop.                                                        *)
(***************************************************************************)
EXTENDS Lamps, TLAPS

\* readState leaves mode and latches in agreement, until the mode is handled.
ModeInv ==
  fwPc = "handle" =>
    /\ state = RETURN_TO_SAFE <=> returnToSafe = 1
    /\ state = STOP => recoverEstop = 1

\* Only a START that was asked for can have its lamp blink.
AskedInv == "toggleStart" \in running => asked

LampInv == TypeOK /\ ModeInv /\ AskedInv /\ LampsTellMode

-----------------------------------------------------------------------------
LEMMA InitLamps == Init => LampInv
  BY DEF Init, LampInv, TypeOK, ModeInv, AskedInv, LampsTellMode, Ticker, Led,
         CheckoutLed, Mode, AUTOMATIC

LEMMA ReadStateKeeps == LampInv /\ ReadState => LampInv'
<1> SUFFICES ASSUME LampInv, ReadState
             PROVE  LampInv'
  OBVIOUS
<1> USE DEF LampInv, ReadState, latches, flags, phases
<1>1. TypeOK' /\ ModeInv'
  BY DEF TypeOK, ModeInv, ModeOf, SafeLatch, EstopLatch, Selector, Mode, Led,
         AUTOMATIC, MANUAL, MAINTENANCE, STOP, RETURN_TO_SAFE
<1>2. AskedInv'
  BY DEF AskedInv
<1>3. LampsTellMode'
  \* A latch that is set makes no lamp wrong.
  <2>1. returnToSafe' = 0 => returnToSafe = 0
    BY DEF SafeLatch, TypeOK
  <2>2. recoverEstop = 1 => recoverEstop' = 1
    BY DEF EstopLatch
  <2> QED
    BY <2>1, <2>2 DEF LampsTellMode
<1> QED
  BY <1>1, <1>2, <1>3

\* In RETURN_TO_SAFE nothing is promised, and acknowledging puts all lamps
\* out.
LEMMA CheckoutKeeps ==
  ASSUME LampInv, NEW due \in BOOLEAN,
         CheckoutOff(due) \/ CheckoutWaits(due) \/ CheckoutAcknowledged(due)
  PROVE  LampInv'
<1> USE DEF LampInv, GetSafe, Handle, Resumed
<1>1. TypeOK'
  BY DEF TypeOK, CheckoutOff, CheckoutWaits, CheckoutAcknowledged, CheckoutToggled,
         Update, Flip, Ticker, Led, CheckoutLed
<1>2. ModeInv' /\ AskedInv'
  BY DEF ModeInv, AskedInv, CheckoutOff, CheckoutWaits, CheckoutAcknowledged
<1>3. LampsTellMode'
  <2>1. returnToSafe = 1
    BY DEF ModeInv, CheckoutOff, CheckoutWaits, CheckoutAcknowledged
  <2> QED
    BY <2>1 DEF LampsTellMode, CheckoutOff, CheckoutWaits, CheckoutAcknowledged
<1> QED
  BY <1>1, <1>2, <1>3

LEMMA UpdateIsBoolean ==
  ASSUME NEW due \in BOOLEAN, NEW t \in Ticker
  PROVE  Update(t, due) \in BOOLEAN
  BY DEF Update

\* What the tickers can light.
LEMMA EmergencyLights ==
  ASSUME TypeOK, NEW fires \in BOOLEAN
  PROVE  EmergencyToggled(fires) \subseteq lit \cup {"ESTOP", "RESET"}
<1>1. CASE ~fires
  BY <1>1 DEF EmergencyToggled
<1>2. CASE fires /\ toggleState = 0
  BY <1>2 DEF EmergencyToggled
<1>3. CASE fires /\ toggleState = 1
  BY <1>3 DEF EmergencyToggled
<1> QED
  BY <1>1, <1>2, <1>3 DEF TypeOK

LEMMA StartLights ==
  ASSUME TypeOK, NEW fires \in BOOLEAN
  PROVE  /\ StartToggled(fires) \subseteq lit \cup {"RIDE_START"}
         /\ ~fires => StartToggled(fires) = lit
<1>1. CASE ~fires
  BY <1>1 DEF StartToggled
<1>2. CASE fires /\ toggleStateStartingLEDS = 0
  BY <1>2 DEF StartToggled
<1>3. CASE fires /\ toggleStateStartingLEDS = 1
  BY <1>3 DEF StartToggled
<1> QED
  BY <1>1, <1>2, <1>3 DEF TypeOK

\* In STOP the emergency stop is latched until RESET puts its lamps out.
LEMMA StopKeeps ==
  ASSUME LampInv, NEW due \in BOOLEAN,
         \/ EStopPressed(due) \/ EStopPressedMeanwhile(due)
         \/ ResetAwaited(due) \/ ResetPressed(due)
  PROVE  LampInv'
<1> USE DEF LampInv, Stopped, Handle, Resumed
<1>1. StopLit(due) \subseteq (lit \ {"RIDE_START"}) \cup {"ESTOP", "RESET"}
  BY EmergencyLights, UpdateIsBoolean DEF StopLit, Ticker
<1>2. lit' \subseteq StopLit(due)
  BY DEF EStopPressed, EStopPressedMeanwhile, ResetAwaited, ResetPressed
<1>3. TypeOK'
  <2>1. lit' \subseteq Led
    BY <1>1, <1>2 DEF TypeOK, Led, CheckoutLed
  <2>2. toggleState' \in {0, 1}
    BY DEF TypeOK, Flip, EStopPressed, EStopPressedMeanwhile, ResetAwaited,
           ResetPressed
  <2> QED
    BY <2>1, <2>2 DEF TypeOK, Ticker, EStopPressed, EStopPressedMeanwhile,
                      ResetAwaited, ResetPressed
<1>4. ModeInv' /\ AskedInv'
  BY DEF ModeInv, AskedInv, EStopPressed, EStopPressedMeanwhile, ResetAwaited,
         ResetPressed
<1>5. LampsTellMode'
  <2>1. returnToSafe = 0 /\ recoverEstop = 1
    BY DEF ModeInv, TypeOK, STOP, RETURN_TO_SAFE, EStopPressed,
           EStopPressedMeanwhile, ResetAwaited, ResetPressed
  <2>2. CASE ResetPressed(due)
    BY <1>1, <2>1, <2>2 DEF LampsTellMode, ResetPressed
  <2>3. CASE EStopPressed(due) \/ EStopPressedMeanwhile(due) \/ ResetAwaited(due)
    <3>1. recoverEstop' = 1
      BY <2>1, <2>3 DEF EStopPressed, EStopPressedMeanwhile, ResetAwaited
    <3> QED
      BY <1>1, <1>2, <2>1, <3>1 DEF LampsTellMode
  <2> QED
    BY <2>2, <2>3
<1> QED
  BY <1>3, <1>4, <1>5

\* The start lamp is only lit by its ticker, which runs while it is asked.
LEMMA ManualKeeps ==
  ASSUME LampInv, NEW due \in BOOLEAN,
         ManualUnasked(due) \/ ManualWaits(due) \/ ManualStarts(due)
  PROVE  LampInv'
<1> USE DEF LampInv, Handle, Resumed
<1> DEFINE fires == Update("toggleStart", due)
<1>1. /\ StartToggled(fires) \subseteq lit \cup {"RIDE_START"}
      /\ "toggleStart" \notin running => StartToggled(fires) = lit
  <2>1. fires \in BOOLEAN
    BY UpdateIsBoolean DEF Ticker
  <2>2. "toggleStart" \notin running => ~fires
    BY DEF Update
  <2> QED
    BY <2>1, <2>2, StartLights
<1>2. \/ lit' = StartToggled(fires)
      \/ lit' = lit \ {"RIDE_START"}
  BY DEF ManualUnasked, ManualWaits, ManualStarts
<1>3. TypeOK'
  <2>1. lit' \subseteq Led
    BY <1>1, <1>2 DEF TypeOK, Led, CheckoutLed
  <2>2. toggleStateStartingLEDS' \in {0, 1}
    BY DEF TypeOK, Flip, ManualUnasked, ManualWaits, ManualStarts
  <2> QED
    BY <2>1, <2>2 DEF TypeOK, ManualUnasked, ManualWaits, ManualStarts, latches,
                      flags, Ticker
<1>4. ModeInv' /\ AskedInv'
  BY DEF ModeInv, AskedInv, ManualUnasked, ManualWaits, ManualStarts, latches
<1>5. LampsTellMode'
  <2>1. CASE ManualStarts(due)
    BY <2>1 DEF LampsTellMode, ManualStarts, latches
  <2>2. CASE ManualWaits(due)
    BY <1>1, <2>2 DEF LampsTellMode, ManualWaits, latches
  <2>3. CASE ManualUnasked(due)
    BY <1>1, <2>3 DEF LampsTellMode, AskedInv, ManualUnasked, latches
  <2> QED
    BY <2>1, <2>2, <2>3
<1> QED
  BY <1>3, <1>4, <1>5

LEMMA PassKeeps == LampInv /\ [Next]_vars => LampInv'
<1> SUFFICES ASSUME LampInv, [Next]_vars
             PROVE  LampInv'
  OBVIOUS
<1>1. CASE MoveIgnition \/ MoveEstop \/ UNCHANGED vars
  BY <1>1 DEF MoveIgnition, MoveEstop, vars, switches, latches, flags, phases,
              LampInv, TypeOK, ModeInv, AskedInv, LampsTellMode
<1>2. CASE ReadState
  BY <1>2, ReadStateKeeps
<1>3. ASSUME NEW due \in BOOLEAN, Handler(due)
      PROVE  LampInv'
  <2>1. CASE AutomaticOrMaintenance
    BY <2>1 DEF AutomaticOrMaintenance, Handle, latches, flags, phases,
                LampInv, TypeOK, ModeInv, AskedInv, LampsTellMode
  <2> QED
    BY <1>3, <2>1, ManualKeeps, CheckoutKeeps, StopKeeps DEF Handler
<1> QED
  BY <1>1, <1>2, <1>3 DEF Next, Loop

-----------------------------------------------------------------------------
(***************************************************************************)
(* Latches, lamps and tickers keep their types, and the handlers' own flags  *)
(* (toggleStartBlinking and the like) agree with the tickers that run.     *)
(***************************************************************************)
THEOREM TypeCorrect == Spec => []TypeOK
<1>1. LampInv => TypeOK
  BY DEF LampInv
<1> QED
  BY <1>1, InitLamps, PassKeeps, PTL DEF Spec

(***************************************************************************)
(* Whatever modes, switches and tickers come in between, a lamp that is    *)
(* lit after the checkout means something, for ever.                       *)
(***************************************************************************)
THEOREM LampsAlwaysTellMode == Spec => []LampsTellMode
<1>1. LampInv => LampsTellMode
  BY DEF LampInv
<1> QED
  BY <1>1, InitLamps, PassKeeps, PTL DEF Spec
=============================================================================
