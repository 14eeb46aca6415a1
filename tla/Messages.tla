------------------------------ MODULE Messages ------------------------------
(***************************************************************************)
(* The message types of messages.h that controller and firmware exchange:  *)
(* the first byte of every payload.                                        *)
(***************************************************************************)
REQUEST_BUTTON_STATE == 0
SEND_BUTTON_STATE    == 1
CONTROL_SERVO_1      == 2  \* brake of the pre station
CONTROL_SERVO_2      == 3  \* brake of the ride
CONTROL_DC_1         == 4  \* motor of the station
CONTROL_DC_2         == 5  \* motor of the lift hill
SEND_CAN_SEND        == 6
RESPOND_CAN_SEND     == 7

Actuator == {CONTROL_SERVO_1, CONTROL_SERVO_2, CONTROL_DC_1, CONTROL_DC_2}
=============================================================================
