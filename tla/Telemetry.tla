------------------------------ MODULE Telemetry ------------------------------
(***************************************************************************)
(* The acceleration of the trains on the operator's screen.  The ESP32 on  *)
(* a train sends a datagram every 100 ms; handleWifi receives them one by  *)
(* one and draws the last one when 10 ms brought none; the control thread  *)
(* draws the mode and the zones on the same screen once a round.  Both     *)
(* threads draw into the buffer of curses under curses_lock, and refresh() *)
(* brings all of the buffer to the screen, whoever drew it.                *)
(***************************************************************************)
EXTENDS Integers, FiniteSets

CONSTANTS
  Train,   \* the trains that have a sender: a set of numbers from 1
  Sample,  \* what a sender may measure
  AirSize  \* bound of the model: datagrams in the air or in the socket

ASSUME TelemetryAssumption ==
  /\ Train \subseteq 1 .. 3
  /\ AirSize \in Nat \ {0}

VARIABLES
  air,     \* datagrams sent and not received; UDP keeps no order
  msg,     \* handleWifi's buffer
  wifiPc,  \* handleWifi: "start", "select", "lock", "draw" or "refresh"
  ctrlPc,  \* the control thread: "drive", "lock" or "draw"
  lock,    \* curses_lock: who holds it
  rows,    \* rows[i]: the numbers of train i in the buffer of curses
  screen   \* the same on the terminal

vars == <<air, msg, wifiPc, ctrlPc, lock, rows, screen>>

\* The numbers of a reading tell who took it.
Reading  == Train \X Sample
Datagram == {[id |-> r[1], data |-> r] : r \in Reading}
Zero     == <<0, "zero">>
Garbage  == <<0, "garbage">>

\* The lock is in the hands of the thread that draws.
TypeOK ==
  /\ air \subseteq Datagram /\ Cardinality(air) <= AirSize
  /\ msg \in Datagram \cup [id : 0 .. 3, data : {Garbage}]
  /\ wifiPc \in {"start", "select", "lock", "draw", "refresh"}
  /\ ctrlPc \in {"drive", "lock", "draw"}
  /\ lock \in {"free", "wifi", "control"}
  /\ lock = "wifi" <=> wifiPc \in {"draw", "refresh"}
  /\ lock = "control" <=> ctrlPc = "draw"
  /\ rows \in [1 .. 3 -> Reading \cup {Zero, Garbage}]
  /\ screen \in [1 .. 3 -> Reading \cup {Zero, Garbage}]

\* msg is not initialised: it may look like a datagram of any train.
Init ==
  /\ air = {}
  /\ msg \in [id : 0 .. 3, data : {Garbage}]
  /\ wifiPc = "start"
  /\ ctrlPc = "drive"
  /\ lock = "free"
  /\ rows = [i \in 1 .. 3 |-> Zero]
  /\ screen = rows

-----------------------------------------------------------------------------
\* readIMU and a datagram of TRAIN and six numbers, 14 bytes in all.
SendDatagram(t) ==
  /\ Cardinality(air) < AirSize
  /\ \E s \in Sample : air' = air \cup {[id |-> t, data |-> <<t, s>>]}
  /\ UNCHANGED <<msg, wifiPc, ctrlPc, lock, rows, screen>>

Lose(d) ==
  /\ air' = air \ {d}
  /\ UNCHANGED <<msg, wifiPc, ctrlPc, lock, rows, screen>>

-----------------------------------------------------------------------------
(***************************************************************************)
(* handleWifi.                                                             *)
(***************************************************************************)
\* The first rows, all zero, drawn and refreshed under the lock.
FirstRows ==
  /\ wifiPc = "start"
  /\ lock = "free"
  /\ rows' = [i \in 1 .. 3 |-> Zero]
  /\ screen' = rows'
  /\ wifiPc' = "select"
  /\ UNCHANGED <<air, msg, ctrlPc, lock>>

\* recieve returns 14, which handleWifi takes as nothing to draw.
Receive ==
  /\ wifiPc = "select"
  /\ \E d \in air : msg' = d /\ air' = air \ {d}
  /\ UNCHANGED <<wifiPc, ctrlPc, lock, rows, screen>>

\* Nothing within 10 ms (1), a select or recvfrom that fails (1 or -1): what
\* is in the buffer is drawn.  A datagram in the air has not arrived yet.
ReceiveNothing ==
  /\ wifiPc = "select"
  /\ wifiPc' = "lock"
  /\ UNCHANGED <<air, msg, ctrlPc, lock, rows, screen>>

\* Mutant of Lock: it does not wait.
TryLock ==
  /\ wifiPc = "lock"
  /\ lock' = "wifi"
  /\ wifiPc' = "draw"
  /\ UNCHANGED <<air, msg, ctrlPc, rows, screen>>

Lock ==
  /\ wifiPc = "lock"
  /\ lock = "free"
  /\ lock' = "wifi"
  /\ wifiPc' = "draw"
  /\ UNCHANGED <<air, msg, ctrlPc, rows, screen>>

\* Mutant of Draw: whatever is not train 2 is train 3.
DrawOrElse ==
  /\ wifiPc = "draw"
  /\ rows' = [i \in 1 .. 3 |->
       IF i = msg.id \/ (i = 3 /\ msg.id # 2) THEN msg.data ELSE rows[i]]
  /\ wifiPc' = IF msg.id \in {2, 3} THEN "refresh" ELSE "select"
  /\ lock' = IF msg.id \in {2, 3} THEN lock ELSE "free"
  /\ UNCHANGED <<air, msg, ctrlPc, screen>>

\* Mutant of Draw: the branch that continues keeps the lock.
DrawWithoutUnlock ==
  /\ wifiPc = "draw"
  /\ rows' = [i \in 1 .. 3 |-> IF i = msg.id THEN msg.data ELSE rows[i]]
  /\ wifiPc' = IF msg.id \in {2, 3} THEN "refresh" ELSE "select"
  /\ UNCHANGED <<air, msg, ctrlPc, lock, screen>>

\* The test for train 1 is not joined to the others by an else: its rows are
\* drawn, and then the branch for unknown trains unlocks and continues.
Draw ==
  /\ wifiPc = "draw"
  /\ rows' = [i \in 1 .. 3 |-> IF i = msg.id THEN msg.data ELSE rows[i]]
  /\ wifiPc' = IF msg.id \in {2, 3} THEN "refresh" ELSE "select"
  /\ lock' = IF msg.id \in {2, 3} THEN lock ELSE "free"
  /\ UNCHANGED <<air, msg, ctrlPc, screen>>

Refresh ==
  /\ wifiPc = "refresh"
  /\ screen' = rows
  /\ lock' = "free"
  /\ wifiPc' = "select"
  /\ UNCHANGED <<air, msg, ctrlPc, rows>>

Wifi == Receive \/ ReceiveNothing \/ Draw \/ Refresh

-----------------------------------------------------------------------------
(***************************************************************************)
(* The control thread: a round ends and the next one draws.                *)
(***************************************************************************)
EndRound ==
  /\ ctrlPc = "drive"
  /\ ctrlPc' = "lock"
  /\ UNCHANGED <<air, msg, wifiPc, lock, rows, screen>>

ControlLock ==
  /\ ctrlPc = "lock"
  /\ lock = "free"
  /\ lock' = "control"
  /\ ctrlPc' = "draw"
  /\ UNCHANGED <<air, msg, wifiPc, rows, screen>>

\* Mutant of ControlDraw: leaves the refresh to handleWifi.
ControlDrawOnly ==
  /\ ctrlPc = "draw"
  /\ lock' = "free"
  /\ ctrlPc' = "drive"
  /\ UNCHANGED <<air, msg, wifiPc, rows, screen>>

ControlDraw ==
  /\ ctrlPc = "draw"
  /\ screen' = rows
  /\ lock' = "free"
  /\ ctrlPc' = "drive"
  /\ UNCHANGED <<air, msg, wifiPc, rows>>

Next ==
  \/ \E t \in Train : SendDatagram(t)
  \/ \E d \in air : Lose(d)
  \/ FirstRows
  \/ Lock
  \/ Wifi
  \/ EndRound
  \/ ControlLock
  \/ ControlDraw

Spec == Init /\ [][Next]_vars

\* Both threads loop for ever.  Each holds the lock only while it draws and
\* waits without it, for datagrams or for replies of the firmware, so the
\* other one gets it in the end; and there are pauses of 10 ms in which no
\* datagram comes.  Nothing is assumed of the network.
Fairness ==
  /\ WF_vars(Wifi)
  /\ SF_vars(ReceiveNothing)
  /\ SF_vars(FirstRows)
  /\ SF_vars(Lock)
  /\ WF_vars(EndRound)
  /\ SF_vars(ControlLock)
  /\ WF_vars(ControlDraw)

FairSpec == Spec /\ Fairness

-----------------------------------------------------------------------------
(***************************************************************************)
(* The numbers on the screen are of the train they are shown for.  Only    *)
(* the buffer of handleWifi, drawn before the first datagram, can put one  *)
(* train's row to something that nobody sent.                              *)
(***************************************************************************)
RowsAreTrue ==
  /\ \A i \in 1 .. 3 : screen[i] \in {Zero, Garbage} \cup ({i} \X Sample)
  /\ Cardinality({i \in 1 .. 3 : screen[i] = Garbage}) <= 1

(***************************************************************************)
(* The display never keeps the control thread from its rounds: handleWifi  *)
(* gives curses_lock back on each of its ways through the loop.            *)
(***************************************************************************)
RoundsGoOn == []<>(ctrlPc = "drive")

(***************************************************************************)
(* A datagram that stays the last one gets to the screen.  For train 1 it  *)
(* takes both threads: handleWifi draws without refresh() and leaves it to *)
(* the next round of the control thread.                                   *)
(***************************************************************************)
HeardIsShown ==
  \A d \in Datagram : msg = d ~> screen[d.id] = d.data \/ msg # d
=============================================================================
