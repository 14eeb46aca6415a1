# TLA+ verification of the roller coaster controller

The repository controls a model roller coaster. A Raspberry Pi (`src/Pi`) reads
eight track sensors, decides which train may move and commands two motors and
two brakes over a serial line to an AtMega (`src/AtMega`), which drives the
outputs and reads the operator's panel. An ESP32 on every train
(`src/ESP32`) sends its acceleration by WiFi to a display on the Pi.

This directory holds TLA+ modules of that program, TLC configurations that
check them on small instances, and theorems that TLAPS proves for every value
of the constants. `PROJECT.json` lists components, runs, hazards, theorems and
which source lines each definition stands for.

    tlc -config Blocks.cfg CoasterBlocks.tla     # the module of a run: see "Runs"
    tlapm BrakeZoneProofs.tla

## 1. Inventory

| part | source | state | operations | talks to |
|---|---|---|---|---|
| brake zone monitors (4 threads) | `brakeZone.cpp`, `edge-event.c` | `internalState`, `fallLast`, `timeouts`, `eventBuff` | `updateInternalState` | kernel edge FIFO; control thread by `internalState` under a mutex |
| control thread | `controller.c:160-446` | `state` (mode), `release_go`, a copy of each zone's state | a round: copy zones, poll the mode, command hill, station, pre station, ride | monitors, serial link, curses lock |
| serial link (Pi) | `serial.cpp` | the tty's queues | `sendPacket`, `recvPacket`, `updateCoasterState`, `sendCanSend`, commands | firmware |
| firmware loop | `arduinoSerialRead.ino` | `returnToSafe`, `recoverEstop`, `state`, `msg`, outputs | `readState`, frame reader, a handler per mode | Pi, panel, actuators |
| panel lamps | same, `Ticker`s | three blink flags, two phases, the lamps | toggles, pause, resume | operator, mode handlers |
| sensor setup | `sensorSetup.c`, `brakeZone::init`, `main` | the requests of the zones | `request_input_lines` | libgpiod |
| telemetry | `controller.c:29-126`, `udpRecieve.c`, `wifiWrite.ino` | last datagram, the rows of the screen | `recieve`, display | curses lock |
| prototypes, vendored headers, notes | see `PROJECT.json` | - | - | - |

The track is a ring: station -> lift hill -> ride -> pre station -> station.
Each zone has an entry and a stop sensor. A zone is `EMPTY`, `ENTERING` (entry
sensor covered) or `ENTERED` (stop sensor covered), and `EMPTY` again when the
stop sensor was the last one uncovered and 500 polls of 2 ms brought no edge.

What is hard here:

* five threads: zone states change while a round copies them one by one, polls
  the panel for up to 50 ms and then acts on the copies;
* edges come in batches, get lost when the FIFO is full, and race with the poll
  that declares a zone left;
* the serial line loses the end of packets (the code discards its own output
  queue), replies come late or in part, and the code tells neither;
* a failed write ends the controller in the middle of a packet, and the next one
  meets what its predecessor left on the line;
* the emergency stop is a latch in the firmware, a mode in the controller and a
  command back to the firmware;
* the permission to dispatch a train (`release_go`) is state that outlives the
  round, and sometimes the train, it was given for.

What makes each part correct:

* monitor: a zone with a train in it is never given up, one that was left
  becomes `EMPTY`, a held train is reported;
* control thread: one train per block, trains released only into free blocks,
  dispatch confirmed in MANUAL, stop stops, the ride does not gridlock;
* link: a damaged packet harms neither the next whole one nor another actuator,
  stale replies are not believed;
* firmware: nothing moves before the checkout, the emergency stop is kept until
  its reset, a lamp that is lit means something;
* sensor setup: every exit gives back what was taken, and the threads only start
  with both sensors of every zone;
* telemetry: a row shows its own train, what is heard is shown, the display does
  not hold up the ride.

## 2. Modules

| module | models | built on |
|---|---|---|
| `StateMachine` | the enums of `stateMachine.h` | |
| `Messages` | the message types of `messages.h` | |
| `BrakeZone` | one zone: sensors, kernel FIFO, monitor thread, the copy for the control thread | `StateMachine` |
| `TrackZone` | abstract: what a zone promises and what it asks of trains | `StateMachine` |
| `ZoneTrain` | a zone and a train that runs through it for ever; implements `TrackZone` | `BrakeZone` |
| `BrakeZoneProofs` | theorems about `BrakeZone` and `ZoneTrain` | `ZoneTrain`, `TLAPS` |
| `Interlock` | what the controller commands, as functions of mode and zone states | `StateMachine` |
| `Coaster` | control thread, four zones, trains on the ring, panel | `Interlock`, `Messages` |
| `MCCoaster` | symmetry of the trains for TLC | `Coaster` |
| `BlockSystem` | abstract: trains claim and release blocks of a ring | |
| `CoasterBlocks` | `Coaster` implements `BlockSystem` and four `TrackZone`s | `MCCoaster` |
| `BlockSystemProofs` | theorem about `BlockSystem` | `BlockSystem`, `TLAPS` |
| `CoasterProofs` | theorems about `Coaster` and its two refinements | `CoasterBlocks`, `TLAPS` |
| `SerialFrame` | packets to the firmware byte by byte | |
| `MCSerialFrame` | the payloads for TLC | `SerialFrame` |
| `SerialFrameProofs` | theorems about `SerialFrame` | `SerialFrame`, `TLAPS` |
| `Panel` | `readState`: the mode as a function of latches and switches | `StateMachine` |
| `Firmware` | the firmware's loop, its latches and outputs | `Panel`, `Interlock`, `Messages` |
| `ControlLink` | control thread and firmware on the two ends of the line | `Firmware` |
| `ControlLinkProofs` | theorems about `ControlLink` | `ControlLink`, `TLAPS` |
| `Lamps` | the firmware's lamps and tickers | `Panel` |
| `LampsProofs` | theorems about `Lamps` | `Lamps`, `TLAPS` |
| `Telemetry` | trains' datagrams, `handleWifi` and the control thread on one screen | |
| `TelemetryProofs` | theorems about `Telemetry` | `Telemetry`, `TLAPS` |
| `SensorSetup` | `main`, `brakeZone::init` and `request_input_lines` with failing calls | |
| `SensorSetupProofs` | theorems about `SensorSetup` | `SensorSetup`, `TLAPS` |

How they fit together:

    BrakeZone <- ZoneTrain  ==implements==>  TrackZone  (if trains keep apart)
    Coaster   <- CoasterBlocks ==implements==> 4 TrackZones  (trains do keep apart; proved)
                               ==implements==> BlockSystem -> Exclusive    (both proved)
    SerialFrame -> what the line does to a packet  -> ControlLink's Send and cut
    Firmware <- ControlLink -> what a poll may return -> Coaster's Reported

`Coaster` uses zones that are simpler than `BrakeZone`, and a link that is
simpler than `ControlLink`; the runs of the detailed modules check what it
assumes of them. A definition that a comment calls a mutant changes one
definition of the code the way a slip would; nothing uses them. `PROJECT.json`
pairs each with the property that fails when it replaces the original.

### BrakeZone

`updateInternalState` is split where another thread or the kernel can get in
between: `SelectTimesOut`, `SelectFails` (the select, outside any lock),
`CountTimeout` (the counter and the decision), `ReadEvents`, `ReadFails` (the
read of up to two edges) and one action per kind of edge (`EntryEdge`,
`StopCovered`, `StopUncovered`). A signed `int` that overflows is modelled as
it wraps. `Decode` swaps the two kinds of edge as `read_fd` does, because the
sensors pull their lines down. `UpdateState` is the control thread's copy; both
mutexes guard single assignments, so each critical section is one step. The
sensors change at any time in any order.

### TrackZone and ZoneTrain

`TrackZone` is the zone as a user of the class sees it: a train enters, covers
the stop sensor, leaves, and after its quiet time the zone is `EMPTY`. Its
trains keep apart: one comes only when the zone is `EMPTY`.

`ZoneTrain` puts a train into `BrakeZone`. It passes forwards again and again,
covering both sensors at once or disappearing between them, and may be faster
than the monitor. It may also stand anywhere in the zone at power-up, which the
constructor does not check. `crossed` says that it came over the entry sensor
since then; a train that did not is not promised anything, but its edges must
not hide the next one. A train with `apart` set keeps apart. For it the monitor
implements `TrackZone`, liveness included, under a refinement mapping that lets
the monitor catch up: `CaughtUp` folds the edges of batch and FIFO into the
zone's state. Trains that do not keep apart are still seen (`OccupiedIsSeen`).

A FIFO of four edges holds exactly one passage. A faster train overflows it, and
what is left still tells where the train is. The kernel's FIFO holds 32 edges.

### Interlock, Coaster and CoasterBlocks

`Interlock` folds the `if` chains of the five modes into one operator per
actuator. Branches that do the same are joined, and `NoCommand` stands for a
chain that falls through without sending, as STOP and RETURN_TO_SAFE do for an
`ENTERED` brake zone. `stopPreStation` and `releasePreStation(PRESTATION_STOP)`
send the same packet and are one command here, and so for the ride.

A step of `Coaster`'s control thread is one zone copied, the poll, the question
for START (`AskOperator`, up to 50 ms before the command that depends on the
answer), or one actuator commanded. The zones are abstracted to `internalState` and `fallLast`.

Assumptions of `Coaster` about the track, each needed:

* *A round is faster than a train.* Between the two sensors of a brake zone, and
  on the stop sensor of a motor zone, a round acts on what the monitors saw
  before the train goes on (`Driven`, `Released`, `unseen`). This is the
  distance the code relies on when it says "Half up to roll in easy".
* *Timely zones.* After leaving a zone in `Timely` a train reaches the next one,
  and a round has acted on that, before the quiet time of one second ends. If
  any one of the four zones is taken out of `Timely`, TLC finds a train let go
  into an occupied block: the quiet time is the only thing that keeps a zone
  reserved while its train is between two zones.
* *Quiet times end in the order in which a train left its zones.* They are
  equally long. Without it `DispatchConfirmed` fails.
* *Trains are rolled over an entry sensor after power-up.* The constructor's
  comment (`brakeZone.cpp:7`) says the check of parked trains is missing.
* *At most three trains.* The display knows three; four on four zones gridlock.
* *A command reaches its actuator at once* except in MAINTENANCE, where the
  firmware throws packets away. How the line really behaves is `ControlLink`'s
  and `SerialFrame`'s subject.

`Reported` is what a poll may make of the mode: the panel's, the old one (no
reply), and with `ShortReads` also AUTOMATIC, MANUAL or 7, a byte that is no
mode and skips the commands of a round. These are what a reply read byte by byte
can turn into; `ModeIsFresh` of the run `LinkLossy` checks that nothing else
comes out. The question for START is answered 1 only while the panel is in
MANUAL, be it by the button or by a reply of which only the type has come; the
panel may change before the command is sent.

`CoasterBlocks` states what the ride promises: every step is a step of
`BlockSystem`, where a train holds its block and, once let go, the one ahead;
and for each zone, no train comes before the zone is `EMPTY`, which is what
`TrackZone` asks and `ZoneTrain` relied on. The two together close the
circle of assumptions: the monitors are right as long as trains keep apart, and
the controller keeps trains apart as long as the monitors are right.

### SerialFrame

`sendPacket` writes a start byte, payload and stop byte and then flushes the
*output* queue, so any suffix of a packet may be missing. The firmware's reader
collects what is between a start and a stop byte, drops a frame with a sixth
byte, and waits inside a frame for ever. Payload bytes equal to a start or stop
byte do not occur among the controller's packets (`FrameAssumption`).

### Panel, Firmware and ControlLink

`Panel` is `readState` as three functions, shared by the two modules that need
it. `Firmware` has one action for `readState`, two for the frame reader (a frame
may begin in one pass and end much later, which is why the mode read before it
is stale), one per mode handler (two in MANUAL), one for bytes that reach the
Pi. Switches and buttons can change at any moment, so they are not variables
here: each read finds either position. `Followed` names the actuators whose
outputs are kept; what happens to the other commands is the same, only their
values are not recorded.

`ControlLink` adds the Pi's side. A round is the poll, `awaitMode`, and a
command to each actuator; the zone states are arbitrary in every step, so the
properties hold whatever the track does. `recvPacket` takes the first two bytes
of the queue as a reply and flushes the rest, with what has come in between the
read and the flush; the buffer's old content (0 in the poll, 1 in the question
for START) stands in for a second byte that did not come. The switches of the
model are

* `Lossy`: packets to the firmware are truncated or lost;
* `LateReplies`: a reply may take longer than 50 ms;
* `Together`: both bytes of a reply are in the queue at once; if `FALSE` they
  come one by one, and one may be read or thrown away without the other;
* `Exits`: a write may fail (`WriteFails`), which ends the controller after any
  part of the packet at work. `Start` is a controller started again, with its
  globals reset and the queues flushed by the constructor. The firmware does not
  notice: it stays inside a frame that was cut.

`reported`, `startSeen`, `acknowledged`, `unseen`, `confirmed`, `cut`, `crossed`
and `asked` are history for the properties; no action of the code reads them, with
the exceptions of `unseen`, which carries the timing assumption, and `cut`, which
marks a packet whose end is missing.

`ModeIsFresh` and `StartConfirmed` promise of a reply that is read whole that
the controller believes only what was reported since it last looked. Of one that
is not they name what it may be taken for. `InPart` tells the two apart by the
bytes alone: replies have two of them, so an odd number of bytes on their way
means that the first byte in the queue is the value of a reply whose type is
gone. A poll that is read in part may give AUTOMATIC, MANUAL or 7, and
an answer to the question for START counts as 1 in one case, with its type in
the queue and its value still on the line.

### Lamps

Here the two switches are variables, because the lamps are promised for switches
that stay. A handler resumes its ticker when its flag says paused, and pauses it
when it was answered; a ticker blinks only while its handler runs (`Update`).
The three tickers share two phases. Every handler is split by what it finds:
the checkout off, waiting or acknowledged; the stop pressed, pressed meanwhile,
waiting for RESET or reset; MANUAL not asked, waiting or started. The Ticker
library is external: a running ticker may be due at any update.

### Telemetry and SensorSetup

`Telemetry` models the buffer of curses (`rows`) apart from the terminal
(`screen`), because `refresh()` of either thread shows what both have drawn.
`Receive` is a datagram of 14 bytes, which the code takes as nothing to draw;
`ReceiveNothing` is the timeout after which the buffer is drawn. `msg` is
uninitialised at first and may look like any train's datagram.

`SensorSetup` goes through the calls of libgpiod one by one; each may fail and
jumps to its label. Labels fall into each other as in the source. A zone without
a request ends the process in the assertion of `gpiod_line_request_get_fd`.

## 3. Runs

| run | module | instance | what it shows |
|---|---|---|---|
| `BrakeZone` | `BrakeZone` | quiet limit 3, batch 2, FIFO 3, counter of -5..4 | `CoverNotLost`, `QuietCountSound`, `EmptyOnlyWhenUncovered` with any order of edges |
| `ZoneTrain` | `ZoneTrain` | quiet limit 3, batch 2, FIFO 4 | `OccupiedIsSeen`; `LeftBecomesEmpty`, `HeldBecomesEntered`, `ImplementsTrackZone` under fairness |
| `Blocks` | `CoasterBlocks` | 3 trains, all modes but MAINTENANCE, short reads | `OneTrainPerBlock`, `DispatchConfirmed`, `ImplementsBlockSystem`, `ImplementsTrackZones` |
| `Rides` | `MCCoaster` | 3 trains, AUTOMATIC and STOP | `RideRuns`, `StopStopsMotors` under fairness |
| `Maintenance` | `MCCoaster` | 1 train, MAINTENANCE and STOP | `StopStopsMotors` under fairness |
| `SerialFrame` | `MCSerialFrame` | 4 packets of 5 payloads | `WholeAfterWhole`, `NoForeignValue` |
| `LinkLossy` | `ControlLink` | truncation, late replies read byte by byte, exits and restarts | `ModeIsFresh`, `StartConfirmed` |
| `LinkSafe` | `ControlLink` | a line without faults, exits and restarts, both motors followed | `HillOffUntilCheckout`; `EStopStopsMotors` under fairness |
| `Lamps` | `Lamps` | the whole panel | `LampsTellMode`; `Invited` under fairness |
| `Telemetry` | `Telemetry` | 3 trains, 2 readings, 1 datagram in the air | `RowsAreTrue`; `RoundsGoOn`, `HeardIsShown` under fairness |
| `SensorSetup` | `SensorSetup` | 4 zones of 2 lines | `GivesBackWhatItTook`, `RideIsWatched` |
| `Comment` | `Coaster` | 1 train, AUTOMATIC | expected to fail, see "Finding" |

All but the last also check the type invariant of their module, where another
run of it does not.

Why the bounds are enough:

* `BrakeZone`, `ZoneTrain`: 500 polls become 3, enough to be interrupted before,
  at and after the limit; the counter wraps one above it; the FIFO overflows and
  batches of 2 split it. The theorems hold for all values.
* `Blocks`, `Rides`: three trains leave one free zone, the tightest traffic the
  ride allows. They do not hide a stale permission: if `ReleaseGo` does not take
  it back, `DispatchConfirmed` fails on this instance.
* `Maintenance`: the motors are shared by all trains, and one suffices to reach
  them in every state.
* `SerialFrame`: `MaxPackets` = 4 lets two truncated packets run into a whole one
  and another one follow; the payloads have one, two and three bytes. The bound
  stops the model, so this run does not check for deadlock.
* `LinkLossy`, `LinkSafe`: `InboxSize` = 1, with a packet being handled and a
  reply on the line, still lets three requests be under way.
* `Telemetry`: `AirSize` = 1 still lets datagrams of any train follow one
  another; what the bound leaves out is only their order, which UDP does not
  promise. Two readings tell an old number from a new one.
* `Lamps` and `SensorSetup` are complete. `SensorSetup` stops when the threads
  begin, so it does not check for deadlock.

`Blocks` uses the symmetry of the trains: every property of that run is a safety
property and treats the trains alike.

Fairness.

* `ZoneTrain`: both threads loop for ever (`while (active)`, and nothing clears
  `active`); signals do not interrupt every select, so edges that wait are read
  in the end (strong fairness of `ReadEvents`); the train may stop anywhere, as
  a held one does. `TrackZone`: the quiet time ends.
* `Coaster`: the control thread runs; a poll that can be answered again and again
  is answered truly once in a while (strong fairness of that case); trains that
  can move do; quiet times end. No fairness is assumed of the operator.
* `ControlLink`: both programs are endless loops. Buttons are never pressed for
  sure, and a controller that has ended is not started for sure.
* `Lamps`: the loop goes on (a packet once begun is finished), and a ticker that
  is asked again and again is due some of the times (strong fairness): pause and
  resume keep the time that has passed.
* `Telemetry`: both threads loop and wait without the lock, so each gets it in
  the end (strong fairness of the three lock steps); there are pauses of 10 ms
  without a datagram (the senders sleep 100 ms). Nothing is assumed of the
  network.

### Finding

`Comment`: the comments `// MOVE FORWARD` at `controller.c:257` and `350` (and
`240`, `389`, `436` in spirit) stand behind commands that keep the brake closed.
The model shows the round in which the ride is empty, a train waits on the hill
and the servo is sent `RIDE_STOP`. The code is right: a train must find the
brake closed when it arrives.

### Seen, but promised nowhere

These came up while modelling; no document, test or assertion says otherwise, so
they are hazards of `PROJECT.json` and limits of what the runs assume.

* A reply to the question for START of which only the type has come dispatches
  the train, whatever its value says (`StartConfirmed` excepts it). The
  permission is still good for one train only.
* A poll reply cut after its first byte makes the controller AUTOMATIC for a
  round, before the checkout as well. With late replies mode 7 can be adopted,
  in which the controller commands nothing until the next good poll.
* MAINTENANCE keeps `release_go`. With `PanelModes = {1, 2}` and two trains TLC
  finds the train after it dispatched with the permission of the one before.
* In RETURN_TO_SAFE the hill motor is not stopped while its zone is `ENTERING`,
  and an emergency stop pressed in that mode is only acted on after the
  checkout. `EStopStopsMotors` is therefore about the time after it.
* A failed write ends the controller, and the firmware keeps the last outputs.
  If the write failed in the middle of a packet the firmware is deaf, panel
  included, until more bytes come; and the type byte of a hill command followed
  by the start byte of the next packet runs the hill at 123, before the checkout
  too. `HillOffUntilCheckout` names this exception, and nothing else breaks it.
* A zone whose event buffer cannot be allocated stays `EMPTY` for ever, and the
  threads start all the same.
* A parked train is not seen until it crosses an entry sensor.
* Two trains that send in step: only the last datagram before a pause is drawn,
  so one of them may never be shown.
* MANUAL left with its question open keeps the ticker of the start lamp running;
  on return it asks for START although no train may be waiting.

## 4. Proofs

A theorem holds for every value of the constants that satisfies the assumption
named in its module and the hypotheses it states. Every invariant of a run is
one. The inductive invariants are stated in the proof modules; on the instances of
the runs TLC finds them true in every reachable state.

### What is assumed

| theorems | hypothesis | why the code has it |
|---|---|---|
| `BrakeZoneProofs` | `ZoneAssumption` | the limits are positive, the quiet limit fits into an `int` |
| `TrainIsSeen` | `FifoCap >= 3` | the kernel's FIFO holds 32 edges; with 2 TLC finds a train that is missed |
| `CoasterProofs` but `TypeCorrect` | `UnderControl`: all zones `Timely`, no MAINTENANCE | see "Interlock, Coaster and CoasterBlocks": every one of the quiet times is needed; in MAINTENANCE the brakes are open and the operator moves trains by hand |
| `HillWaitsForCheckout` | `Checkout`: both bytes of a reply come together, packets are whole unless the controller ends, the hill's output is followed | the run `LinkSafe`; with a reply read in part the controller is AUTOMATIC for a round ("Seen, but promised nowhere") |
| `SerialFrameProofs` | `FrameAssumption` | a payload of the controller has one to three bytes, none of them a start or a stop byte |
| all others | none but the types of the constants | |

Nothing else is assumed: the trains of the ride, the zones of the setup, the
packets, datagrams and requests under way may be any number.

### Zones

`BrakeZoneProofs` first treats the monitor alone: `TypeCorrect`,
`QuietCountIsSound` (`Spec => []QuietCountSound`), `CoverIsNotLost`
(`Spec => []CoverNotLost`) and `CoveredZoneIsKept`
(`Spec => EmptyOnlyWhenUncovered`, the action property).

`QuietCountSound` is not inductive by itself: between a select that times out
and the decision the counter is about to be increased, and `StopUncovered` sets
`fallLast` in the middle of a batch, where the counter must be known to be 0.
`QuietInv` adds that the counter is 0 throughout a batch. `CoverNotLost` is the
inductive form of `EmptyOnlyWhenUncovered`: it says of every place where
"uncovered" is remembered (`fallLast`, the batch, the FIFO) that an edge taking
it back follows further on. The dropping of the oldest edge keeps it, because
what is dropped can only precede; reading moves a prefix of the FIFO to the
batch. The action property then follows: with the FIFO empty, the batch empty
(the monitor is deciding, not handling edges) and `fallLast = 1`, nothing can
take it back, so the sensor is not covered.

Then it puts the train of `ZoneTrain` in: `TrainTypeCorrect` and `TrainIsSeen`
(`TrainSpec => []OccupiedIsSeen`). `OccupiedIsSeen` speaks of the moment when
every edge is handled. `PassageInv` says what holds before: the train has caused
the edges of a `Passage`, of which the last ones still wait, in order and
nothing after them, and once the first is handled the zone is not `EMPTY`, knows
the stop sensor if that edge was handled too, and has `fallLast = 0`. So
the decision to give a zone up, taken for the last train, cannot hit the new one
after its first edge, and may hit the zone before: that edge then makes it
`ENTERING` again. Counting the edges from the latest one (`Recent`) makes the
loss of old edges invisible as long as three of them fit.

### The ride

`CoasterProofs` proves `TypeCorrect`, and under control

* `BlockRule`: `Spec => []OneTrainPerBlock`;
* `RideIsABlockSystem`: `Spec => ImplementsBlockSystem`, every step a step of
  the abstract `BlockSystem` or none;
* `MonitorsGetTheirTrack`: `Spec => ImplementsTrackZones`, the same for the four
  `TrackZone`s;
* `DispatchIsConfirmed`: `Spec => DispatchConfirmed`.

That two trains are in one block says little about the state before. `BlockInv`
relates the four things that are out of step in a round: where the trains are,
what the monitors saw (`Seen`: a train on its way finds the next zone `EMPTY`),
what the round copied (`Copies`, `StaleCopies`: a copy says `EMPTY` of a zone
that is not only while the zone before is still reserved by the train that
came), and what it commanded (`Commanded`, `BrakesClosed`). From these,
`FreeAhead`: a train that can leave its zone finds the next one free. There is
one lemma per action. `Standing` covers the time before the first command.

For the permission, `PermitInv` adds `Order` (quiet times end in the order in
which a train left its zones), `Permission` (`release_go` is only set while the
station is reserved by the train that it was given for, and is taken back in the
round that sees this train on the hill) and `Confirmed`.

`BlockSystemProofs` proves `BlocksAreExclusive`, `Spec => []Exclusive`, for every
set of trains, every ring and every function `Ahead`, with no assumption. The
inductive invariant adds only that `holds` is a function into sets of blocks: a
claim takes a block that nobody holds, a release gives one up.

### The line

`SerialFrameProofs` proves `TypeCorrect` (`LineInv`: the reader never has more
than five bytes, whatever was cut and merged), `WholePacketsAreDelivered`
(`Spec => []WholeAfterWhole`) and `ValuesKeepTheirType`
(`Spec => []NoForeignValue`). `InStep` follows the reader through the packet
that is on the line: if the packet before was whole, what has been collected is
exactly the beginning of this one (`Along`), and every whole packet after a
whole one is in `delivered` (`Delivered`). `Meaning` says of a frame that may be
merged from several packets what its first two bytes can be: type and value of
one packet, or a type and the start byte of the next (`Meant`, `Beginning`). A
frame of one byte has its stop byte for a value: only a request, which has one
byte, arrives like that, and no command that lost its value.

`ControlLinkProofs` proves four theorems. `FreshModes` and `DispatchNeedsStart`
(the action properties `ModeIsFresh` and `StartConfirmed`) rest on `Replies`:
the bytes on their way to the Pi are whole replies with types and values in
turn, counted from the last byte, of which at most the first may have lost its
type byte, and every mode and every START among them has been reported since the
controller last looked. `TypeCorrect` needs a bound on the Pi's receive queue,
which grows while the controller waits for nothing: `Bounded` counts the bytes
that are due for requests already taken against those that can still be asked; the
point is that at most one request stands behind those that were under way when
the controller last looked for a reply.
`HillWaitsForCheckout` (`Spec => []HillOffUntilCheckout`) is an argument about
everything that could carry power to the hill before the checkout: the
controller's mode, the packet it writes, the inbox, the packet the firmware has
begun and the line back (`NothingStarts`); that replies are read whole
(`ReadWhole`); and that only an exit cuts a packet (`CutOnExit`), which leaves
the exception with the start byte.

### Lamps, setup, telemetry

`LampsProofs` proves `TypeCorrect` and `LampsAlwaysTellMode`,
`Spec => []LampsTellMode`. `LampInv` adds two facts: between `readState` and its
handler the mode agrees with the latches (`ModeInv`), so that the stop handler,
which lights the lamps of the emergency stop, runs only while that is latched;
and the ticker of the start lamp runs only while START is asked for
(`AskedInv`). `StartLights` and `EmergencyLights` say what a ticker can light.

`SensorSetupProofs` proves, for every number of zones, `TypeCorrect`,
`ExitsGiveBack` (`Spec => []GivesBackWhatItTook`) and `ThreadsWatchEveryZone`
(`Spec => []RideIsWatched`). `SetupInv` adds what is held before each call that
takes something, from which the labels are reached (`HeldInv`); that a request
is for all lines or none (`RequestInv`); and that the zones `main` is done with
have theirs (`WatchedInv`).

`TelemetryProofs` proves `TypeCorrect` (`TypeInv` adds that the datagrams in the
air are finitely many, which `AirSize` needs to mean anything) and
`ScreenIsTrue` (`Spec => []RowsAreTrue`), for any readings and any number of
datagrams of the three trains. `RowsInv` says the same of the buffer of curses,
and that the uninitialised `msg` is drawn in one row only: the row that it names
as long as nothing has been received.

### What is only model-checked

* Everything under fairness: `LeftBecomesEmpty`, `HeldBecomesEntered`,
  `RideRuns`, `StopStopsMotors`, `EStopStopsMotors`, `Invited`, `RoundsGoOn`,
  `HeardIsShown`. The prover has no liveness.
* `ImplementsTrackZone`, that the monitor implements `TrackZone`. It has a
  liveness part, and its mapping folds over the edges that wait; what a fold
  yields on a sequence of any length takes induction over data, which the
  provers cannot do. `TrainIsSeen` proves the part of it on which the ride
  relies most.
* How the modules fit together is argued in this document: what one module
  assumes is a theorem of another, but no module contains them all.

## 5. Not modelled

* Code without a caller: `turnOnLeds`, `setupIRsensor` with `request_input_line`,
  `requestControl`, the two Backward commands, `respond`.
* The terminal's attributes, the name tables and the layout of the display: no
  state of the program depends on them.
* The direction pins of the motors: only `Forward` is ever called, and the power
  stands for both.
* The prototypes, an early copy of the sender and a hand test of the sensors; the
  vendored headers of kernel and libgpiod; scripts and notes.
* Time. The quiet second, the 50 ms of a receive and the 10 ms of the telemetry
  are choices that may fall either way at any moment; where an order of two of
  them is assumed, it is named above.

## 6. Plan

Done: every component that section 1 names is modelled and checked, and every
invariant that a run checks is a theorem, as are the action properties, the two
refinements of the ride and the permission to dispatch.

What is left:

1. `Coaster` and `ControlLink` meet only in what a poll may answer. A module that
   composes the two would show that a command's way to its actuator does not
   break the block rule, on a track whose margins allow for it.
2. `HillWaitsForCheckout` for the station's motor, whose command comes in the
   same round from the same zone states.
3. The safety part of `ImplementsTrackZone`, if `CaughtUp` can be put in a form
   that needs no induction over the edges that wait.
