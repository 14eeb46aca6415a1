------------------------------ MODULE BrakeZone ------------------------------
(***************************************************************************)
(* One brake zone of the track: two sensors, the kernel FIFO that queues   *)
(* their edges, the monitor thread that turns edges into a zone state      *)
(* (updateInternalState, called for ever by bzNMonitor) and the copy the   *)
(* control thread takes of it (updateState).                               *)
(*                                                                         *)
(* The zone state goes EMPTY -> ENTERING when the entry sensor is covered, *)
(* ENTERING -> ENTERED when the stop sensor is covered, and back to EMPTY  *)
(* when the stop sensor was the last to be uncovered and QuietLimit polls  *)
(* in a row then brought no edge.                                          *)
(***************************************************************************)
EXTENDS Integers, Sequences, StateMachine

CONSTANTS
  QuietLimit, \* polls without an edge before a left zone is EMPTY (500)
  BatchSize,  \* edges read at once: the capacity of eventBuff (2)
  FifoCap,    \* edges the kernel queues for one line request (32)
  IntMax      \* largest value of the int that counts the polls (2^31 - 1)

ASSUME ZoneAssumption ==
  /\ QuietLimit \in Nat \ {0}
  /\ BatchSize \in Nat \ {0}
  /\ FifoCap \in Nat \ {0}
  /\ IntMax \in Nat
  /\ QuietLimit <= IntMax

VARIABLES
  level,         \* level[l]: a train covers sensor l (the physical world)
  fifo,          \* edges queued by the kernel, oldest first
  pc,            \* the monitor: "select", "timedOut" or "batch"
  batch,         \* decoded edges of the last read still to be handled
  timeouts,      \* consecutive polls without an edge
  fallLast,      \* 1: the last edge that counts uncovered the stop sensor
  internalState, \* zone state kept by the monitor thread
  state          \* the control thread's copy of it

monitorVars == <<pc, batch, timeouts, fallLast, internalState>>
vars == <<level, fifo, monitorVars, state>>

entry == 0   \* sensorLines[0]
stop  == 1   \* sensorLines[1]
Line  == {entry, stop}

RawEvent == [line : Line, id : {"rawRising", "rawFalling"}]
Event    == [line : Line, type : {"RISING", "FALLING"}]

TypeOK ==
  /\ level \in [Line -> BOOLEAN]
  /\ fifo \in Seq(RawEvent)
  /\ Len(fifo) <= FifoCap
  /\ pc \in {"select", "timedOut", "batch"}
  /\ batch \in Seq(Event)
  /\ Len(batch) <= BatchSize
  /\ pc = "batch" <=> batch # <<>>
  /\ timeouts \in -(IntMax + 1) .. IntMax
  /\ fallLast \in {0, 1}
  /\ internalState \in ZoneState
  /\ state \in ZoneState

\* A zone object is constructed EMPTY whatever stands on the track; its
\* counters are members of a global object, hence zero.
Init ==
  /\ level \in [Line -> BOOLEAN]
  /\ fifo = <<>>
  /\ pc = "select"
  /\ batch = <<>>
  /\ timeouts = 0
  /\ fallLast = 0
  /\ internalState = EMPTY
  /\ state = EMPTY

-----------------------------------------------------------------------------
(***************************************************************************)
(* The kernel: lines are pulled up and a train grounds them, so covering a *)
(* sensor is a falling edge of the wire.  A full FIFO drops its oldest     *)
(* edge.                                                                   *)
(***************************************************************************)
RawEdge(l, covered) ==
  [line |-> l, id |-> IF covered THEN "rawFalling" ELSE "rawRising"]

Push(q, e) == Append(IF Len(q) < FifoCap THEN q ELSE Tail(q), e)

SensorChange(l) ==
  /\ level' = [level EXCEPT ![l] = ~@]
  /\ fifo' = Push(fifo, RawEdge(l, ~level[l]))
  /\ UNCHANGED <<monitorVars, state>>

-----------------------------------------------------------------------------
(***************************************************************************)
(* The monitor thread.                                                     *)
(***************************************************************************)

\* gpiod_edge_event_buffer_read_fd swaps the two edges: "RISING" is an edge
\* that covers the sensor.
Decode(e) ==
  [line |-> e.line,
   type |-> IF e.id = "rawRising" THEN "FALLING" ELSE "RISING"]

\* Mutant: the counter has no width.
IncrementUnbounded(t) == t + 1

\* A signed int of the build wraps.
Increment(t) == IF t = IntMax THEN -(IntMax + 1) ELSE t + 1

\* select() runs into its 2 ms timeout: nothing to read.
SelectTimesOut ==
  /\ pc = "select"
  /\ fifo = <<>>
  /\ pc' = "timedOut"
  /\ UNCHANGED <<level, fifo, batch, timeouts, fallLast, internalState, state>>

\* select() returns -1 (a signal, such as curses' SIGWINCH): taken for a
\* timeout even when edges are waiting.
SelectFails ==
  /\ pc = "select"
  /\ pc' = "timedOut"
  /\ UNCHANGED <<level, fifo, batch, timeouts, fallLast, internalState, state>>

\* Mutant: the limit is off by one.
LeftAndQuietTooLong(t) ==
  t > QuietLimit /\ internalState = ENTERED /\ fallLast = 1

\* Mutant: quiet is enough, whether the stop sensor was uncovered or not.
LeftOrJustQuiet(t) ==
  t >= QuietLimit /\ internalState = ENTERED

\* The zone was left and has been quiet long enough.
LeftAndQuiet(t) ==
  /\ t >= QuietLimit
  /\ internalState = ENTERED
  /\ fallLast = 1

CountTimeout ==
  /\ pc = "timedOut"
  /\ timeouts' = Increment(timeouts)
  /\ internalState' = IF LeftAndQuiet(timeouts') THEN EMPTY ELSE internalState
  /\ pc' = "select"
  /\ UNCHANGED <<level, fifo, batch, fallLast, state>>

\* Mutant: what does not fit in the buffer is thrown away.
ReadEventsDropsRest ==
  /\ pc = "select"
  /\ fifo # <<>>
  /\ LET n == IF Len(fifo) < BatchSize THEN Len(fifo) ELSE BatchSize IN
       batch' = [i \in 1 .. n |-> Decode(fifo[i])]
  /\ fifo' = <<>>
  /\ timeouts' = 0
  /\ pc' = "batch"
  /\ UNCHANGED <<level, fallLast, internalState, state>>

\* Edges are there: read as many as fit in the buffer.
ReadEvents ==
  /\ pc = "select"
  /\ fifo # <<>>
  /\ LET n == IF Len(fifo) < BatchSize THEN Len(fifo) ELSE BatchSize IN
       /\ batch' = [i \in 1 .. n |-> Decode(fifo[i])]
       /\ fifo' = SubSeq(fifo, n + 1, Len(fifo))
  /\ timeouts' = 0
  /\ pc' = "batch"
  /\ UNCHANGED <<level, fallLast, internalState, state>>

\* The read fails (ret = -1): the quiet period starts again, no edge is seen.
ReadFails ==
  /\ pc = "select"
  /\ fifo # <<>>
  /\ timeouts' = 0
  /\ UNCHANGED <<level, fifo, pc, batch, fallLast, internalState, state>>

\* Mutant: the rest of the batch is forgotten.
NextEventOfNewRead ==
  /\ batch' = Tail(batch)
  /\ pc' = "select"
  /\ UNCHANGED <<level, fifo, timeouts, state>>

\* Common end of the three branches below: on to the next edge of the batch.
NextEvent ==
  /\ batch' = Tail(batch)
  /\ pc' = IF batch' = <<>> THEN "select" ELSE "batch"
  /\ UNCHANGED <<level, fifo, timeouts, state>>

\* Mutant: an arriving train does not stop the quiet time of the last one.
EntryEdgeKeepsFallLast ==
  /\ pc = "batch"
  /\ Head(batch).line = entry
  /\ internalState' = IF Head(batch).type = "RISING" /\ internalState = EMPTY
                      THEN ENTERING ELSE internalState
  /\ UNCHANGED fallLast
  /\ NextEvent

\* Any edge of the entry sensor; covering it makes an EMPTY zone ENTERING.
EntryEdge ==
  /\ pc = "batch"
  /\ Head(batch).line = entry
  /\ fallLast' = 0
  /\ internalState' = IF Head(batch).type = "RISING" /\ internalState = EMPTY
                      THEN ENTERING ELSE internalState
  /\ NextEvent

\* Mutant: covering the stop sensor does not reset fallLast.
StopCoveredKeepsFallLast ==
  /\ pc = "batch"
  /\ Head(batch) = [line |-> stop, type |-> "RISING"]
  /\ internalState' = IF internalState = ENTERING THEN ENTERED ELSE internalState
  /\ UNCHANGED fallLast
  /\ NextEvent

\* Mutant: the zone has to be EMPTY to become ENTERED.
StopCoveredWhenEmpty ==
  /\ pc = "batch"
  /\ Head(batch) = [line |-> stop, type |-> "RISING"]
  /\ fallLast' = 0
  /\ internalState' = IF internalState = EMPTY THEN ENTERED ELSE internalState
  /\ NextEvent

StopCovered ==
  /\ pc = "batch"
  /\ Head(batch) = [line |-> stop, type |-> "RISING"]
  /\ fallLast' = 0
  /\ internalState' = IF internalState = ENTERING THEN ENTERED ELSE internalState
  /\ NextEvent

\* Mutant: the falling edge is only noted while the zone is ENTERING.
StopUncoveredWhenEntering ==
  /\ pc = "batch"
  /\ Head(batch) = [line |-> stop, type |-> "FALLING"]
  /\ fallLast' = IF internalState = ENTERING THEN 1 ELSE fallLast
  /\ UNCHANGED internalState
  /\ NextEvent

StopUncovered ==
  /\ pc = "batch"
  /\ Head(batch) = [line |-> stop, type |-> "FALLING"]
  /\ fallLast' = IF internalState = ENTERED THEN 1 ELSE fallLast
  /\ UNCHANGED internalState
  /\ NextEvent

Monitor ==
  \/ SelectTimesOut
  \/ SelectFails
  \/ CountTimeout
  \/ ReadEvents
  \/ ReadFails
  \/ EntryEdge
  \/ StopCovered
  \/ StopUncovered

(***************************************************************************)
(* The control thread.  internalState_mutex covers the copy here and every *)
(* assignment of internalState in the monitor, each a single assignment,   *)
(* so each critical section is one step.  state itself is only used by the *)
(* control thread.                                                         *)
(***************************************************************************)
UpdateState ==
  /\ state' = internalState
  /\ UNCHANGED <<level, fifo, monitorVars>>

Next ==
  \/ \E l \in Line : SensorChange(l)
  \/ Monitor
  \/ UpdateState

Spec == Init /\ [][Next]_vars

-----------------------------------------------------------------------------
(***************************************************************************)
(* A zone is given up only after its train is off the stop sensor: the     *)
(* step that makes it EMPTY either finds the sensor uncovered or an edge   *)
(* still waiting in the FIFO.  It holds although edges may be lost, come   *)
(* in batches and race with the poll that times out.                       *)
(***************************************************************************)
EmptyOnlyWhenUncovered ==
  [][ internalState = ENTERED /\ internalState' = EMPTY /\ fifo = <<>>
        => ~level[stop] ]_vars

(***************************************************************************)
(* Why it holds.  While the stop sensor is covered, whatever says that it  *)
(* was uncovered (fallLast, or an edge not handled yet) is followed by an  *)
(* edge that will take it back, in the batch or in the FIFO.               *)
(***************************************************************************)
Cancels(e)   == e.line = entry \/ e.type = "RISING"
Uncovers(e)  == e.line = stop /\ e.type = "FALLING"
InFifo(i)    == \E j \in i .. Len(fifo)  : Cancels(Decode(fifo[j]))
InBatch(i)   == \E j \in i .. Len(batch) : Cancels(batch[j])

CoverNotLost ==
  level[stop] =>
    /\ fallLast = 1 => InBatch(1) \/ InFifo(1)
    /\ \A i \in 1 .. Len(batch) : Uncovers(batch[i]) => InBatch(i + 1) \/ InFifo(1)
    /\ \A i \in 1 .. Len(fifo) : Uncovers(Decode(fifo[i])) => InFifo(i + 1)

(***************************************************************************)
(* The poll counter is only consulted while it is a count: once the stop   *)
(* sensor is the last one uncovered the zone is not ENTERING, and as long  *)
(* as it is ENTERED the counter has neither reached QuietLimit nor         *)
(* wrapped, however long the monitor has been running.                     *)
(***************************************************************************)
QuietCountSound ==
  fallLast = 1 =>
    /\ internalState # ENTERING
    /\ internalState = ENTERED => timeouts \in 0 .. QuietLimit - 1
=============================================================================
