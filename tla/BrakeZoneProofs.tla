--------------------------- MODULE BrakeZoneProofs ---------------------------
(***************************************************************************)
(* What BrakeZone guarantees for every quiet limit, buffer size, FIFO      *)
(* length and width of the poll counter, and what it tells of a train that *)
(* runs through it.                                                        *)
(***************************************************************************)
EXTENDS ZoneTrain, TLAPS

(***************************************************************************)
(* Pushing an edge on the kernel's FIFO keeps it a sequence of edges       *)
(* within its capacity, and the new edge is its last one.                  *)
(***************************************************************************)
LEMMA PushProperties ==
  ASSUME NEW q \in Seq(RawEvent), Len(q) <= FifoCap, NEW e \in RawEvent
  PROVE  /\ Push(q, e) \in Seq(RawEvent)
         /\ Len(Push(q, e)) \in 1 .. FifoCap
         /\ Push(q, e)[Len(Push(q, e))] = e
<1>1. CASE Len(q) < FifoCap
  BY <1>1, ZoneAssumption DEF Push
<1>2. CASE ~(Len(q) < FifoCap)
  <2>1. Len(q) = FifoCap /\ q # <<>>
    BY <1>2, ZoneAssumption
  <2>2. Tail(q) \in Seq(RawEvent) /\ Len(Tail(q)) = FifoCap - 1
    BY <2>1, ZoneAssumption
  <2> QED
    BY <1>2, <2>2, ZoneAssumption DEF Push
<1> QED
  BY <1>1, <1>2

(***************************************************************************)
(* Decoding turns an edge of the wire into an event of the library.        *)
(***************************************************************************)
LEMMA DecodeType ==
  ASSUME NEW e \in RawEvent
  PROVE  Decode(e) \in Event
BY DEF Decode, RawEvent, Event

(***************************************************************************)
(* The edges that one read takes out of the FIFO fill the batch, and the   *)
(* rest stays in order.                                                    *)
(***************************************************************************)
LEMMA ReadProperties ==
  ASSUME TypeOK, ReadEvents
  PROVE  \E n \in 1 .. Len(fifo) :
           /\ n <= BatchSize
           /\ batch' \in Seq(Event)
           /\ Len(batch') = n
           /\ \A i \in 1 .. n : batch'[i] = Decode(fifo[i])
           /\ fifo' \in Seq(RawEvent)
           /\ Len(fifo') = Len(fifo) - n
           /\ \A i \in 1 .. Len(fifo) - n : fifo'[i] = fifo[i + n]
<1> DEFINE n == IF Len(fifo) < BatchSize THEN Len(fifo) ELSE BatchSize
<1>1. fifo \in Seq(RawEvent) /\ Len(fifo) \in Nat \ {0}
  BY DEF TypeOK, ReadEvents
<1>2. n \in 1 .. Len(fifo) /\ n <= BatchSize
  BY <1>1, ZoneAssumption
<1>3. /\ batch' = [i \in 1 .. n |-> Decode(fifo[i])]
      /\ fifo' = SubSeq(fifo, n + 1, Len(fifo))
  BY DEF ReadEvents
<1> HIDE DEF n
<1>4. \A i \in 1 .. n : Decode(fifo[i]) \in Event
  <2>1. \A i \in 1 .. n : fifo[i] \in RawEvent
    BY <1>1, <1>2
  <2> QED
    BY <2>1, DecodeType
<1>5. batch' \in Seq(Event) /\ Len(batch') = n
  BY <1>2, <1>3, <1>4
<1>6. \A i \in 1 .. n : batch'[i] = Decode(fifo[i])
  BY <1>2, <1>3
<1>7. /\ fifo' \in Seq(RawEvent)
      /\ Len(fifo') = Len(fifo) - n
      /\ \A i \in 1 .. Len(fifo) - n : fifo'[i] = fifo[i + n]
  BY <1>1, <1>2, <1>3
<1> QED
  BY <1>2, <1>5, <1>6, <1>7

(***************************************************************************)
(* A step of the monitor, of the sensors or of the control thread keeps    *)
(* the types.                                                              *)
(***************************************************************************)
LEMMA TypesAreKept ==
  ASSUME TypeOK, [Next]_vars
  PROVE  TypeOK'
<1>1. ASSUME NEW l \in Line, SensorChange(l)
      PROVE  TypeOK'
  <2>1. RawEdge(l, ~level[l]) \in RawEvent
    BY <1>1 DEF RawEdge, RawEvent
  <2>2. fifo' \in Seq(RawEvent) /\ Len(fifo') <= FifoCap
    BY <1>1, <2>1, PushProperties DEF TypeOK, SensorChange
  <2>3. level' \in [Line -> BOOLEAN]
    BY <1>1 DEF TypeOK, SensorChange
  <2> QED
    BY <1>1, <2>2, <2>3 DEF TypeOK, SensorChange, monitorVars
<1>2. CASE SelectTimesOut
  BY <1>2 DEF TypeOK, SelectTimesOut
<1>3. CASE SelectFails
  BY <1>3 DEF TypeOK, SelectFails
<1>4. CASE CountTimeout
  <2>1. timeouts' \in -(IntMax + 1) .. IntMax
    BY <1>4, ZoneAssumption DEF TypeOK, CountTimeout, Increment
  <2> QED
    BY <1>4, <2>1 DEF TypeOK, CountTimeout, ZoneState
<1>5. CASE ReadEvents
  <2>1. /\ batch' \in Seq(Event) /\ Len(batch') \in 1 .. BatchSize
        /\ fifo' \in Seq(RawEvent) /\ Len(fifo') <= FifoCap
    BY <1>5, ReadProperties, ZoneAssumption DEF TypeOK
  <2>2. timeouts' \in -(IntMax + 1) .. IntMax
    BY <1>5, ZoneAssumption DEF ReadEvents
  <2>3. pc' = "batch" /\ batch' # <<>>
    BY <1>5, <2>1 DEF ReadEvents
  <2>4. UNCHANGED <<level, fallLast, internalState, state>>
    BY <1>5 DEF ReadEvents
  <2> QED
    BY <2>1, <2>2, <2>3, <2>4, ZoneAssumption DEF TypeOK
<1>6. CASE ReadFails
  BY <1>6, ZoneAssumption DEF TypeOK, ReadFails
<1>7. ASSUME NextEvent, pc = "batch",
             fallLast' \in {0, 1}, internalState' \in ZoneState
      PROVE  TypeOK'
  <2>1. batch \in Seq(Event) /\ batch # <<>> /\ Len(batch) <= BatchSize
    BY <1>7 DEF TypeOK
  <2>2. batch' \in Seq(Event) /\ Len(batch') <= BatchSize
    BY <1>7, <2>1, ZoneAssumption DEF NextEvent
  <2>3. pc' \in {"select", "batch"} /\ (pc' = "batch" <=> batch' # <<>>)
    BY <1>7 DEF NextEvent
  <2>4. UNCHANGED <<level, fifo, timeouts, state>>
    BY <1>7 DEF NextEvent
  <2> QED
    BY <1>7, <2>2, <2>3, <2>4 DEF TypeOK
<1>8. CASE EntryEdge
  BY <1>7, <1>8 DEF EntryEdge, TypeOK, ZoneState
<1>9. CASE StopCovered
  BY <1>7, <1>9 DEF StopCovered, TypeOK, ZoneState
<1>10. CASE StopUncovered
  BY <1>7, <1>10 DEF StopUncovered, TypeOK
<1>11. CASE UpdateState
  BY <1>11 DEF TypeOK, UpdateState, monitorVars
<1>12. CASE UNCHANGED vars
  BY <1>12 DEF TypeOK, vars, monitorVars
<1> QED
  BY <1>1, <1>2, <1>3, <1>4, <1>5, <1>6, <1>8, <1>9, <1>10, <1>11, <1>12
     DEF Next, Monitor

(***************************************************************************)
(* Every variable of a brake zone keeps its type: the FIFO and the batch   *)
(* stay within their capacities and the monitor handles edges exactly as   *)
(* long as the batch of updateInternalState has some left.                 *)
(***************************************************************************)
THEOREM TypeCorrect == Spec => []TypeOK
<1>1. Init => TypeOK
  BY ZoneAssumption DEF Init, TypeOK, ZoneState
<1> QED
  BY <1>1, TypesAreKept, PTL DEF Spec

-----------------------------------------------------------------------------
(***************************************************************************)
(* QuietCountSound is not inductive: a falling edge of the stop sensor     *)
(* sets fallLast whatever the counter is.  It is handled in the batch of a *)
(* read, though, and a read sets the counter to zero.                      *)
(***************************************************************************)
QuietInv ==
  /\ QuietCountSound
  /\ pc = "batch" => timeouts = 0

(***************************************************************************)
(* The poll counter is consulted only while it is a count: with the stop   *)
(* sensor uncovered last and the zone ENTERED it lies below QuietLimit, so *)
(* the int cannot have wrapped, however long the monitor has run.          *)
(***************************************************************************)
THEOREM QuietCountIsSound == Spec => []QuietCountSound
<1>1. Init => QuietInv
  BY DEF Init, QuietInv, QuietCountSound
<1>2. TypeOK /\ QuietInv /\ [Next]_vars => QuietInv'
  <2> SUFFICES ASSUME TypeOK, QuietInv, [Next]_vars
               PROVE  QuietInv'
    OBVIOUS
  <2> USE DEF QuietInv, QuietCountSound
  <2>1. ASSUME NEW l \in Line, SensorChange(l)
        PROVE  QuietInv'
    BY <2>1 DEF SensorChange, monitorVars
  <2>2. CASE SelectTimesOut \/ SelectFails
    BY <2>2 DEF SelectTimesOut, SelectFails
  <2>3. CASE CountTimeout
    \* The counter reaches the limit in the step that makes the zone EMPTY.
    BY <2>3, ZoneAssumption
       DEF CountTimeout, LeftAndQuiet, Increment, TypeOK, ZoneState,
           EMPTY, ENTERED, ENTERING
  <2>4. CASE ReadEvents
    BY <2>4, ZoneAssumption DEF ReadEvents
  <2>5. CASE ReadFails
    BY <2>5, ZoneAssumption DEF ReadFails
  <2>6. CASE EntryEdge
    BY <2>6 DEF EntryEdge, NextEvent
  <2>7. CASE StopCovered
    BY <2>7 DEF StopCovered, NextEvent
  <2>8. CASE StopUncovered
    BY <2>8, ZoneAssumption DEF StopUncovered, NextEvent, ENTERED, ENTERING
  <2>9. CASE UpdateState
    BY <2>9 DEF UpdateState, monitorVars
  <2>10. CASE UNCHANGED vars
    BY <2>10 DEF vars, monitorVars
  <2> QED
    BY <2>1, <2>2, <2>3, <2>4, <2>5, <2>6, <2>7, <2>8, <2>9, <2>10
       DEF Next, Monitor
<1>3. QuietInv => QuietCountSound
  BY DEF QuietInv
<1> QED
  BY <1>1, <1>2, <1>3, TypeCorrect, PTL DEF Spec

-----------------------------------------------------------------------------
(***************************************************************************)
(* A covered stop sensor is never forgotten: whatever claims that it was   *)
(* uncovered is followed by an edge that takes the claim back.  This is    *)
(* the invariant behind EmptyOnlyWhenUncovered, and it survives the loss   *)
(* of edges because the FIFO drops its oldest ones.                        *)
(***************************************************************************)
THEOREM CoverIsNotLost == Spec => []CoverNotLost
<1>1. Init => CoverNotLost
  BY DEF Init, CoverNotLost
<1>2. TypeOK /\ CoverNotLost /\ [Next]_vars => CoverNotLost'
  <2> SUFFICES ASSUME TypeOK, CoverNotLost, [Next]_vars, level'[stop]
               PROVE  CoverNotLost'
    BY DEF CoverNotLost
  <2> USE DEF CoverNotLost, InFifo, InBatch
  <2>1. ASSUME NEW l \in Line, SensorChange(l)
        PROVE  CoverNotLost'
    \* The edge pushed is the one that takes everything back.
    <3> DEFINE e == RawEdge(l, ~level[l])
    <3>1. e \in RawEvent
      BY DEF RawEdge, RawEvent
    <3>2. /\ fifo' \in Seq(RawEvent)
          /\ Len(fifo') \in Nat \ {0}
          /\ fifo'[Len(fifo')] = e
      <4>1. fifo' = Push(fifo, e)
        BY <2>1 DEF SensorChange
      <4>2. fifo \in Seq(RawEvent) /\ Len(fifo) <= FifoCap
        BY DEF TypeOK
      <4> HIDE DEF e
      <4>3. /\ Push(fifo, e) \in Seq(RawEvent)
            /\ Len(Push(fifo, e)) \in 1 .. FifoCap
            /\ Push(fifo, e)[Len(Push(fifo, e))] = e
        BY <3>1, <4>2, PushProperties
      <4> QED
        BY <4>1, <4>3, ZoneAssumption
    <3>3. Cancels(Decode(e)) /\ ~Uncovers(Decode(e))
      <4>1. CASE l = entry
        BY <4>1 DEF RawEdge, Decode, Cancels, Uncovers, entry, stop
      <4>2. CASE l = stop
        <5>1. ~level[stop]
          BY <2>1, <4>2 DEF TypeOK, SensorChange, Line
        <5> QED
          BY <4>2, <5>1 DEF RawEdge, Decode, Cancels, Uncovers
      <4> QED
        BY <4>1, <4>2 DEF Line
    <3> HIDE DEF e
    <3>4. \A i \in 1 .. Len(fifo') :
            i # Len(fifo') => InFifo(i + 1)' /\ InFifo(1)'
      BY <3>2, <3>3
    <3>5. InFifo(1)'
      BY <3>2, <3>3
    <3> QED
      BY <3>2, <3>3, <3>4, <3>5
  <2>2. CASE SelectTimesOut \/ SelectFails
    BY <2>2 DEF SelectTimesOut, SelectFails
  <2>3. CASE CountTimeout
    BY <2>3 DEF CountTimeout
  <2>4. CASE ReadEvents
    \* What was in the FIFO is now in the batch or in the FIFO, in order.
    <3>1. PICK n \in 1 .. Len(fifo) :
            /\ Len(batch') = n
            /\ \A i \in 1 .. n : batch'[i] = Decode(fifo[i])
            /\ Len(fifo') = Len(fifo) - n
            /\ \A i \in 1 .. Len(fifo) - n : fifo'[i] = fifo[i + n]
      BY <2>4, ReadProperties
    <3>2. /\ Len(fifo) \in Nat
          /\ batch = <<>>
          /\ fallLast' = fallLast
          /\ level[stop]
      BY <2>4 DEF TypeOK, ReadEvents
    <3>3. ASSUME NEW i \in 1 .. n + 1, InFifo(i)
          PROVE  InBatch(i)' \/ InFifo(1)'
      <4>1. PICK j \in i .. Len(fifo) : Cancels(Decode(fifo[j]))
        BY <3>3
      <4>2. CASE j <= n
        BY <3>1, <3>2, <4>1, <4>2
      <4>3. CASE j > n
        <5>1. j - n \in 1 .. Len(fifo') /\ fifo'[j - n] = fifo[j]
          BY <3>1, <3>2, <4>1, <4>3
        <5> QED
          BY <4>1, <5>1
      <4> QED
        BY <3>1, <3>2, <4>1, <4>2, <4>3
    <3>4. fallLast' = 1 => InBatch(1)' \/ InFifo(1)'
      <4>1. ~InBatch(1)
        BY <3>2
      <4> HIDE DEF InBatch, InFifo
      <4> QED
        BY <3>2, <3>3, <4>1
    <3>5. ASSUME NEW i \in 1 .. n, Uncovers(batch'[i])
          PROVE  InBatch(i + 1)' \/ InFifo(1)'
      <4> HIDE DEF InBatch, InFifo
      <4>1. InFifo(i + 1)
        BY <3>1, <3>2, <3>5
      <4> QED
        BY <3>3, <4>1
    <3>6. ASSUME NEW i \in 1 .. Len(fifo'), Uncovers(Decode(fifo'[i]))
          PROVE  InFifo(i + 1)'
      <4> DEFINE k == i + n
      <4>1. k \in 1 .. Len(fifo) /\ fifo'[i] = fifo[k]
        BY <3>1, <3>2
      <4>  HIDE DEF k
      <4>2. PICK j \in k + 1 .. Len(fifo) : Cancels(Decode(fifo[j]))
        BY <3>2, <3>6, <4>1
      <4>  USE DEF k
      <4>3. j - n \in i + 1 .. Len(fifo') /\ fifo'[j - n] = fifo[j]
        BY <3>1, <3>2, <4>2
      <4> QED
        BY <4>2, <4>3
    <3> QED
      BY <3>1, <3>4, <3>5, <3>6
  <2>5. CASE ReadFails
    BY <2>5 DEF ReadFails
  <2>6. ASSUME pc = "batch", NextEvent,
               fallLast' = 1 =>
                 (fallLast = 1 /\ ~Cancels(Head(batch))) \/ Uncovers(Head(batch))
        PROVE  CoverNotLost'
    \* The first edge of the batch is handled: the claims move up by one.
    <3>1. /\ batch \in Seq(Event) /\ Len(batch) \in Nat \ {0}
          /\ Len(batch') = Len(batch) - 1
          /\ \A i \in 1 .. Len(batch') : batch'[i] = batch[i + 1]
          /\ Head(batch) = batch[1]
      BY <2>6 DEF TypeOK, NextEvent
    <3>2. level[stop] /\ fifo' = fifo
      BY <2>6 DEF NextEvent
    <3>3. ASSUME NEW i \in 1 .. Len(batch), InBatch(i + 1)
          PROVE  InBatch(i)'
      <4>1. PICK j \in i + 1 .. Len(batch) : Cancels(batch[j])
        BY <3>3
      <4>2. j - 1 \in i .. Len(batch') /\ batch'[j - 1] = batch[j]
        BY <3>1, <4>1
      <4> QED
        BY <4>1, <4>2
    <3>4. ASSUME NEW i \in 1 .. Len(batch), Uncovers(batch[i])
          PROVE  InBatch(i)' \/ InFifo(1)'
      BY <3>2, <3>3, <3>4
    <3>5. ASSUME fallLast' = 1
          PROVE  InBatch(1)' \/ InFifo(1)'
      <4>1. CASE Uncovers(batch[1])
        BY <3>1, <3>4, <4>1
      <4>2. CASE fallLast = 1 /\ ~Cancels(batch[1])
        <5>1. CASE InFifo(1)
          BY <3>2, <5>1
        <5>2. CASE InBatch(1)
          <6>1. InBatch(2)
            BY <3>1, <4>2, <5>2
          <6> QED
            BY <3>1, <3>3, <6>1
        <5> QED
          BY <3>2, <4>2, <5>1, <5>2
      <4> QED
        BY <2>6, <3>1, <3>5, <4>1, <4>2
    <3>6. ASSUME NEW i \in 1 .. Len(batch'), Uncovers(batch'[i])
          PROVE  InBatch(i + 1)' \/ InFifo(1)'
      <4>1. i + 1 \in 1 .. Len(batch) /\ Uncovers(batch[i + 1])
        BY <3>1, <3>6
      <4> QED
        BY <3>4, <4>1
    <3> QED
      BY <3>2, <3>5, <3>6
  <2>7. CASE EntryEdge
    BY <2>6, <2>7 DEF EntryEdge
  <2>8. CASE StopCovered
    BY <2>6, <2>8 DEF StopCovered
  <2>9. CASE StopUncovered
    BY <2>6, <2>9 DEF StopUncovered, Uncovers
  <2>10. CASE UpdateState
    BY <2>10 DEF UpdateState, monitorVars
  <2>11. CASE UNCHANGED vars
    BY <2>11 DEF vars, monitorVars
  <2> QED
    BY <2>1, <2>2, <2>3, <2>4, <2>5, <2>7, <2>8, <2>9, <2>10, <2>11
       DEF Next, Monitor
<1> QED
  BY <1>1, <1>2, TypeCorrect, PTL DEF Spec

(***************************************************************************)
(* updateInternalState never gives up a zone whose train still covers the  *)
(* stop sensor, unless the edge that says so is already in the FIFO.       *)
(***************************************************************************)
THEOREM CoveredZoneIsKept == Spec => EmptyOnlyWhenUncovered
<1> DEFINE GivenUp == internalState = ENTERED /\ internalState' = EMPTY
           Kept    == GivenUp /\ fifo = <<>> => ~level[stop]
<1>1. ASSUME TypeOK, CoverNotLost, [Next]_vars
      PROVE  Kept
  <2> SUFFICES ASSUME GivenUp, fifo = <<>>
               PROVE  ~level[stop]
    OBVIOUS
  <2>1. CountTimeout
    BY <1>1 DEF Next, Monitor, SensorChange, SelectTimesOut, SelectFails,
                ReadEvents, ReadFails, EntryEdge, StopCovered, StopUncovered,
                UpdateState, vars, monitorVars, EMPTY, ENTERED, ENTERING
  <2>2. fallLast = 1 /\ batch = <<>>
    BY <1>1, <2>1
       DEF CountTimeout, LeftAndQuiet, TypeOK, EMPTY, ENTERED
  <2>3. ~InBatch(1) /\ ~InFifo(1)
    BY <2>2 DEF InBatch, InFifo
  <2> QED
    BY <1>1, <2>2, <2>3 DEF CoverNotLost
<1>2. TypeOK /\ CoverNotLost /\ [Next]_vars => [Kept]_vars
  BY <1>1
<1> QED
  BY <1>2, TypeCorrect, CoverIsNotLost, PTL DEF Spec, EmptyOnlyWhenUncovered

-----------------------------------------------------------------------------
(***************************************************************************)
(* The train of ZoneTrain.  Its sensors tell where it is.                  *)
(***************************************************************************)
SensorsTell ==
  /\ level[entry] <=> train \in {"onEntry", "onBoth"}
  /\ level[stop]  <=> train \in {"onBoth", "onStop"}

TrainInv == TrainTypeOK /\ SensorsTell

LEMMA SensorChangeStep ==
  ASSUME TypeOK, NEW l \in Line, SensorChange(l)
  PROVE  /\ Next
         /\ level'[l] = ~level[l]
         /\ \A k \in Line : k # l => level'[k] = level[k]
  BY DEF SensorChange, Next, TypeOK

LEMMA TrainsAreKept ==
  ASSUME TrainInv, [TrainNext]_trainVars
  PROVE  TrainInv'
<1> USE DEF TrainInv, TrainTypeOK
<1>1. ASSUME NEW from \in {"away", "onEntry", "onBoth", "between", "onStop"},
             NEW to \in {"away", "onEntry", "onBoth", "between", "onStop"},
             NEW l \in Line, Move(from, to, l),
             (from \in {"onEntry", "onBoth"}) # (to \in {"onEntry", "onBoth"}) <=> l = entry,
             (from \in {"onBoth", "onStop"}) # (to \in {"onBoth", "onStop"}) <=> l = stop
      PROVE  TrainInv'
  <2>1. SensorChange(l) /\ train = from /\ train' = to
    BY <1>1 DEF Move
  <2>2. TypeOK'
    BY <2>1, SensorChangeStep, TypesAreKept
  <2>3. SensorsTell'
    BY <1>1, <2>1, <2>2, SensorChangeStep DEF SensorsTell, Line, TypeOK
  <2>4. crossed' \in BOOLEAN /\ apart' \in BOOLEAN
    BY <1>1 DEF Move
  <2> QED
    BY <2>1, <2>2, <2>3, <2>4
<1>2. CASE Arrive \/ Proceed \/ Leave
  BY <1>1, <1>2 DEF Arrive, Proceed, Leave, Line, entry, stop
<1>3. CASE (Monitor \/ UpdateState) /\ UNCHANGED trackVars
  <2>1. TypeOK'
    BY <1>3, TypesAreKept DEF Next
  <2>2. UNCHANGED <<level, train, crossed, apart>>
    BY <1>3 DEF trackVars, Monitor, SelectTimesOut, SelectFails, CountTimeout, ReadEvents,
                ReadFails, EntryEdge, StopCovered, StopUncovered, NextEvent, UpdateState
  <2> QED
    BY <2>1, <2>2 DEF SensorsTell
<1>4. CASE UNCHANGED trainVars
  <2>1. TypeOK'
    BY <1>4, TypesAreKept DEF trainVars
  <2>2. UNCHANGED <<level, train, crossed, apart>>
    BY <1>4 DEF trainVars, trackVars, vars
  <2> QED
    BY <2>1, <2>2 DEF SensorsTell
<1> QED
  BY <1>2, <1>3, <1>4 DEF TrainNext

LEMMA TrainsAreInductive == TrainSpec => []TrainInv
<1>1. TrainInit => TrainInv
  <2> SUFFICES ASSUME TrainInit
               PROVE  TrainInv
    OBVIOUS
  <2>1. TypeOK
    BY ZoneAssumption DEF TrainInit, Init, TypeOK, ZoneState
  <2>2. SensorsTell
    <3>1. level[entry] <=> train = "onBoth" \/ train = "onEntry"
      BY Zenon DEF TrainInit, Line
    <3>2. stop # entry /\ stop \in Line
      BY DEF Line, stop, entry
    <3>3. level[stop] <=> train = "onBoth" \/ train = "onStop"
      BY <3>2, Zenon DEF TrainInit
    <3> QED
      BY <3>1, <3>3 DEF SensorsTell
  <2> QED
    BY <2>1, <2>2 DEF TrainInit, TrainInv, TrainTypeOK
<1> QED
  BY <1>1, TrainsAreKept, PTL DEF TrainSpec

(***************************************************************************)
(* With a train on the track, parked at power-up or not, every variable    *)
(* keeps its type.                                                         *)
(***************************************************************************)
THEOREM TrainTypeCorrect == TrainSpec => []TrainTypeOK
<1>1. TrainInv => TrainTypeOK
  BY DEF TrainInv
<1> QED
  BY <1>1, TrainsAreInductive, PTL

-----------------------------------------------------------------------------
(***************************************************************************)
(* The edges that the monitor has not handled yet, counted from the latest *)
(* one: those of the batch come before those of the FIFO.                  *)
(***************************************************************************)
Waiting == Len(batch) + Len(fifo)
Recent(k) ==
  IF k <= Len(fifo) THEN Decode(fifo[Len(fifo) + 1 - k])
                    ELSE batch[Waiting + 1 - k]

\* What a sensor that changes adds as the monitor will read it.
NewEdge(l) == [line |-> l, type |-> IF level[l] THEN "FALLING" ELSE "RISING"]

LEMMA WaitingType ==
  ASSUME TypeOK
  PROVE  /\ Waiting \in Nat
         /\ Len(fifo) \in 0 .. FifoCap
         /\ Len(batch) \in 0 .. BatchSize
         /\ \A k \in 1 .. Waiting : Recent(k) \in Event
<1>1. Len(fifo) \in 0 .. FifoCap /\ Len(batch) \in 0 .. BatchSize
  BY ZoneAssumption DEF TypeOK
<1>2. ASSUME NEW k \in 1 .. Waiting
      PROVE  Recent(k) \in Event
  <2>1. CASE k <= Len(fifo)
    <3>1. fifo[Len(fifo) + 1 - k] \in RawEvent
      BY <1>1, <2>1 DEF TypeOK
    <3> QED
      BY <2>1, <3>1, DecodeType DEF Recent
  <2>2. CASE ~(k <= Len(fifo))
    <3>1. Waiting + 1 - k \in 1 .. Len(batch)
      BY <1>1, <2>2, ZoneAssumption DEF Waiting
    <3> QED
      BY <2>2, <3>1 DEF Recent, TypeOK
  <2> QED
    BY <2>1, <2>2
<1> QED
  BY <1>1, <1>2, ZoneAssumption DEF Waiting

(***************************************************************************)
(* An edge that the kernel queues is the latest one; the one that a full   *)
(* FIFO drops for it was not among the latest of the old ones.             *)
(***************************************************************************)
LEMMA EdgeQueued ==
  ASSUME TypeOK, NEW l \in Line, SensorChange(l), FifoCap >= 3
  PROVE  /\ Waiting' \in Nat \ {0}
         /\ Waiting' = Waiting + 1 \/ (Waiting' = Waiting /\ Waiting >= 3)
         /\ Recent(1)' = NewEdge(l)
         /\ \A k \in 1 .. 2 : k <= Waiting => Recent(k + 1)' = Recent(k)
<1> DEFINE e == RawEdge(l, ~level[l])
           n == Len(fifo)
<1>1. e \in RawEvent /\ Decode(e) = NewEdge(l)
  BY DEF RawEdge, RawEvent, Decode, NewEdge
<1>2. fifo' = Push(fifo, e) /\ batch' = batch
  BY DEF SensorChange, monitorVars
<1>3. fifo \in Seq(RawEvent) /\ n \in 0 .. FifoCap /\ Len(batch) \in Nat /\ FifoCap \in Nat
  BY WaitingType, ZoneAssumption DEF TypeOK
<1> HIDE DEF e
<1>4. CASE n < FifoCap
  <2>1. fifo' = Append(fifo, e)
    BY <1>2, <1>4 DEF Push
  <2>2. Len(fifo') = n + 1 /\ fifo'[n + 1] = e /\ \A i \in 1 .. n : fifo'[i] = fifo[i]
    BY <1>1, <1>3, <2>1
  <2>3. Waiting' = Waiting + 1 /\ Waiting \in Nat
    BY <1>2, <1>3, <2>2 DEF Waiting
  <2>4. Recent(1)' = NewEdge(l)
    BY <1>1, <1>3, <2>2 DEF Recent
  <2>5. ASSUME NEW k \in 1 .. 2, k <= Waiting
        PROVE  Recent(k + 1)' = Recent(k)
    <3>1. CASE k <= n
      <4>1. k + 1 <= Len(fifo') /\ n + 2 - (k + 1) = n + 1 - k /\ n + 1 - k \in 1 .. n
        BY <1>3, <2>2, <3>1
      <4> QED
        BY <2>2, <3>1, <4>1 DEF Recent
    <3>2. CASE ~(k <= n)
      <4>1. ~(k + 1 <= Len(fifo')) /\ Waiting' + 1 - (k + 1) = Waiting + 1 - k
        BY <1>3, <2>2, <2>3, <3>2
      <4> QED
        BY <1>2, <3>2, <4>1 DEF Recent
    <3> QED
      BY <3>1, <3>2
  <2> QED
    BY <2>3, <2>4, <2>5
<1>5. CASE ~(n < FifoCap)
  <2>1. n = FifoCap /\ n >= 3 /\ fifo' = Append(Tail(fifo), e)
    BY <1>2, <1>3, <1>5 DEF Push
  <2>2. Len(fifo') = n /\ fifo'[n] = e /\ \A i \in 1 .. n - 1 : fifo'[i] = fifo[i + 1]
    <3>1. /\ Tail(fifo) \in Seq(RawEvent) /\ Len(Tail(fifo)) = n - 1
          /\ \A i \in 1 .. n - 1 : Tail(fifo)[i] = fifo[i + 1]
      BY <1>3, <2>1
    <3> QED
      BY <1>1, <1>3, <2>1, <3>1
  <2>3. Waiting' = Waiting /\ Waiting \in Nat /\ Waiting >= 3
    BY <1>2, <1>3, <2>1, <2>2 DEF Waiting
  <2>4. Recent(1)' = NewEdge(l)
    BY <1>1, <1>3, <2>1, <2>2 DEF Recent
  <2>5. ASSUME NEW k \in 1 .. 2
        PROVE  Recent(k + 1)' = Recent(k)
    <3>1. n + 1 - (k + 1) \in 1 .. n - 1 /\ n + 1 - (k + 1) + 1 = n + 1 - k
      BY <1>3, <2>1
    <3>2. k <= n /\ k + 1 <= Len(fifo')
      BY <1>3, <2>1, <2>2
    <3> QED
      BY <2>2, <3>1, <3>2 DEF Recent
  <2> QED
    BY <2>3, <2>4, <2>5
<1> QED
  BY <1>4, <1>5

(***************************************************************************)
(* A read moves edges from the FIFO to the batch and leaves their order.   *)
(***************************************************************************)
LEMMA EdgesRead ==
  ASSUME TypeOK, ReadEvents
  PROVE  Waiting' = Waiting /\ \A k \in 1 .. Waiting : Recent(k)' = Recent(k)
<1>1. PICK n \in 1 .. Len(fifo) :
        /\ Len(batch') = n
        /\ \A i \in 1 .. n : batch'[i] = Decode(fifo[i])
        /\ Len(fifo') = Len(fifo) - n
        /\ \A i \in 1 .. Len(fifo) - n : fifo'[i] = fifo[i + n]
  BY ReadProperties
<1>2. Len(fifo) \in Nat /\ Len(batch) = 0
  BY DEF TypeOK, ReadEvents
<1>3. Waiting' = Waiting /\ Waiting = Len(fifo)
  BY <1>1, <1>2 DEF Waiting
<1>4. ASSUME NEW k \in 1 .. Waiting
      PROVE  Recent(k)' = Recent(k)
  <2>1. CASE k <= Len(fifo')
    <3> DEFINE i == Len(fifo') + 1 - k
    <3>1. i \in 1 .. Len(fifo) - n /\ i + n = Len(fifo) + 1 - k
      BY <1>1, <1>2, <2>1
    <3>2. fifo'[i] = fifo[i + n]
      BY <1>1, <3>1
    <3>3. Recent(k)' = Decode(fifo'[i])
      BY <2>1 DEF Recent
    <3>4. Recent(k) = Decode(fifo[i + n])
      BY <1>3, <3>1 DEF Recent
    <3> QED
      BY <3>2, <3>3, <3>4
  <2>2. CASE ~(k <= Len(fifo'))
    <3> DEFINE i == Len(fifo) + 1 - k
    <3>1. i \in 1 .. n /\ Waiting' + 1 - k = i
      BY <1>1, <1>2, <1>3, <2>2
    <3>2. Recent(k)' = batch'[i]
      BY <2>2, <3>1 DEF Recent
    <3>3. Recent(k) = Decode(fifo[i])
      BY <1>3 DEF Recent
    <3> QED
      BY <1>1, <3>1, <3>2, <3>3
  <2> QED
    BY <2>1, <2>2
<1> QED
  BY <1>3, <1>4

(***************************************************************************)
(* The edge that is handled is the oldest one.                             *)
(***************************************************************************)
LEMMA EdgeHandled ==
  ASSUME TypeOK, pc = "batch", NextEvent
  PROVE  /\ Waiting \in Nat \ {0}
         /\ Waiting' = Waiting - 1
         /\ \A k \in 1 .. Waiting' : Recent(k)' = Recent(k)
         /\ Head(batch) = Recent(Waiting)
<1>1. /\ batch \in Seq(Event) /\ Len(batch) \in Nat \ {0}
      /\ Len(batch') = Len(batch) - 1
      /\ \A i \in 1 .. Len(batch') : batch'[i] = batch[i + 1]
      /\ Head(batch) = batch[1]
  BY DEF TypeOK, NextEvent
<1>2. fifo' = fifo /\ Len(fifo) \in Nat
  BY DEF TypeOK, NextEvent
<1>3. Waiting \in Nat \ {0} /\ Waiting' = Waiting - 1
  BY <1>1, <1>2 DEF Waiting
<1>4. Head(batch) = Recent(Waiting)
  BY <1>1, <1>2 DEF Recent, Waiting
<1>5. ASSUME NEW k \in 1 .. Waiting'
      PROVE  Recent(k)' = Recent(k)
  <2>1. CASE k <= Len(fifo)
    BY <1>2, <2>1 DEF Recent
  <2>2. CASE ~(k <= Len(fifo))
    <3>1. /\ Waiting' + 1 - k \in 1 .. Len(batch')
          /\ Waiting' + 1 - k + 1 = Waiting + 1 - k
      BY <1>1, <1>2, <1>3, <2>2 DEF Waiting
    <3> QED
      BY <1>1, <1>2, <2>2, <3>1 DEF Recent
  <2> QED
    BY <2>1, <2>2
<1> QED
  BY <1>3, <1>4, <1>5

-----------------------------------------------------------------------------
(***************************************************************************)
(* The passage of a train that came over the entry sensor: the edges that  *)
(* it has caused since, the latest one first.                              *)
(***************************************************************************)
EntryCovered   == [line |-> entry, type |-> "RISING"]
EntryUncovered == [line |-> entry, type |-> "FALLING"]
CoveredStop    == [line |-> stop,  type |-> "RISING"]

Passages ==
  CASE train = "onEntry" -> {<<EntryCovered>>}
    [] train = "onBoth"  -> {<<CoveredStop, EntryCovered>>}
    [] train = "between" -> {<<EntryUncovered, EntryCovered>>}
    [] train = "onStop"  -> {<<EntryUncovered, CoveredStop, EntryCovered>>,
                             <<CoveredStop, EntryUncovered, EntryCovered>>}
    [] OTHER             -> {<<>>}

\* The edges of the passage are the latest ones that wait, and those that
\* have been handled made the zone what it is.
Follows(p) ==
  /\ \A k \in 1 .. Len(p) : k <= Waiting => Recent(k) = p[k]
  /\ Waiting < Len(p) => internalState # EMPTY /\ fallLast = 0
  /\ \A k \in 1 .. Len(p) : k > Waiting /\ p[k] = CoveredStop => internalState = ENTERED

PassageInv == crossed => \E p \in Passages : Follows(p)

LEMMA PassageShape ==
  ASSUME NEW p \in Passages, TrainTypeOK
  PROVE  /\ p \in Seq(Event) /\ Len(p) \in 0 .. 3
         /\ Len(p) = 0 <=> train = "away"
         /\ train = "onStop" => \E k \in 1 .. Len(p) : p[k] = CoveredStop
         /\ Len(p) # 0 => p[Len(p)] = EntryCovered
         /\ \A k \in 1 .. Len(p) :
              k # Len(p) => p[k] \in {EntryUncovered, CoveredStop}
<1>1. {EntryCovered, EntryUncovered, CoveredStop} \subseteq Event
  BY DEF EntryCovered, EntryUncovered, CoveredStop, Event, Line
<1> HIDE DEF EntryCovered, EntryUncovered, CoveredStop
<1>2. CASE train = "away"
  BY <1>2 DEF Passages
<1>3. CASE train = "onEntry"
  <2>1. p = <<EntryCovered>>
    BY <1>3 DEF Passages
  <2> QED
    BY <1>1, <1>3, <2>1
<1>4. CASE train \in {"onBoth", "between"}
  <2>1. CASE p = <<CoveredStop, EntryCovered>>
    BY <1>1, <1>4, <2>1
  <2>2. CASE p = <<EntryUncovered, EntryCovered>>
    BY <1>1, <1>4, <2>2
  <2> QED
    BY <1>4, <2>1, <2>2 DEF Passages
<1>5. CASE train = "onStop"
  <2>1. CASE p = <<EntryUncovered, CoveredStop, EntryCovered>>
    BY <1>1, <1>5, <2>1
  <2>2. CASE p = <<CoveredStop, EntryUncovered, EntryCovered>>
    BY <1>1, <1>5, <2>2
  <2> QED
    BY <1>5, <2>1, <2>2 DEF Passages
<1> QED
  BY <1>2, <1>3, <1>4, <1>5 DEF TrainTypeOK

(***************************************************************************)
(* A train that goes on adds its edge to the passage.                      *)
(***************************************************************************)
LEMMA PassageGrows ==
  ASSUME TypeOK, FifoCap >= 3, NEW l \in Line, SensorChange(l),
         NEW p \in Seq(Event), Len(p) <= 2, Follows(p),
         NEW q \in Seq(Event), Len(q) = Len(p) + 1, q[1] = NewEdge(l),
         \A k \in 1 .. Len(p) : q[k + 1] = p[k]
  PROVE  Follows(q)'
<1>1. /\ Waiting \in Nat /\ Waiting' \in Nat \ {0}
      /\ Waiting' = Waiting + 1 \/ (Waiting' = Waiting /\ Waiting >= 3)
      /\ Recent(1)' = NewEdge(l)
      /\ \A k \in 1 .. 2 : k <= Waiting => Recent(k + 1)' = Recent(k)
  BY EdgeQueued, WaitingType
<1>2. internalState' = internalState /\ fallLast' = fallLast
  BY DEF SensorChange, monitorVars
<1>3. ASSUME NEW k \in 1 .. Len(q)
      PROVE  /\ k <= Waiting' => Recent(k)' = q[k]
             /\ k > Waiting' /\ q[k] = CoveredStop => internalState = ENTERED
  <2>1. CASE k = 1
    BY <1>1, <2>1
  <2>2. CASE k # 1
    <3> DEFINE j == k - 1
    <3>1. j \in 1 .. Len(p) /\ j \in 1 .. 2 /\ j + 1 = k /\ q[k] = p[j]
      BY <2>2
    <3> HIDE DEF j
    <3>2. k <= Waiting' => j <= Waiting
      BY <1>1, <3>1
    <3>3. k > Waiting' => j > Waiting
      BY <1>1, <3>1
    <3>4. /\ j <= Waiting => Recent(j) = p[j]
          /\ j > Waiting /\ p[j] = CoveredStop => internalState = ENTERED
      BY <3>1 DEF Follows
    <3> QED
      BY <1>1, <3>1, <3>2, <3>3, <3>4
  <2> QED
    BY <2>1, <2>2
<1>4. Waiting' < Len(q) => internalState # EMPTY /\ fallLast = 0
  BY <1>1 DEF Follows
<1> QED
  BY <1>2, <1>3, <1>4 DEF Follows

LEMMA MovesKeepPassage ==
  ASSUME TrainInv, FifoCap >= 3, PassageInv, Arrive \/ Proceed \/ Leave
  PROVE  PassageInv'
<1>1. EntryCovered \in Event /\ EntryUncovered \in Event /\ CoveredStop \in Event
  BY DEF EntryCovered, EntryUncovered, CoveredStop, Event, Line
<1>2. TypeOK /\ SensorsTell /\ entry \in Line /\ stop \in Line
  BY DEF TrainInv, TrainTypeOK, Line
<1>3. /\ ~level[entry] => NewEdge(entry) = EntryCovered
      /\ level[entry]  => NewEdge(entry) = EntryUncovered
      /\ ~level[stop]  => NewEdge(stop) = CoveredStop
  BY DEF NewEdge, EntryCovered, EntryUncovered, CoveredStop
<1> HIDE DEF EntryCovered, EntryUncovered, CoveredStop
<1>4. CASE Arrive
  <2>0. PICK q : q = <<EntryCovered>>
    OBVIOUS
  <2>1. SensorChange(entry) /\ train = "away" /\ train' = "onEntry"
    BY <1>4 DEF Arrive, Move
  <2>2. Follows(<<>>)
    BY <1>2, WaitingType DEF Follows
  <2>3. Follows(q)'
    <3>1. NewEdge(entry) = EntryCovered
      BY <1>2, <1>3, <2>1 DEF SensorsTell
    <3>2. q \in Seq(Event) /\ Len(q) = 1 /\ q[1] = NewEdge(entry)
      BY <1>1, <2>0, <3>1
    <3>3. /\ <<>> \in Seq(Event) /\ Len(<<>>) <= 2 /\ Len(q) = Len(<<>>) + 1
          /\ \A k \in 1 .. Len(<<>>) : q[k + 1] = <<>>[k]
      BY <3>2
    <3> QED
      BY <1>2, <2>1, <2>2, <3>2, <3>3, PassageGrows, Zenon
  <2> QED
    BY <2>0, <2>1, <2>3 DEF PassageInv, Passages
<1>5. ASSUME Proceed, crossed
      PROVE  PassageInv'
  <2>1. PICK p \in Passages : Follows(p)
    BY <1>5 DEF PassageInv
  <2>2. CASE Move("onEntry", "onBoth", stop)
    <3>0. PICK q : q = <<CoveredStop, EntryCovered>>
      OBVIOUS
    <3>1. SensorChange(stop) /\ train = "onEntry" /\ train' = "onBoth"
      BY <2>2 DEF Move
    <3>2. p = <<EntryCovered>> /\ NewEdge(stop) = CoveredStop
      BY <1>2, <1>3, <2>1, <3>1 DEF Passages, SensorsTell
    <3>3. p \in Seq(Event) /\ Len(p) = 1 /\ p[1] = EntryCovered
      BY <1>1, <3>2
    <3>4. q \in Seq(Event) /\ Len(q) = 2 /\ q[1] = CoveredStop /\ q[2] = EntryCovered
      BY <1>1, <3>0
    <3>5. /\ Len(p) <= 2 /\ Len(q) = Len(p) + 1 /\ q[1] = NewEdge(stop)
          /\ \A k \in 1 .. Len(p) : q[k + 1] = p[k]
      BY <3>2, <3>3, <3>4
    <3>6. Follows(q)'
      BY <1>2, <2>1, <3>1, <3>3, <3>4, <3>5, PassageGrows, Zenon
    <3> QED
      BY <3>0, <3>1, <3>6 DEF PassageInv, Passages
  <2>3. CASE Move("onEntry", "between", entry)
    <3>0. PICK q : q = <<EntryUncovered, EntryCovered>>
      OBVIOUS
    <3>1. SensorChange(entry) /\ train = "onEntry" /\ train' = "between"
      BY <2>3 DEF Move
    <3>2. p = <<EntryCovered>> /\ NewEdge(entry) = EntryUncovered
      BY <1>2, <1>3, <2>1, <3>1 DEF Passages, SensorsTell
    <3>3. p \in Seq(Event) /\ Len(p) = 1 /\ p[1] = EntryCovered
      BY <1>1, <3>2
    <3>4. q \in Seq(Event) /\ Len(q) = 2 /\ q[1] = EntryUncovered /\ q[2] = EntryCovered
      BY <1>1, <3>0
    <3>5. /\ Len(p) <= 2 /\ Len(q) = Len(p) + 1 /\ q[1] = NewEdge(entry)
          /\ \A k \in 1 .. Len(p) : q[k + 1] = p[k]
      BY <3>2, <3>3, <3>4
    <3>6. Follows(q)'
      BY <1>2, <2>1, <3>1, <3>3, <3>4, <3>5, PassageGrows, Zenon
    <3> QED
      BY <3>0, <3>1, <3>6 DEF PassageInv, Passages
  <2>4. CASE Move("onBoth", "onStop", entry)
    <3>0. PICK q : q = <<EntryUncovered, CoveredStop, EntryCovered>>
      OBVIOUS
    <3>1. SensorChange(entry) /\ train = "onBoth" /\ train' = "onStop"
      BY <2>4 DEF Move
    <3>2. p = <<CoveredStop, EntryCovered>> /\ NewEdge(entry) = EntryUncovered
      BY <1>2, <1>3, <2>1, <3>1 DEF Passages, SensorsTell
    <3>3. p \in Seq(Event) /\ Len(p) = 2 /\ p[1] = CoveredStop /\ p[2] = EntryCovered
      BY <1>1, <3>2
    <3>4. /\ q \in Seq(Event) /\ Len(q) = 3
          /\ q[1] = EntryUncovered /\ q[2] = CoveredStop /\ q[3] = EntryCovered
      BY <1>1, <3>0
    <3>5. /\ Len(p) <= 2 /\ Len(q) = Len(p) + 1 /\ q[1] = NewEdge(entry)
          /\ \A k \in 1 .. Len(p) : q[k + 1] = p[k]
      BY <3>2, <3>3, <3>4
    <3>6. Follows(q)'
      BY <1>2, <2>1, <3>1, <3>3, <3>4, <3>5, PassageGrows, Zenon
    <3> QED
      BY <3>0, <3>1, <3>6 DEF PassageInv, Passages
  <2>5. CASE Move("between", "onStop", stop)
    <3>0. PICK q : q = <<CoveredStop, EntryUncovered, EntryCovered>>
      OBVIOUS
    <3>1. SensorChange(stop) /\ train = "between" /\ train' = "onStop"
      BY <2>5 DEF Move
    <3>2. p = <<EntryUncovered, EntryCovered>> /\ NewEdge(stop) = CoveredStop
      BY <1>2, <1>3, <2>1, <3>1 DEF Passages, SensorsTell
    <3>3. p \in Seq(Event) /\ Len(p) = 2 /\ p[1] = EntryUncovered /\ p[2] = EntryCovered
      BY <1>1, <3>2
    <3>4. /\ q \in Seq(Event) /\ Len(q) = 3
          /\ q[1] = CoveredStop /\ q[2] = EntryUncovered /\ q[3] = EntryCovered
      BY <1>1, <3>0
    <3>5. /\ Len(p) <= 2 /\ Len(q) = Len(p) + 1 /\ q[1] = NewEdge(stop)
          /\ \A k \in 1 .. Len(p) : q[k + 1] = p[k]
      BY <3>2, <3>3, <3>4
    <3>6. Follows(q)'
      BY <1>2, <2>1, <3>1, <3>3, <3>4, <3>5, PassageGrows, Zenon
    <3> QED
      BY <3>0, <3>1, <3>6 DEF PassageInv, Passages
  <2> QED
    BY <1>5, <2>2, <2>3, <2>4, <2>5 DEF Proceed
<1>6. CASE Proceed /\ ~crossed
  \* A parked train that goes on has not crossed the entry sensor.
  BY <1>6 DEF Proceed, Move, PassageInv
<1>7. CASE Leave
  <2>1. train' = "away" /\ TypeOK'
    <3>1. SensorChange(stop)
      BY <1>7 DEF Leave, Move
    <3> QED
      BY <1>2, <1>7, <3>1, SensorChangeStep, TypesAreKept DEF Leave, Move
  <2>2. Follows(<<>>)'
    <3>1. Waiting' \in Nat
      BY <2>1 DEF TypeOK, Waiting
    <3> QED
      BY <3>1 DEF Follows
  <2> QED
    BY <2>1, <2>2 DEF PassageInv, Passages
<1> QED
  BY <1>4, <1>5, <1>6, <1>7

(***************************************************************************)
(* What the monitor does leaves the passage of the train intact.           *)
(***************************************************************************)
LEMMA MonitorKeepsPassage ==
  ASSUME TrainInv, PassageInv, Monitor \/ UpdateState \/ UNCHANGED vars, UNCHANGED trackVars
  PROVE  PassageInv'
<1> SUFFICES ASSUME crossed, NEW p \in Passages, Follows(p)
             PROVE  Follows(p)'
  <2>1. Passages' = Passages /\ crossed' = crossed
    BY DEF trackVars, Passages
  <2> QED
    BY <2>1 DEF PassageInv
<1>1. /\ p \in Seq(Event) /\ Len(p) \in 0 .. 3
      /\ Len(p) # 0 => p[Len(p)] = EntryCovered
      /\ \A k \in 1 .. Len(p) : k # Len(p) => p[k] \in {EntryUncovered, CoveredStop}
  BY PassageShape DEF TrainInv
<1>2. TypeOK /\ Waiting \in Nat
  BY WaitingType DEF TrainInv, TrainTypeOK
<1>3. CASE \/ SelectTimesOut \/ SelectFails \/ ReadFails \/ UpdateState \/ UNCHANGED vars
  <2>1. UNCHANGED <<batch, fifo, internalState, fallLast>>
    BY <1>3 DEF SelectTimesOut, SelectFails, ReadFails, UpdateState, vars, monitorVars
  <2>2. Waiting' = Waiting /\ \A k \in 1 .. 3 : Recent(k)' = Recent(k)
    BY <2>1 DEF Waiting, Recent
  <2> QED
    BY <1>1, <2>1, <2>2 DEF Follows
<1>4. CASE CountTimeout
  \* A zone that a train has come to is not given up: fallLast is 0.
  <2>1. UNCHANGED <<batch, fifo, fallLast>>
    BY <1>4 DEF CountTimeout
  <2>2. Waiting' = Waiting /\ \A k \in 1 .. 3 : Recent(k)' = Recent(k)
    BY <2>1 DEF Waiting, Recent
  <2>3. fallLast = 0 => internalState' = internalState
    BY <1>4 DEF CountTimeout, LeftAndQuiet
  <2>4. Waiting < Len(p) => fallLast = 0
    BY DEF Follows
  <2>5. \A k \in 1 .. Len(p) : k > Waiting => Waiting < Len(p)
    BY <1>1, <1>2
  <2> QED
    BY <1>1, <2>1, <2>2, <2>3, <2>4, <2>5 DEF Follows
<1>5. CASE ReadEvents
  <2>1. Waiting' = Waiting /\ \A k \in 1 .. Waiting : Recent(k)' = Recent(k)
    BY <1>2, <1>5, EdgesRead
  <2>2. UNCHANGED <<internalState, fallLast>>
    BY <1>5 DEF ReadEvents
  <2>3. \A k \in 1 .. Len(p) : k <= Waiting => k \in 1 .. Waiting
    BY <1>1, <1>2
  <2> QED
    BY <2>1, <2>2, <2>3 DEF Follows
<1>6. CASE EntryEdge \/ StopCovered \/ StopUncovered
  <2>1. pc = "batch" /\ NextEvent
    BY <1>6 DEF EntryEdge, StopCovered, StopUncovered
  <2>2. /\ Waiting \in Nat \ {0} /\ Waiting' = Waiting - 1
        /\ \A k \in 1 .. Waiting' : Recent(k)' = Recent(k)
        /\ Head(batch) = Recent(Waiting)
    BY <1>2, <2>1, EdgeHandled
  <2>3. \A k \in 1 .. Len(p) : k <= Waiting' => Recent(k)' = p[k]
    BY <1>1, <2>2 DEF Follows
  <2>4. CASE Len(p) < Waiting
    BY <1>1, <2>2, <2>3, <2>4 DEF Follows
  <2>5. CASE Len(p) = Waiting
    \* The train is noticed.
    <3>1. Head(batch) = EntryCovered
      BY <1>1, <2>2, <2>5 DEF Follows
    <3>2. EntryEdge
      BY <1>6, <3>1 DEF EntryEdge, StopCovered, StopUncovered, EntryCovered, entry, stop
    <3>3. fallLast' = 0 /\ internalState' # EMPTY
      BY <3>1, <3>2 DEF EntryEdge, EntryCovered, EMPTY, ENTERING
    <3>4. \A k \in 1 .. Len(p) : k > Waiting' => p[k] # CoveredStop
      <4>1. EntryCovered # CoveredStop
        BY DEF EntryCovered, CoveredStop, entry, stop
      <4>2. \A k \in 1 .. Len(p) : k > Waiting' => k = Len(p)
        BY <1>1, <2>2, <2>5
      <4> QED
        BY <1>1, <2>2, <2>5, <4>1, <4>2
    <3> QED
      BY <2>3, <3>3, <3>4 DEF Follows
  <2>6. CASE Len(p) > Waiting
    <3>1. Head(batch) = p[Waiting] /\ p[Waiting] \in {EntryUncovered, CoveredStop}
      BY <1>1, <2>2, <2>6 DEF Follows
    <3>2. internalState # EMPTY /\ fallLast = 0
      BY <1>1, <2>2, <2>6 DEF Follows
    <3>3. internalState \in ZoneState
      BY <1>2 DEF TypeOK
    <3>4. CASE Head(batch) = EntryUncovered
      <4>1. fallLast' = 0 /\ internalState' = internalState
        BY <1>6, <3>2, <3>4
           DEF EntryEdge, StopCovered, StopUncovered, EntryUncovered, entry, stop
      <4>2. p[Waiting] # CoveredStop
        BY <3>1, <3>4 DEF EntryUncovered, CoveredStop, entry, stop
      <4>3. \A k \in 1 .. Len(p) : k > Waiting' => k = Waiting \/ k > Waiting
        BY <1>1, <2>2
      <4> QED
        BY <2>3, <3>2, <4>1, <4>2, <4>3 DEF Follows
    <3>5. CASE Head(batch) = CoveredStop
      <4>1. StopCovered
        BY <1>6, <3>5 DEF EntryEdge, StopCovered, StopUncovered, CoveredStop, entry, stop
      <4>2. fallLast' = 0 /\ internalState' = ENTERED
        BY <3>2, <3>3, <4>1 DEF StopCovered, ZoneState
      <4> QED
        BY <2>3, <4>2 DEF Follows, EMPTY, ENTERED
    <3> QED
      BY <3>1, <3>4, <3>5
  <2> QED
    BY <1>1, <2>2, <2>4, <2>5, <2>6
<1> QED
  BY <1>3, <1>4, <1>5, <1>6 DEF Monitor

(***************************************************************************)
(* Once every edge is handled the monitor knows of a train that came over  *)
(* the entry sensor, however soon after the last one and however fast it   *)
(* came, and whatever edges the FIFO dropped.  The FIFO has to hold the    *)
(* three edges that a train causes before it covers the stop sensor alone; *)
(* the kernel's holds 32.                                                  *)
(***************************************************************************)
THEOREM TrainIsSeen ==
  ASSUME FifoCap >= 3
  PROVE  TrainSpec => []OccupiedIsSeen
<1>1. TrainInit => PassageInv
  BY DEF TrainInit, PassageInv
<1>2. TrainInv /\ PassageInv /\ [TrainNext]_trainVars => PassageInv'
  <2> SUFFICES ASSUME TrainInv, PassageInv, [TrainNext]_trainVars
               PROVE  PassageInv'
    OBVIOUS
  <2>1. CASE Arrive \/ Proceed \/ Leave
    BY <2>1, MovesKeepPassage
  <2>2. CASE (Monitor \/ UpdateState) /\ UNCHANGED trackVars
    BY <2>2, MonitorKeepsPassage
  <2>3. CASE UNCHANGED trainVars
    BY <2>3, MonitorKeepsPassage DEF trainVars
  <2> QED
    BY <2>1, <2>2, <2>3 DEF TrainNext
<1>3. TrainInv /\ PassageInv => OccupiedIsSeen
  <2> SUFFICES ASSUME TrainInv, PassageInv, crossed, pc # "batch", fifo = <<>>,
                      train # "away"
               PROVE  /\ internalState # EMPTY
                      /\ train = "onStop" => internalState = ENTERED
    BY DEF OccupiedIsSeen
  <2>1. Waiting = 0
    BY DEF TrainInv, TrainTypeOK, TypeOK, Waiting
  <2>2. PICK p \in Passages : Follows(p)
    BY DEF PassageInv
  <2>3. /\ Len(p) \in 1 .. 3
        /\ train = "onStop" => \E k \in 1 .. Len(p) : p[k] = CoveredStop
    BY PassageShape DEF TrainInv
  <2> QED
    BY <2>1, <2>2, <2>3 DEF Follows
<1> QED
  BY <1>1, <1>2, <1>3, TrainsAreInductive, PTL DEF TrainSpec
=============================================================================
