--------------------------- MODULE TelemetryProofs ---------------------------
(***************************************************************************)
(* The operator's screen, for every set of trains and of samples and for   *)
(* any number of datagrams on their way: the two threads draw under one    *)
(* lock, and what is shown for a train is its own.                         *)
(***************************************************************************)
EXTENDS Telemetry, FiniteSetTheorems, TLAPS

\* The bound on the datagrams counts a finite set.
TypeInv == TypeOK /\ IsFiniteSet(air)

LEMMA Datagrams ==
  ASSUME NEW d \in Datagram
  PROVE  /\ d.id \in Train /\ d.data \in {d.id} \X Sample
         /\ d.data \in Reading /\ d.data # Garbage
<1>1. PICK r \in Reading : d = [id |-> r[1], data |-> r]
  BY DEF Datagram
<1>2. d.id = r[1] /\ d.data = r /\ r[1] \in Train
  BY <1>1 DEF Reading
<1> QED
  BY <1>2, TelemetryAssumption DEF Reading, Garbage

LEMMA FirstRowsType ==
  [i \in 1 .. 3 |-> Zero] \in [1 .. 3 -> Reading \cup {Zero, Garbage}]
  OBVIOUS

LEMMA TypesAreKept ==
  ASSUME TypeInv, [Next]_vars
  PROVE  TypeInv'
<1> USE DEF TypeInv, TypeOK
<1>1. ASSUME NEW t \in Train, SendDatagram(t)
      PROVE  TypeInv'
  <2>1. PICK s \in Sample : air' = air \cup {[id |-> t, data |-> <<t, s>>]}
    BY <1>1 DEF SendDatagram
  <2>2. [id |-> t, data |-> <<t, s>>] \in Datagram
    BY DEF Datagram, Reading
  <2>3. IsFiniteSet(air') /\ Cardinality(air') \in {Cardinality(air), Cardinality(air) + 1}
    BY <2>1, FS_AddElement
  <2>4. Cardinality(air') <= AirSize
    BY <1>1, <2>3, FS_CardinalityType, TelemetryAssumption DEF SendDatagram
  <2> QED
    BY <1>1, <2>1, <2>2, <2>3, <2>4 DEF SendDatagram
<1>2. ASSUME NEW d \in air, air' = air \ {d}
      PROVE  /\ IsFiniteSet(air') /\ Cardinality(air') <= AirSize
             /\ air' \subseteq Datagram
  <2>1. IsFiniteSet(air') /\ Cardinality(air') = Cardinality(air) - 1
    BY <1>2, FS_RemoveElement
  <2>2. Cardinality(air) \in Nat
    BY FS_CardinalityType
  <2> QED
    BY <1>2, <2>1, <2>2, TelemetryAssumption
<1>3. ASSUME NEW d \in air, Lose(d)
      PROVE  TypeInv'
  BY <1>2, <1>3 DEF Lose
<1>4. CASE FirstRows
  BY <1>4, FirstRowsType DEF FirstRows
<1>5. CASE Lock
  BY <1>5 DEF Lock
<1>6. CASE Receive
  <2>1. PICK d \in air : msg' = d /\ air' = air \ {d}
    BY <1>6 DEF Receive
  <2> QED
    BY <1>2, <1>6, <2>1 DEF Receive
<1>7. CASE ReceiveNothing
  BY <1>7 DEF ReceiveNothing
<1>8. CASE Draw
  <2>1. msg.data \in Reading \cup {Garbage}
    BY Datagrams
  <2> QED
    BY <1>8, <2>1 DEF Draw
<1>9. CASE Refresh
  BY <1>9 DEF Refresh
<1>10. CASE EndRound \/ ControlLock \/ ControlDraw
  BY <1>10 DEF EndRound, ControlLock, ControlDraw
<1>11. CASE UNCHANGED vars
  BY <1>11 DEF vars
<1> QED
  BY <1>1, <1>3, <1>4, <1>5, <1>6, <1>7, <1>8, <1>9, <1>10, <1>11 DEF Next, Wifi

LEMMA InitTypes == Init => TypeInv
  BY FirstRowsType, FS_EmptySet, TelemetryAssumption DEF Init, TypeInv, TypeOK

LEMMA TypesAreInductive == Spec => []TypeInv
  BY InitTypes, TypesAreKept, PTL DEF Spec

(***************************************************************************)
(* Every variable keeps its type, and handleWifi and the control thread    *)
(* draw into the buffer of curses only while they hold curses_lock.        *)
(***************************************************************************)
THEOREM TypeCorrect == Spec => []TypeOK
<1>1. TypeInv => TypeOK
  BY DEF TypeInv
<1> QED
  BY <1>1, TypesAreInductive, PTL

-----------------------------------------------------------------------------
\* Rows are of their own train, but for the one that msg may have held
\* before the first datagram.
Own(r) ==
  /\ \A i \in 1 .. 3 : r[i] \in {Zero, Garbage} \cup ({i} \X Sample)
  /\ \A i, j \in 1 .. 3 : r[i] = Garbage /\ r[j] = Garbage => i = j

\* As long as msg has not been received into, it is drawn in one row only.
RowsInv ==
  /\ Own(rows) /\ Own(screen)
  /\ msg.data = Garbage => \A i \in 1 .. 3 : rows[i] = Garbage => i = msg.id

LEMMA RowsAreKept ==
  ASSUME TypeInv, RowsInv, [Next]_vars
  PROVE  RowsInv'
<1> USE DEF RowsInv
<1>1. CASE UNCHANGED <<msg, rows, screen>>
  BY <1>1 DEF Own
<1>2. CASE FirstRows
  <2>1. Zero # Garbage
    BY DEF Zero, Garbage
  <2> QED
    BY <1>2, <2>1 DEF FirstRows, Own
<1>3. CASE Receive
  <2>1. PICK d \in air : msg' = d
    BY <1>3 DEF Receive
  <2>2. msg'.data # Garbage
    BY <2>1, Datagrams DEF TypeInv, TypeOK
  <2> QED
    BY <1>3, <2>2 DEF Receive, Own
<1>4. CASE Draw
  <2>1. rows' = [i \in 1 .. 3 |-> IF i = msg.id THEN msg.data ELSE rows[i]]
    BY <1>4 DEF Draw
  <2>2. msg.data \in {Garbage} \cup ({msg.id} \X Sample)
    BY Datagrams DEF TypeInv, TypeOK
  <2>3. Own(rows')
    BY <2>1, <2>2 DEF Own
  <2> QED
    BY <1>4, <2>1, <2>3 DEF Draw, Own
<1>5. CASE Refresh \/ ControlDraw
  BY <1>5 DEF Refresh, ControlDraw, Own
<1> QED
  BY <1>1, <1>2, <1>3, <1>4, <1>5
     DEF Next, Wifi, SendDatagram, Lose, Lock, ReceiveNothing, EndRound, ControlLock, vars

(***************************************************************************)
(* The numbers on the screen are of the train they are shown for: drawing, *)
(* the missing else and the refresh by the other thread mix nothing up,    *)
(* and the buffer that handleWifi does not initialise spoils one row.      *)
(***************************************************************************)
THEOREM ScreenIsTrue == Spec => []RowsAreTrue
<1>1. Init => RowsInv
  <2>1. Zero # Garbage
    BY DEF Zero, Garbage
  <2> QED
    BY <2>1 DEF Init, RowsInv, Own
<1>2. RowsInv => RowsAreTrue
  <2> SUFFICES ASSUME RowsInv
               PROVE  RowsAreTrue
    OBVIOUS
  <2> DEFINE G == {i \in 1 .. 3 : screen[i] = Garbage}
  <2>1. Cardinality(G) <= 1
    <3>1. CASE G = {}
      BY <3>1, FS_EmptySet
    <3>2. CASE G # {}
      <4>1. PICK i \in G : TRUE
        BY <3>2
      <4>2. G = {i}
        BY <4>1 DEF RowsInv, Own
      <4>3. Cardinality({i}) = 1
        BY FS_Singleton
      <4> QED
        BY <4>2, <4>3
    <3> QED
      BY <3>1, <3>2
  <2> QED
    BY <2>1 DEF RowsInv, Own, RowsAreTrue
<1> QED
  BY <1>1, <1>2, TypesAreInductive, RowsAreKept, PTL DEF Spec
=============================================================================
