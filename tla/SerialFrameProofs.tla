-------------------------- MODULE SerialFrameProofs --------------------------
(***************************************************************************)
(* The framing of the packets, for any payloads of one to three bytes that *)
(* are neither start nor stop byte, and any number of packets, each of     *)
(* which may be cut anywhere: where the firmware is in the packet that is  *)
(* being sent, and what a frame may be merged of.                          *)
(***************************************************************************)
EXTENDS SerialFrame, SequenceTheorems, TLAPS

-----------------------------------------------------------------------------
(***************************************************************************)
(* Types, and the packet that is being sent.                               *)
(***************************************************************************)
Count == Len(sent)
Left  == Len(outq)
Got   == Len(msg)
Done  == Len(delivered)

Last     == sent[Count]
LastSize == Len(Last)

\* How many bytes of the last packet the firmware has taken.
Position == LastSize + 2 - Left

Frame == [payload : Seq(Byte), packet : Nat]

\* What the tty holds is the rest of the last packet, which is not yet cut.
LineInv ==
  /\ pc = "write" => outq = <<>>
  /\ pc = "flush" =>
       /\ Count >= 1
       /\ Count \notin cut
       /\ Position \in 0 .. LastSize + 2
       /\ \A i \in 1 .. Left : outq[i] = Packet(Last)[Position + i]

LEMMA PacketShape ==
  ASSUME NEW p \in Payload
  PROVE  /\ p \in Seq(Byte) /\ Len(p) \in 1 .. 3
         /\ \A i \in 1 .. Len(p) : p[i] \in Byte \ {START, FINISH}
         /\ Packet(p) \in Seq(Byte) /\ Len(Packet(p)) = Len(p) + 2
         /\ Packet(p)[1] = START
         /\ \A i \in 1 .. Len(p) : Packet(p)[i + 1] = p[i]
         /\ Packet(p)[Len(p) + 2] = FINISH
<1>1. /\ p \in Seq(Byte) /\ Len(p) \in 1 .. 3
      /\ \A i \in 1 .. Len(p) : p[i] \notin {START, FINISH}
  BY FrameAssumption
<1>2. \A i \in 1 .. Len(p) : p[i] \in Byte \ {START, FINISH}
  BY <1>1, ElementOfSeq
<1> DEFINE n == Len(p)
           a == <<START>> \o p
<1>3. n \in 1 .. 3
  BY <1>1
<1> HIDE DEF n
<1>4. /\ <<START>> \in Seq(Byte) /\ Len(<<START>>) = 1 /\ <<START>>[1] = START
      /\ <<FINISH>> \in Seq(Byte) /\ Len(<<FINISH>>) = 1 /\ <<FINISH>>[1] = FINISH
  BY DEF START, FINISH, Byte
<1>5. /\ a \in Seq(Byte) /\ Len(a) = n + 1
      /\ \A i \in 1 .. n + 1 : a[i] = IF i <= 1 THEN <<START>>[i] ELSE p[i - 1]
  <2>1. /\ a \in Seq(Byte) /\ Len(a) = 1 + n
        /\ \A i \in 1 .. 1 + n : a[i] = IF i <= 1 THEN <<START>>[i] ELSE p[i - 1]
    BY <1>1, <1>4, ConcatProperties DEF n
  <2>2. 1 + n = n + 1
    BY <1>3
  <2> QED
    BY <2>1, <2>2
<1> HIDE DEF a
<1>6. /\ Packet(p) \in Seq(Byte) /\ Len(Packet(p)) = (n + 1) + 1
      /\ \A i \in 1 .. (n + 1) + 1 :
           Packet(p)[i] = IF i <= n + 1 THEN a[i] ELSE <<FINISH>>[i - (n + 1)]
  <2>1. Packet(p) = a \o <<FINISH>>
    BY DEF Packet, a
  <2> QED
    BY <1>4, <1>5, <2>1, ConcatProperties
<1>7. Len(Packet(p)) = n + 2 /\ Packet(p)[1] = START
  <2>1. /\ (n + 1) + 1 = n + 2
        /\ 1 \in 1 .. (n + 1) + 1 /\ 1 \in 1 .. n + 1 /\ 1 <= n + 1 /\ 1 <= 1
    BY <1>3
  <2>2. Packet(p)[1] = a[1] /\ a[1] = <<START>>[1]
    BY <1>5, <1>6, <2>1
  <2> QED
    BY <1>4, <1>6, <2>1, <2>2
<1>8. ASSUME NEW i \in 1 .. n
      PROVE  Packet(p)[i + 1] = p[i]
  <2>1. i + 1 \in 1 .. (n + 1) + 1 /\ i + 1 <= n + 1 /\ ~(i + 1 <= 1) /\ (i + 1) - 1 = i
    BY <1>3
  <2> QED
    BY <1>5, <1>6, <2>1
<1>9. Packet(p)[n + 2] = FINISH
  <2>1. n + 2 \in 1 .. (n + 1) + 1 /\ ~(n + 2 <= n + 1) /\ (n + 2) - (n + 1) = 1
    BY <1>3
  <2> QED
    BY <1>4, <1>6, <2>1
<1> QED
  BY <1>1, <1>2, <1>6, <1>7, <1>8, <1>9 DEF n

LEMMA Lengths ==
  ASSUME TypeOK
  PROVE  /\ Count \in Nat /\ Left \in Nat /\ Got \in 0 .. 5 /\ Done \in Nat
         /\ outq # <<>> <=> Left >= 1
         /\ \A i \in 1 .. Count : sent[i] \in Payload
<1>1. /\ sent \in Seq(Payload) /\ outq \in Seq(Byte) /\ msg \in Seq(Byte) /\ Got <= 5
      /\ delivered \in Seq(Frame)
  BY DEF TypeOK, Got, Frame
<1>2. Count \in Nat /\ Left \in Nat /\ Got \in Nat /\ Done \in Nat
  BY <1>1, LenProperties DEF Count, Left, Got, Done
<1>3. outq # <<>> <=> Left >= 1
  <2>1. outq # <<>> => Left \in Nat \ {0}
    BY <1>1, EmptySeq DEF Left
  <2>2. outq = <<>> => Left = 0
    BY EmptySeq DEF Left
  <2> QED
    BY <1>2, <2>1, <2>2
<1>4. \A i \in 1 .. Count : sent[i] \in Payload
  BY <1>1, ElementOfSeq DEF Count
<1> QED
  BY <1>1, <1>2, <1>3, <1>4

LEMMA LastPacket ==
  ASSUME TypeOK, LineInv, pc = "flush"
  PROVE  /\ Last \in Payload /\ LastSize \in 1 .. 3
         /\ Position \in 0 .. LastSize + 2 /\ Left = LastSize + 2 - Position
<1>1. Last \in Payload
  BY Lengths DEF LineInv, Last
<1>2. LastSize \in 1 .. 3
  BY <1>1, PacketShape DEF LastSize
<1>3. Position \in 0 .. LastSize + 2
  BY DEF LineInv
<1> QED
  BY <1>1, <1>2, <1>3, Lengths DEF Position

\* The firmware takes a byte.
LEMMA NextByte ==
  ASSUME TypeOK, LineInv, Transfer
  PROVE  /\ pc = "flush" /\ Count \in Nat \ {0}
         /\ Last \in Payload /\ LastSize \in 1 .. 3
         /\ Position \in 0 .. LastSize + 1
         /\ Head(outq) \in Byte
         /\ Position = 0 <=> Head(outq) = START
         /\ Position = LastSize + 1 <=> Head(outq) = FINISH
         /\ Position \in 1 .. LastSize => Head(outq) = Last[Position]
         /\ Count' = Count /\ Last' = Last /\ LastSize' = LastSize
         /\ Position' = Position + 1
         /\ outq' \in Seq(Byte)
         /\ outq' = <<>> => Position = LastSize + 1
         /\ LineInv'
<1>1. outq # <<>> /\ outq' = Tail(outq) /\ UNCHANGED <<sent, pc, cut>>
  BY DEF Transfer
<1>2. pc = "flush" /\ Count \in Nat \ {0} /\ Count \notin cut
  BY <1>1, Lengths DEF TypeOK, LineInv
<1>3. /\ Last \in Payload /\ LastSize \in 1 .. 3
      /\ Position \in 0 .. LastSize + 2 /\ Left = LastSize + 2 - Position
      /\ \A i \in 1 .. Left : outq[i] = Packet(Last)[Position + i]
  BY <1>2, LastPacket DEF LineInv
<1>4. Left \in Nat /\ Left >= 1 /\ Position \in 0 .. LastSize + 1
  BY <1>1, <1>3, Lengths
<1>5. /\ Head(outq) = outq[1] /\ Head(outq) \in Byte
      /\ outq' \in Seq(Byte) /\ Left' = Left - 1
      /\ \A i \in 1 .. Left - 1 : outq'[i] = outq[i + 1]
  <2>1. outq \in Seq(Byte)
    BY DEF TypeOK
  <2>2. /\ Head(outq) \in Byte /\ Tail(outq) \in Seq(Byte)
        /\ Len(Tail(outq)) = Len(outq) - 1
        /\ \A i \in 1 .. Len(Tail(outq)) : Tail(outq)[i] = outq[i + 1]
    BY <1>1, <2>1, HeadTailProperties
  <2>3. Head(outq) = outq[1]
    BY <1>1, <2>1
  <2> QED
    BY <1>1, <2>2, <2>3 DEF Left
<1>6. Head(outq) = Packet(Last)[Position + 1]
  BY <1>3, <1>4, <1>5
<1>7. /\ Packet(Last)[1] = START /\ Packet(Last)[LastSize + 2] = FINISH
      /\ \A i \in 1 .. LastSize : Packet(Last)[i + 1] = Last[i] /\ Last[i] \notin {START, FINISH}
  BY <1>3, PacketShape DEF LastSize
<1>8. START # FINISH
  BY DEF START, FINISH
<1>9. /\ Position = 0 => Head(outq) = START
      /\ Position = LastSize + 1 => Head(outq) = FINISH
      /\ Position \in 1 .. LastSize =>
           Head(outq) = Last[Position] /\ Head(outq) \notin {START, FINISH}
  <2>1. CASE Position = 0
    BY <1>3, <1>6, <1>7, <2>1
  <2>2. CASE Position = LastSize + 1
    <3>1. Position + 1 = LastSize + 2
      BY <1>3, <2>2
    <3> QED
      BY <1>3, <1>6, <1>7, <2>2, <3>1
  <2>3. CASE Position \in 1 .. LastSize
    BY <1>3, <1>6, <1>7, <2>3
  <2> QED
    BY <2>1, <2>2, <2>3
<1>10. /\ Position = 0 <=> Head(outq) = START
       /\ Position = LastSize + 1 <=> Head(outq) = FINISH
  BY <1>3, <1>4, <1>8, <1>9
<1>11. Count' = Count /\ Last' = Last /\ LastSize' = LastSize /\ pc' = pc /\ cut' = cut
  BY <1>1 DEF Count, Last, LastSize
<1>12. Position' = Position + 1
  <2>1. Position' = LastSize' + 2 - Left'
    BY DEF Position
  <2> QED
    BY <1>3, <1>4, <1>5, <1>11, <2>1
<1>13. outq' = <<>> => Position = LastSize + 1
  <2>1. outq' = <<>> => Left' = 0
    BY EmptySeq DEF Left
  <2> QED
    BY <1>3, <1>4, <1>5, <2>1
<1>14. LineInv'
  <2>1. \A i \in 1 .. Left' : outq'[i] = Packet(Last)[(Position + 1) + i]
    <3> TAKE i \in 1 .. Left'
    <3>1. i \in 1 .. Left - 1 /\ i + 1 \in 1 .. Left
          /\ Position + (i + 1) = (Position + 1) + i
      BY <1>3, <1>4, <1>5
    <3> QED
      BY <1>3, <1>5, <3>1
  <2>2. Position' \in 0 .. LastSize' + 2
    BY <1>3, <1>4, <1>11, <1>12
  <2> QED
    BY <1>2, <1>11, <1>12, <2>1, <2>2 DEF LineInv
<1> QED
  BY <1>2, <1>3, <1>4, <1>5, <1>9, <1>10, <1>11, <1>12, <1>13, <1>14

-----------------------------------------------------------------------------
(***************************************************************************)
(* Types and the packet that is being sent, step by step.                  *)
(***************************************************************************)
Reading == ReadIdle \/ ReadStop \/ ReadByte

LEMMA WriteSteps ==
  ASSUME TypeOK, LineInv, NEW p \in Payload, Write(p)
  PROVE  /\ TypeOK' /\ LineInv'
         /\ pc = "write" /\ pc' = "flush" /\ Count' = Count + 1 /\ Last' = p
         /\ Position' = 0 /\ LastSize' \in 1 .. 3 /\ outq' # <<>>
         /\ \A i \in 1 .. Count : sent'[i] = sent[i]
         /\ UNCHANGED <<rx, msg, delivered, cut>>
<1>1. /\ pc = "write" /\ sent' = Append(sent, p) /\ outq' = Packet(p) /\ pc' = "flush"
      /\ UNCHANGED <<rx, msg, delivered, cut>>
  BY DEF Write
<1>2. sent \in Seq(Payload) /\ Count \in Nat
  BY Lengths DEF TypeOK
<1>3. /\ sent' \in Seq(Payload) /\ Count' = Count + 1
      /\ \A i \in 1 .. Count : sent'[i] = sent[i]
      /\ sent'[Count + 1] = p
  BY <1>1, <1>2, AppendProperties DEF Count
<1>4. Last' = p
  BY <1>3 DEF Last
<1>5. LastSize' = Len(p) /\ LastSize' \in 1 .. 3
  BY <1>4, PacketShape DEF LastSize
<1>6. outq' \in Seq(Byte) /\ Left' = LastSize' + 2
  BY <1>1, <1>5, PacketShape DEF Left
<1>7. Position' = 0
  BY <1>5, <1>6 DEF Position
<1>8. cut' \subseteq 1 .. Len(sent')
  <2>1. cut \subseteq 1 .. Count
    BY DEF TypeOK, Count
  <2>2. cut \subseteq 1 .. Count + 1
    BY <1>2, <2>1
  <2> QED
    BY <1>1, <1>3, <2>2 DEF Count
<1>9. TypeOK'
  BY <1>1, <1>3, <1>6, <1>8 DEF TypeOK
<1>10. LineInv'
  <2>1. Count' \notin cut' /\ Count' >= 1
    <3>1. Count + 1 \notin cut
      <4>1. cut \subseteq 1 .. Count /\ Count + 1 \notin 1 .. Count
        BY <1>2 DEF TypeOK, Count
      <4> QED
        BY <4>1
    <3> QED
      BY <1>1, <1>2, <1>3, <3>1
  <2>2. \A i \in 1 .. Left' : outq'[i] = Packet(Last')[0 + i]
    BY <1>1, <1>4, <1>5, <1>6
  <2> QED
    BY <1>1, <1>5, <1>7, <2>1, <2>2 DEF LineInv
<1>11. outq' # <<>>
  <2>1. outq' = <<>> => Left' = 0
    BY EmptySeq DEF Left
  <2> QED
    BY <1>5, <1>6, <2>1
<1> QED
  BY <1>1, <1>3, <1>4, <1>5, <1>7, <1>9, <1>10, <1>11

LEMMA FlushSteps ==
  ASSUME TypeOK, LineInv, Flush
  PROVE  /\ TypeOK' /\ LineInv'
         /\ pc = "flush" /\ pc' = "write" /\ Count' = Count
         /\ cut \subseteq cut' /\ cut' \subseteq cut \cup {Count}
         /\ outq # <<>> => Count \in cut'
         /\ UNCHANGED <<sent, rx, msg, delivered>>
<1>1. /\ pc = "flush" /\ outq' = <<>> /\ pc' = "write"
      /\ cut' = IF outq = <<>> THEN cut ELSE cut \cup {Count}
      /\ UNCHANGED <<sent, rx, msg, delivered>>
  BY DEF Flush, Count
<1>2. Count >= 1 /\ Count \in Nat
  BY <1>1, Lengths DEF LineInv
<1>3. cut' \subseteq 1 .. Len(sent')
  <2>1. cut \subseteq 1 .. Count /\ Count \in 1 .. Count
    BY <1>2 DEF TypeOK, Count
  <2> QED
    BY <1>1, <2>1 DEF Count
<1>4. outq' \in Seq(Byte)
  BY <1>1, EmptySeq
<1>5. TypeOK'
  BY <1>1, <1>3, <1>4 DEF TypeOK
<1>6. LineInv' /\ Count' = Count
  BY <1>1 DEF LineInv, Count
<1> QED
  BY <1>1, <1>5, <1>6

\* The byte goes nowhere, ends a frame, or is added to it.
LEMMA ReadingSteps ==
  ASSUME TypeOK, LineInv, Reading
  PROVE  /\ TypeOK' /\ LineInv' /\ Transfer
         /\ UNCHANGED <<sent, pc, cut>>
         /\ \/ /\ rx = "idle" /\ msg = <<>> /\ msg' = <<>> /\ delivered' = delivered
               /\ rx' = IF Head(outq) = START THEN "frame" ELSE "idle"
            \/ /\ rx = "frame" /\ rx' = "idle" /\ Head(outq) = FINISH /\ msg' = <<>>
               /\ delivered' = Append(delivered, [payload |-> msg, packet |-> Count])
               /\ Done' = Done + 1
               /\ \A d \in 1 .. Done : delivered'[d] = delivered[d]
               /\ delivered'[Done + 1] = [payload |-> msg, packet |-> Count]
            \/ /\ rx = "frame" /\ rx' = "idle" /\ Head(outq) # FINISH /\ msg' = <<>>
               /\ delivered' = delivered /\ Got = 5
            \/ /\ rx = "frame" /\ rx' = "frame" /\ Head(outq) # FINISH /\ delivered' = delivered
               /\ Got' = Got + 1 /\ msg'[Got + 1] = Head(outq)
               /\ \A i \in 1 .. Got : msg'[i] = msg[i]
<1>1. Transfer
  BY DEF Reading, ReadIdle, ReadStop, ReadByte
<1>2. UNCHANGED <<sent, pc, cut>>
  BY <1>1 DEF Transfer
<1>3. LineInv' /\ Head(outq) \in Byte /\ outq' \in Seq(Byte)
  BY <1>1, NextByte
<1>4. /\ msg \in Seq(Byte) /\ Got \in 0 .. 5 /\ delivered \in Seq(Frame)
      /\ (rx = "idle" => msg = <<>>)
  BY Lengths DEF TypeOK, Frame
<1>5. CASE ReadIdle
  <2>1. /\ rx = "idle" /\ msg = <<>> /\ UNCHANGED <<msg, delivered>>
        /\ rx' = IF Head(outq) = START THEN "frame" ELSE "idle"
    BY <1>4, <1>5 DEF ReadIdle
  <2>2. TypeOK'
    BY <1>2, <1>3, <2>1 DEF TypeOK
  <2> QED
    BY <1>1, <1>2, <1>3, <2>1, <2>2
<1>6. CASE ReadStop
  <2> DEFINE e == [payload |-> msg, packet |-> Count]
  <2>1. /\ rx = "frame" /\ Head(outq) = FINISH /\ delivered' = Append(delivered, e)
        /\ rx' = "idle" /\ msg' = <<>>
    BY <1>6 DEF ReadStop, Count
  <2>2. e \in Frame
    BY <1>4, Lengths DEF Frame
  <2> HIDE DEF e
  <2>3. /\ delivered' \in Seq(Frame) /\ Done' = Done + 1
        /\ \A d \in 1 .. Done : delivered'[d] = delivered[d]
        /\ delivered'[Done + 1] = e
    BY <1>4, <2>1, <2>2, AppendProperties DEF Done
  <2>4. msg' \in Seq(Byte) /\ Len(msg') = 0
    BY <2>1, EmptySeq
  <2>5. TypeOK'
    BY <1>2, <1>3, <2>1, <2>3, <2>4 DEF TypeOK, Frame
  <2> QED
    BY <1>1, <1>2, <1>3, <2>1, <2>3, <2>5 DEF e
<1>7. CASE ReadByte
  <2>1. /\ rx = "frame" /\ Head(outq) # FINISH /\ delivered' = delivered
        /\ \/ Got = 5 /\ rx' = "idle" /\ msg' = <<>>
           \/ Got # 5 /\ rx' = rx /\ msg' = Append(msg, Head(outq))
    BY <1>7 DEF ReadByte, Got
  <2>2. CASE Got = 5 /\ rx' = "idle" /\ msg' = <<>>
    <3>1. msg' \in Seq(Byte) /\ Len(msg') = 0
      BY <2>2, EmptySeq
    <3>2. TypeOK'
      BY <1>2, <1>3, <2>1, <2>2, <3>1 DEF TypeOK
    <3> QED
      BY <1>1, <1>2, <1>3, <2>1, <2>2, <3>2
  <2>3. CASE Got # 5 /\ rx' = rx /\ msg' = Append(msg, Head(outq))
    <3>1. /\ msg' \in Seq(Byte) /\ Got' = Got + 1
          /\ \A i \in 1 .. Got : msg'[i] = msg[i]
          /\ msg'[Got + 1] = Head(outq)
      BY <1>3, <1>4, <2>3, AppendProperties DEF Got
    <3>2. Got' <= 5
      BY <1>4, <2>3, <3>1
    <3>3. Len(msg') <= 5
      BY <3>2 DEF Got
    <3>4. TypeOK'
      BY <1>2, <1>3, <2>1, <2>3, <3>1, <3>3 DEF TypeOK
    <3> QED
      BY <1>1, <1>2, <1>3, <2>1, <2>3, <3>1, <3>4
  <2> QED
    BY <2>1, <2>2, <2>3
<1> QED
  BY <1>5, <1>6, <1>7 DEF Reading

LEMMA FrameInit ==
  ASSUME Init
  PROVE  /\ TypeOK /\ LineInv
         /\ Count = 0 /\ Done = 0 /\ Got = 0
<1>1. /\ sent \in Seq(Payload) /\ outq \in Seq(Byte) /\ msg \in Seq(Byte) /\ Len(msg) = 0
      /\ delivered \in Seq(Frame) /\ Count = 0 /\ Done = 0 /\ Got = 0
  BY EmptySeq DEF Init, Count, Done, Got
<1> QED
  BY <1>1 DEF Init, TypeOK, LineInv, Frame

LEMMA FrameStep ==
  ASSUME TypeOK, LineInv, [Next]_vars
  PROVE  TypeOK' /\ LineInv'
<1>1. CASE \E p \in Payload : Write(p)
  BY <1>1, WriteSteps
<1>2. CASE Flush
  BY <1>2, FlushSteps
<1>3. CASE Reading
  BY <1>3, ReadingSteps
<1>4. CASE UNCHANGED vars
  BY <1>4 DEF vars, TypeOK, LineInv, Count, Left, Position, LastSize, Last
<1> QED
  BY <1>1, <1>2, <1>3, <1>4 DEF Next, Reading

(***************************************************************************)
(* The variables stay in their types: the firmware never collects more     *)
(* than five bytes, whatever was cut and merged.                           *)
(***************************************************************************)
THEOREM TypeCorrect == Spec => []TypeOK
<1>1. Init => TypeOK /\ LineInv
  BY FrameInit
<1>2. TypeOK /\ LineInv /\ [Next]_vars => (TypeOK /\ LineInv)'
  BY FrameStep
<1> QED
  BY <1>1, <1>2, PTL DEF Spec

-----------------------------------------------------------------------------
(***************************************************************************)
(* The firmware is in step with the controller from the first packet on    *)
(* that follows a whole one: it is in the frame as far as the packet has   *)
(* come.                                                                   *)
(***************************************************************************)
\* No cut packet is right before it.
Clean(i) == i = 1 \/ i - 1 \notin cut

Delivered(i) ==
  \E d \in 1 .. Done : delivered[d] = [payload |-> sent[i], packet |-> i]

\* The firmware has taken as much of the last packet as has been sent.
Along ==
  /\ Position = 0 => rx = "idle"
  /\ Position \in 1 .. LastSize + 1 =>
       rx = "frame" /\ Got = Position - 1 /\ \A i \in 1 .. Got : msg[i] = Last[i]
  /\ Position = LastSize + 2 => Delivered(Count)

InStep ==
  /\ pc = "write" /\ Count \notin cut => rx = "idle"
  /\ pc = "flush" /\ outq = <<>> => rx = "idle"
  /\ pc = "flush" /\ Clean(Count) => Along
  /\ \A i \in 1 .. Count :
       (i # Count \/ pc = "write") /\ i \notin cut /\ Clean(i) => Delivered(i)

LEMMA InStepWriting ==
  ASSUME TypeOK, LineInv, InStep, NEW p \in Payload, Write(p)
  PROVE  InStep'
<1>1. /\ pc = "write" /\ pc' = "flush" /\ Count' = Count + 1
      /\ Position' = 0 /\ LastSize' \in 1 .. 3
      /\ \A i \in 1 .. Count : sent'[i] = sent[i]
      /\ UNCHANGED <<rx, msg, delivered, cut>>
  BY WriteSteps
<1>2. Count \in Nat
  BY Lengths
<1>3. outq' # <<>>
  BY WriteSteps
<1>4. Clean(Count)' => rx' = "idle"
  <2>1. Clean(Count)' => Count \notin cut
    <3>1. CASE Count = 0
      BY <3>1 DEF TypeOK, Count
    <3>2. CASE Count # 0
      BY <1>1, <1>2, <3>2 DEF Clean
    <3> QED
      BY <3>1, <3>2
  <2> QED
    BY <1>1, <2>1 DEF InStep
<1>5. Clean(Count)' => Along'
  <2>1. \A n \in 1 .. 3 : 0 \notin 1 .. n + 1 /\ 0 # n + 2
    OBVIOUS
  <2>2. Position' \notin 1 .. LastSize' + 1 /\ Position' # LastSize' + 2
    BY <1>1, <2>1, Zenon
  <2> QED
    BY <1>4, <2>2, Zenon DEF Along
<1>6. ASSUME NEW i \in 1 .. Count', i # Count' \/ pc' = "write", i \notin cut', Clean(i)'
      PROVE  Delivered(i)'
  <2>1. i \in 1 .. Count /\ sent'[i] = sent[i]
    BY <1>1, <1>2, <1>6
  <2>2. Delivered(i)
    BY <1>1, <1>6, <2>1 DEF InStep, Clean
  <2> QED
    BY <1>1, <2>1, <2>2 DEF Delivered, Done
<1> QED
  BY <1>1, <1>3, <1>5, <1>6 DEF InStep

LEMMA InStepFlushing ==
  ASSUME TypeOK, LineInv, InStep, Flush
  PROVE  InStep'
<1>1. /\ pc = "flush" /\ pc' = "write" /\ Count' = Count
      /\ cut \subseteq cut' /\ cut' \subseteq cut \cup {Count}
      /\ outq # <<>> => Count \in cut'
      /\ UNCHANGED <<sent, rx, msg, delivered>>
  BY FlushSteps
<1>2. Count' \notin cut' => outq = <<>> /\ rx' = "idle"
  BY <1>1 DEF InStep
<1>3. ASSUME NEW i \in 1 .. Count', i \notin cut', Clean(i)'
      PROVE  Delivered(i)'
  <2>1. i \in 1 .. Count /\ i \notin cut /\ Clean(i)
    BY <1>1, <1>3 DEF Clean
  <2>2. Delivered(i)
    <3>1. CASE i # Count
      BY <2>1, <3>1 DEF InStep
    <3>2. CASE i = Count
      <4>1. outq = <<>>
        BY <1>1, <1>3, <3>2
      <4>2. Position = LastSize + 2
        BY <1>1, <4>1, LastPacket, Lengths
      <4> QED
        BY <1>1, <2>1, <3>2, <4>2 DEF InStep, Along
    <3> QED
      BY <3>1, <3>2
  <2> QED
    BY <1>1, <2>2 DEF Delivered, Done
<1> QED
  BY <1>1, <1>2, <1>3 DEF InStep

LEMMA DeliveredKept ==
  ASSUME TypeOK, LineInv, Reading, NEW i, Delivered(i)
  PROVE  Delivered(i)'
<1>1. sent' = sent /\ Done \in Nat
  BY ReadingSteps, Lengths
<1>2. \/ delivered' = delivered
      \/ Done' = Done + 1 /\ \A d \in 1 .. Done : delivered'[d] = delivered[d]
  BY ReadingSteps
<1>3. CASE delivered' = delivered
  BY <1>1, <1>3 DEF Delivered, Done
<1>4. CASE Done' = Done + 1 /\ \A d \in 1 .. Done : delivered'[d] = delivered[d]
  <2>1. PICK d \in 1 .. Done : delivered[d] = [payload |-> sent[i], packet |-> i]
    BY DEF Delivered
  <2>2. d \in 1 .. Done' /\ delivered'[d] = [payload |-> sent'[i], packet |-> i]
    BY <1>1, <1>4, <2>1
  <2> QED
    BY <2>2 DEF Delivered
<1> QED
  BY <1>2, <1>3, <1>4

LEMMA InStepReading ==
  ASSUME TypeOK, LineInv, InStep, Reading
  PROVE  InStep'
<1>1. Transfer /\ UNCHANGED <<sent, pc, cut>>
  BY ReadingSteps
<1>2. /\ pc = "flush" /\ Count \in Nat \ {0}
      /\ Last \in Payload /\ LastSize \in 1 .. 3
      /\ Position \in 0 .. LastSize + 1
      /\ Position = 0 <=> Head(outq) = START
      /\ Position = LastSize + 1 <=> Head(outq) = FINISH
      /\ Position \in 1 .. LastSize => Head(outq) = Last[Position]
      /\ Count' = Count /\ Last' = Last /\ LastSize' = LastSize
      /\ Position' = Position + 1
      /\ outq' = <<>> => Position = LastSize + 1
  BY <1>1, NextByte
<1>3. outq' = <<>> => rx' = "idle"
  <2>1. Head(outq) = FINISH => rx' = "idle"
    <3>1. START # FINISH
      BY DEF START, FINISH
    <3> QED
      BY <3>1, ReadingSteps
  <2> QED
    BY <1>2, <2>1
<1>4. Clean(Count)' <=> Clean(Count)
  BY <1>1, <1>2 DEF Clean
<1>5. ASSUME Along
      PROVE  Along'
  <2>1. CASE Position = 0
    <3>1. rx = "idle" /\ Head(outq) = START
      BY <1>2, <1>5, <2>1 DEF Along
    <3>2. rx' = "frame" /\ msg' = <<>>
      BY <3>1, ReadingSteps
    <3>3. Got' = 0
      BY <3>2, EmptySeq DEF Got
    <3> QED
      BY <1>2, <2>1, <3>2, <3>3 DEF Along
  <2>2. CASE Position \in 1 .. LastSize
    <3>1. /\ rx = "frame" /\ Got = Position - 1 /\ \A i \in 1 .. Got : msg[i] = Last[i]
          /\ Head(outq) # FINISH /\ Head(outq) = Last[Position]
      BY <1>2, <1>5, <2>2 DEF Along
    <3>2. Got # 5
      BY <1>2, <2>2, <3>1
    <3>3. /\ rx' = "frame" /\ Got' = Got + 1 /\ msg'[Got + 1] = Head(outq)
          /\ \A i \in 1 .. Got : msg'[i] = msg[i]
      BY <3>1, <3>2, ReadingSteps
    <3>4. Got' = Position' - 1 /\ \A i \in 1 .. Got' : msg'[i] = Last'[i]
      <4>1. Got + 1 = Position /\ Got \in Nat
        BY <1>2, <2>2, <3>1
      <4>2. Got' = Position' - 1
        BY <1>2, <2>2, <3>3, <4>1
      <4>3. ASSUME NEW i \in 1 .. Got'
            PROVE  msg'[i] = Last[i]
        <5>1. i \in 1 .. Got \/ i = Got + 1
          BY <3>3, <4>1, <4>3
        <5> QED
          BY <3>1, <3>3, <4>1, <5>1
      <4> QED
        BY <1>2, <4>2, <4>3
    <3> QED
      BY <1>2, <2>2, <3>3, <3>4 DEF Along
  <2>3. CASE Position = LastSize + 1
    <3>1. /\ rx = "frame" /\ Got = LastSize /\ \A i \in 1 .. Got : msg[i] = Last[i]
          /\ Head(outq) = FINISH
      BY <1>2, <1>5, <2>3 DEF Along
    <3>2. Done' = Done + 1 /\ delivered'[Done + 1] = [payload |-> msg, packet |-> Count]
      BY <3>1, ReadingSteps
    <3>3. msg = Last
      <4>1. msg \in Seq(Byte) /\ Last \in Seq(Byte)
        BY <1>2, PacketShape DEF TypeOK
      <4>2. Len(msg) = Len(Last) /\ \A i \in 1 .. Len(msg) : msg[i] = Last[i]
        BY <3>1 DEF Got, LastSize
      <4> QED
        BY <4>1, <4>2, SeqEqual
    <3>4. delivered'[Done + 1] = [payload |-> sent'[Count'], packet |-> Count']
      BY <1>1, <1>2, <3>2, <3>3 DEF Last
    <3>5. Delivered(Count)'
      BY <3>2, <3>4, Lengths DEF Delivered
    <3> QED
      BY <1>2, <2>3, <3>5 DEF Along
  <2>4. Position = 0 \/ Position \in 1 .. LastSize \/ Position = LastSize + 1
    BY <1>2
  <2> QED
    BY <2>1, <2>2, <2>3, <2>4
<1>6. ASSUME NEW i \in 1 .. Count', i # Count' \/ pc' = "write", i \notin cut', Clean(i)'
      PROVE  Delivered(i)'
  <2>1. Delivered(i)
    BY <1>1, <1>2, <1>6 DEF InStep, Clean
  <2> QED
    BY <2>1, DeliveredKept
<1> QED
  BY <1>1, <1>2, <1>3, <1>4, <1>5, <1>6 DEF InStep

(***************************************************************************)
(* A whole packet that follows a whole one is delivered as it was sent,    *)
(* whatever became of the packets before.                                  *)
(***************************************************************************)
THEOREM WholePacketsAreDelivered == Spec => []WholeAfterWhole
<1>1. Init => TypeOK /\ LineInv /\ InStep
  BY FrameInit DEF Init, InStep
<1>2. TypeOK /\ LineInv /\ InStep /\ [Next]_vars => (TypeOK /\ LineInv /\ InStep)'
  <2> SUFFICES ASSUME TypeOK, LineInv, InStep, [Next]_vars
               PROVE  TypeOK' /\ LineInv' /\ InStep'
    OBVIOUS
  <2>1. TypeOK' /\ LineInv'
    BY FrameStep
  <2>2. CASE UNCHANGED vars
    BY <2>1, <2>2 DEF vars, InStep, Along, Clean, Delivered, Done, Got, Count, Left, Position,
                      LastSize, Last
  <2> QED
    BY <2>1, <2>2, InStepWriting, InStepFlushing, InStepReading DEF Next, Reading
<1>3. TypeOK /\ LineInv /\ InStep => WholeAfterWhole
  <2> SUFFICES ASSUME TypeOK, LineInv, InStep,
                      NEW i \in 1 .. Len(sent), Whole(i), i = 1 \/ Whole(i - 1)
               PROVE  \E d \in 1 .. Len(delivered) :
                        delivered[d] = [payload |-> sent[i], packet |-> i]
    BY DEF WholeAfterWhole
  <2>1. i \in 1 .. Count /\ i \notin cut /\ Clean(i)
    BY DEF Whole, Count, Clean
  <2>2. Delivered(i)
    <3>1. CASE i # Count \/ pc = "write"
      BY <2>1, <3>1 DEF InStep
    <3>2. CASE i = Count /\ pc = "flush"
      <4>1. outq = <<>>
        BY <3>2 DEF Whole, Count
      <4>2. Position = LastSize + 2
        BY <3>2, <4>1, LastPacket, Lengths
      <4> QED
        BY <2>1, <3>2, <4>2, LastPacket DEF InStep, Along
    <3> QED
      BY <3>1, <3>2 DEF TypeOK
  <2> QED
    BY <2>2 DEF Delivered, Done
<1> QED
  BY <1>1, <1>2, <1>3, PTL DEF Spec

-----------------------------------------------------------------------------
(***************************************************************************)
(* What a frame begins with: the type of a packet is followed by its value *)
(* or by the start byte of a packet that came after it was cut.  Only the  *)
(* type of a packet of one byte can be all of a frame.                     *)
(***************************************************************************)
\* m carries a value that was sent with its type.
Meant(m) ==
  \/ Value(m) = START
  \/ Op(m) = START
  \/ \E i \in 1 .. Count : Op(sent[i]) = Op(m) /\ Value(sent[i]) = Value(m)

Beginning ==
  /\ rx = "frame" /\ Got = 0 /\ outq # <<>> => Position \in {0, 1}
  /\ rx = "frame" /\ Got = 1 /\ outq # <<>> =>
       msg[1] = START \/ Position = 0 \/ (Position = 2 /\ msg[1] = Last[1])

Meaning ==
  /\ Beginning
  /\ Got >= 2 => Meant(msg)
  /\ \A d \in 1 .. Done : delivered[d].payload # <<>> => Meant(delivered[d].payload)

\* More packets do not change what was meant.
LEMMA MeantKept ==
  ASSUME TypeOK, Count' \in Nat, Count <= Count', \A i \in 1 .. Count : sent'[i] = sent[i]
  PROVE  \A m : Meant(m) => Meant(m)'
<1> SUFFICES ASSUME NEW m, Meant(m)
             PROVE  Meant(m)'
  OBVIOUS
<1>1. CASE Op(m) = START \/ Value(m) = START
  BY <1>1 DEF Meant
<1>2. ASSUME NEW i \in 1 .. Count, Op(sent[i]) = Op(m), Value(sent[i]) = Value(m)
      PROVE  Meant(m)'
  <2>1. i \in 1 .. Count' /\ sent'[i] = sent[i]
    BY Lengths
  <2> QED
    BY <1>2, <2>1 DEF Meant
<1> QED
  BY <1>1, <1>2 DEF Meant

LEMMA MeaningWriting ==
  ASSUME TypeOK, LineInv, Meaning, NEW p \in Payload, Write(p)
  PROVE  Meaning'
<1>1. /\ Count' = Count + 1 /\ Position' = 0
      /\ \A i \in 1 .. Count : sent'[i] = sent[i]
      /\ UNCHANGED <<msg, delivered>>
  BY WriteSteps
<1>2. \A m : Meant(m) => Meant(m)'
  <2>1. Count' \in Nat /\ Count <= Count'
    BY <1>1, Lengths
  <2> QED
    BY <1>1, <2>1, MeantKept
<1>3. Beginning'
  BY <1>1 DEF Beginning
<1>4. Got' >= 2 => Meant(msg)'
  <2>1. Got >= 2 => Meant(msg)
    BY DEF Meaning
  <2>2. \A m : m = msg => (Meant(m) => Meant(m)')
    BY <1>2
  <2>3. Got' = Got
    BY <1>1 DEF Got
  <2> QED
    BY <1>1, <2>1, <2>2, <2>3 DEF Meant
<1> QED
  BY <1>1, <1>2, <1>3, <1>4 DEF Meaning, Done, Meant

LEMMA MeaningReading ==
  ASSUME TypeOK, LineInv, Meaning, Reading
  PROVE  Meaning'
<1>1. Transfer /\ UNCHANGED <<sent, pc, cut>> /\ outq # <<>>
  BY ReadingSteps DEF Transfer
<1>2. /\ Count \in Nat \ {0} /\ LastSize \in 1 .. 3
      /\ Position \in 0 .. LastSize + 1
      /\ Position = 0 <=> Head(outq) = START
      /\ Position = LastSize + 1 <=> Head(outq) = FINISH
      /\ Position \in 1 .. LastSize => Head(outq) = Last[Position]
      /\ Count' = Count /\ Last' = Last
      /\ Position' = Position + 1
  BY <1>1, NextByte
<1>3. Got \in 0 .. 5 /\ Done \in Nat
  BY Lengths
<1>4. \A m : Meant(m)' <=> Meant(m)
  BY <1>1 DEF Meant, Count
<1>5. ASSUME msg' = <<>>
      PROVE  Got' = 0
  BY <1>5, EmptySeq DEF Got
<1>6. ASSUME delivered' = delivered
      PROVE  \A d \in 1 .. Done' :
               delivered'[d].payload # <<>> => Meant(delivered[d].payload)'
  <2>1. \A d \in 1 .. Done :
          delivered[d].payload # <<>> => Meant(delivered[d].payload)
    BY DEF Meaning
  <2> QED
    BY <1>1, <1>6, <2>1 DEF Meant, Done, Count
<1>7. CASE /\ msg' = <<>> /\ delivered' = delivered
           /\ rx' = "frame" => Head(outq) = START
  <2>1. Got' = 0
    BY <1>5, <1>7
  <2>2. Beginning'
    BY <1>2, <1>7, <2>1 DEF Beginning
  <2>3. ~(Got' >= 2)
    BY <2>1
  <2> QED
    BY <1>6, <1>7, <2>2, <2>3 DEF Meaning
<1>8. CASE /\ rx = "frame" /\ rx' = "idle" /\ Head(outq) = FINISH
           /\ msg' = <<>> /\ Done' = Done + 1
           /\ \A d \in 1 .. Done : delivered'[d] = delivered[d]
           /\ delivered'[Done + 1] = [payload |-> msg, packet |-> Count]
  <2>1. Got' = 0
    BY <1>5, <1>8
  <2>2. Beginning'
    BY <1>8 DEF Beginning
  <2>3. ASSUME NEW d \in 1 .. Done', NEW m, m = delivered'[d].payload, m # <<>>
        PROVE  Meant(m)
    <3>1. d \in 1 .. Done \/ d = Done + 1
      BY <1>3, <1>8
    <3>2. CASE d \in 1 .. Done
      BY <1>8, <2>3, <3>2 DEF Meaning
    <3>3. CASE d = Done + 1
      <4>1. m = msg
        BY <1>8, <2>3, <3>3
      <4>2. Got >= 2 => Meant(msg)
        BY DEF Meaning
      <4>3. Got # 0
        BY <2>3, <4>1, EmptySeq, Lengths DEF Got, TypeOK
      <4>4. CASE Got = 1
        <5>1. msg[1] = START \/ (Position = 2 /\ msg[1] = Last[1])
          BY <1>1, <1>2, <1>8, <4>4 DEF Meaning, Beginning
        <5>2. CASE msg[1] = START
          BY <4>1, <5>2 DEF Meant, Op
        <5>3. CASE Position = 2 /\ msg[1] = Last[1]
          <6>1. LastSize = 1 /\ Count \in 1 .. Count
            BY <1>2, <1>8, <5>3
          <6>2. Op(m) = Op(sent[Count])
            BY <4>1, <5>3 DEF Op, Last
          <6>3. Value(m) = FINISH /\ Value(sent[Count]) = FINISH
            BY <4>1, <4>4, <6>1 DEF Value, Got, Last, LastSize
          <6> QED
            BY <6>1, <6>2, <6>3 DEF Meant
        <5> QED
          BY <5>1, <5>2, <5>3
      <4> QED
        BY <1>3, <4>1, <4>2, <4>3, <4>4
    <3> QED
      BY <3>1, <3>2, <3>3
  <2>4. \A d \in 1 .. Done' :
          delivered'[d].payload # <<>> => Meant(delivered[d].payload)'
    BY <1>4, <2>3 DEF Meant
  <2> QED
    BY <2>1, <2>2, <2>4 DEF Meaning
<1>9. CASE /\ rx = "frame" /\ Head(outq) # FINISH /\ delivered' = delivered
           /\ Got' = Got + 1 /\ msg'[Got + 1] = Head(outq)
           /\ \A i \in 1 .. Got : msg'[i] = msg[i]
  <2>1. CASE Got = 0
    <3>1. Position \in {0, 1}
      BY <1>1, <1>9, <2>1 DEF Meaning, Beginning
    <3>2. msg'[1] = START \/ (Position' = 2 /\ msg'[1] = Last[1])
      BY <1>2, <1>9, <2>1, <3>1
    <3>3. Got' = 1
      BY <1>9, <2>1
    <3>4. Beginning'
      BY <1>2, <3>2, <3>3 DEF Beginning
    <3>5. ~(Got' >= 2)
      BY <3>3
    <3> QED
      BY <1>6, <1>9, <3>4, <3>5 DEF Meaning
  <2>2. CASE Got >= 1
    <3>1. Got' >= 2 /\ Got' \in Nat
      BY <1>3, <1>9, <2>2
    <3>2. Beginning'
      BY <3>1 DEF Beginning
    <3>3. ASSUME NEW m, m = msg'
          PROVE  Meant(m)
      <4>1. CASE Got = 1
        <5>1. Op(m) = msg[1] /\ Value(m) = Head(outq)
          BY <1>9, <3>1, <3>3, <4>1 DEF Op, Value, Got
        <5>2. msg[1] = START \/ Position = 0 \/ (Position = 2 /\ msg[1] = Last[1])
          BY <1>1, <1>9, <4>1 DEF Meaning, Beginning
        <5>3. CASE msg[1] = START \/ Position = 0
          BY <1>2, <5>1, <5>3 DEF Meant
        <5>4. CASE Position = 2 /\ msg[1] = Last[1]
          <6>1. 2 \in 1 .. LastSize
            BY <1>2, <1>9, <5>4
          <6>2. Op(m) = Op(Last) /\ Value(m) = Value(Last)
            BY <1>2, <5>1, <5>4, <6>1 DEF Op, Value, LastSize
          <6>3. Count \in 1 .. Count
            BY <1>2
          <6> QED
            BY <6>2, <6>3 DEF Meant, Last
        <5> QED
          BY <5>2, <5>3, <5>4
      <4>2. CASE Got >= 2
        <5>1. Op(m) = Op(msg) /\ Value(m) = Value(msg)
          BY <1>3, <1>9, <3>1, <3>3, <4>2 DEF Op, Value, Got
        <5>2. Meant(msg)
          BY <4>2 DEF Meaning
        <5> QED
          BY <5>1, <5>2 DEF Meant
      <4> QED
        BY <1>3, <2>2, <4>1, <4>2
    <3>4. Meant(msg)'
      BY <1>4, <3>3 DEF Meant
    <3> QED
      BY <1>6, <1>9, <3>2, <3>4 DEF Meaning
  <2> QED
    BY <1>3, <2>1, <2>2
<1>10. CASE rx' = "idle" /\ msg' = <<>> /\ delivered' = delivered
  BY <1>7, <1>10
<1> QED
  BY <1>7, <1>8, <1>9, <1>10, ReadingSteps

(***************************************************************************)
(* Whatever packets are cut and merged, no value reaches an actuator that  *)
(* was sent to another: it was sent with this type, or is a start byte.    *)
(***************************************************************************)
THEOREM ValuesKeepTheirType == Spec => []NoForeignValue
<1>1. Init => TypeOK /\ LineInv /\ Meaning
  <2> SUFFICES ASSUME Init
               PROVE  TypeOK /\ LineInv /\ Meaning
    OBVIOUS
  <2>1. TypeOK /\ LineInv /\ Done = 0 /\ Got = 0 /\ rx = "idle"
    BY FrameInit DEF Init
  <2> QED
    BY <2>1 DEF Meaning, Beginning
<1>2. TypeOK /\ LineInv /\ Meaning /\ [Next]_vars => (TypeOK /\ LineInv /\ Meaning)'
  <2> SUFFICES ASSUME TypeOK, LineInv, Meaning, [Next]_vars
               PROVE  TypeOK' /\ LineInv' /\ Meaning'
    OBVIOUS
  <2>1. TypeOK' /\ LineInv'
    BY FrameStep
  <2>2. CASE Flush
    <3>1. UNCHANGED <<sent, rx, msg, delivered>> /\ outq' = <<>>
      BY <2>2 DEF Flush
    <3>2. Beginning'
      BY <3>1 DEF Beginning
    <3> QED
      BY <2>1, <3>1, <3>2 DEF Meaning, Meant, Done, Got, Count
  <2>3. CASE UNCHANGED vars
    BY <2>1, <2>3 DEF vars, Meaning, Beginning, Meant, Done, Got, Count, Left, Position, LastSize,
                      Last
  <2> QED
    BY <2>1, <2>2, <2>3, MeaningWriting, MeaningReading DEF Next, Reading
<1>3. TypeOK /\ LineInv /\ Meaning => NoForeignValue
  <2> SUFFICES ASSUME TypeOK, Meaning, NEW d \in 1 .. Done, NEW m,
                      m = delivered[d].payload, m # <<>>
               PROVE  \/ Value(m) = START
                      \/ Op(m) = START
                      \/ \E i \in 1 .. Len(sent) :
                           Op(sent[i]) = Op(m) /\ Value(sent[i]) = Value(m)
    BY DEF NoForeignValue, Done
  <2>1. Meant(m)
    BY DEF Meaning
  <2> QED
    BY <2>1 DEF Meant, Count
<1> QED
  BY <1>1, <1>2, <1>3, PTL DEF Spec
=============================================================================
