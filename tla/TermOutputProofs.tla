--------------------------- MODULE TermOutputProofs ---------------------------
(***************************************************************************)
(* The output buffer is never overrun, and it keeps the order of the bytes *)
(* as far as OrderKept says, for any buffers and any strings.              *)
(***************************************************************************)
EXTENDS TermOutput, SequenceTheorems, TLAPS

(* While a string that fits is being written, all of it is still to come. *)
PendingFits ==
  ~Idle /\ lost = 0 /\ ~split =>
    /\ left = Len(str)
    /\ Len(buf) + left <= size
    /\ (sent \o buf) \o str = written

(* What is left of a string is part of it. *)
LeftInside == left <= Len(str)

IInv == TypeOK /\ RoomLeft /\ CountKept /\ OrderKept /\ PendingFits /\ LeftInside

LEMMA InitInv == Init => IInv
<1> SUFFICES ASSUME Init PROVE IInv
  OBVIOUS
<1>1. <<>> \in Seq(Bytes) /\ Len(<<>>) = 0 /\ <<>> \o <<>> = <<>>
  BY EmptySeq, ConcatEmptySeq
<1>2. TypeOK
  BY <1>1 DEF Init, TypeOK
<1>3. RoomLeft /\ LeftInside /\ PendingFits
  BY <1>1 DEF Init, RoomLeft, LeftInside, PendingFits, Idle
<1>4. CountKept
  BY <1>1 DEF Init, CountKept
<1>5. OrderKept
  BY <1>1 DEF Init, OrderKept
<1> QED BY <1>2, <1>3, <1>4, <1>5 DEF IInv

(* The bytes of a write are a string of its length. *)
LEMMA NewBytes ==
  ASSUME TypeOK, NEW len \in Lengths
  PROVE  LET bytes == [i \in 1..len |-> <<writes, i>>]
         IN  bytes \in Seq(Bytes) /\ Len(bytes) = len /\ len \in Nat \ {0}
<1> DEFINE bytes == [i \in 1..len |-> <<writes, i>>]
<1>1. len \in Nat \ {0} /\ writes \in Nat
  BY OutputAssumption DEF TypeOK
<1>2. \A i \in 1..len : bytes[i] \in Bytes
  BY <1>1 DEF Bytes
<1>3. bytes \in Seq(Bytes)
  BY <1>1, <1>2, IsASeq
<1> QED BY <1>1, <1>3

(* Sending keeps the types and the count. *)
LEMMA Delivered ==
  ASSUME TypeOK, NEW bytes \in Seq(Bytes), Deliver(bytes)
  PROVE  /\ sent' \in Seq(Bytes) /\ lost' \in Nat
         /\ Len(sent') + lost' = Len(sent) + lost + Len(bytes)
         /\ lost' = 0 => lost = 0 /\ sent' = sent \o bytes
<1>1. CASE sink
  BY <1>1 DEF TypeOK, Deliver
<1>2. CASE ~sink
  <2>1. sent' = sent /\ lost' = lost + Len(bytes)
    BY <1>2 DEF Deliver
  <2>2. lost' = 0 => bytes = <<>>
    BY <2>1, EmptySeq DEF TypeOK
  <2> QED BY <2>1, <2>2 DEF TypeOK
<1> QED BY <1>1, <1>2

LEMMA WriteStep ==
  ASSUME IInv, NEW len \in Lengths, Write(len)
  PROVE  IInv'
<1> DEFINE bytes == [i \in 1..len |-> <<writes, i>>]
<1>1. bytes \in Seq(Bytes) /\ Len(bytes) = len /\ len \in Nat \ {0}
  BY NewBytes DEF IInv
<1>2. /\ Idle /\ writes' = writes + 1 /\ written' = written \o bytes
      /\ sink' = sink /\ size' = size /\ buf' = buf
  BY DEF Write
<1>a. Write(len) => IF size = 0 THEN Deliver(bytes) /\ UNCHANGED <<str, left, split>>
                    ELSE /\ str' = bytes /\ left' = len
                         /\ split' = (split \/ Len(buf) + len > size)
                         /\ UNCHANGED <<sent, lost>>
  BY DEF Write
<1> HIDE DEF bytes
<1>3. /\ written' \in Seq(Bytes)
      /\ Len(written') = Len(written) + len
  BY <1>1, <1>2, ConcatProperties DEF IInv, TypeOK
<1>4. CASE size = 0
  <2>1. Deliver(bytes) /\ str' = str /\ left' = left /\ split' = split
    BY <1>4, <1>a
  <2>2. buf = <<>> /\ left = 0
    BY <1>4 DEF IInv, RoomLeft, Idle
  <2>3. TypeOK'
    BY <1>1, <1>2, <1>3, <2>1, Delivered DEF IInv, TypeOK
  <2>4. CountKept'
    <3>1. Len(sent') + lost' = Len(sent) + lost + len
      BY <1>1, <2>1, Delivered DEF IInv
    <3>2. sent' \in Seq(Bytes) /\ lost' \in Nat
      BY <1>1, <2>1, Delivered DEF IInv
    <3> QED BY <1>1, <1>2, <1>3, <2>1, <2>2, <3>1, <3>2 DEF IInv, TypeOK, CountKept
  <2>5. OrderKept'
    <3> SUFFICES ASSUME lost' = 0, ~split' PROVE sent' \o buf' = written'
      BY DEF OrderKept
    <3>1. lost = 0 /\ sent' = sent \o bytes
      BY <1>1, <2>1, Delivered DEF IInv
    <3>2. sent \o <<>> = written
      BY <1>2, <2>1, <2>2, <3>1 DEF IInv, OrderKept
    <3> QED BY <1>1, <1>2, <2>2, <3>1, <3>2 DEF IInv, TypeOK
  <2> QED BY <1>2, <1>4, <2>1, <2>2, <2>3, <2>4, <2>5
          DEF IInv, RoomLeft, PendingFits, LeftInside, Idle
<1>5. CASE size # 0
  <2>1. /\ str' = bytes /\ left' = len /\ sent' = sent /\ lost' = lost
        /\ split' = (split \/ Len(buf) + len > size)
    BY <1>5, <1>a
  <2>2. TypeOK'
    BY <1>1, <1>2, <1>3, <2>1 DEF IInv, TypeOK
  <2>3. CountKept'
    <3>1. /\ Len(sent) \in Nat /\ Len(written) \in Nat /\ Len(buf) \in Nat
          /\ lost \in Nat /\ left = 0
      BY <1>2 DEF IInv, TypeOK, Idle
    <3>2. Len(sent) + Len(buf) + left + lost = Len(written)
      BY DEF IInv, CountKept
    <3>3. len \in Nat
      BY <1>1
    <3>4. /\ Len(sent') = Len(sent) /\ Len(buf') = Len(buf) /\ left' = len
          /\ lost' = lost /\ Len(written') = Len(written) + len
      BY <1>2, <1>3, <2>1
    <3> QED BY <3>1, <3>2, <3>3, <3>4 DEF CountKept
  <2>4. PendingFits'
    <3> SUFFICES ASSUME lost = 0, ~split'
                 PROVE  /\ left' = Len(str') /\ Len(buf') + left' <= size'
                        /\ (sent' \o buf') \o str' = written'
      BY <2>1 DEF PendingFits
    <3>1. sent \o buf = written
      BY <1>2, <2>1 DEF IInv, OrderKept
    <3>2. ~(Len(buf) + len > size)
      BY <2>1
    <3>3. Len(buf) + len <= size
      BY <1>1, <3>2 DEF IInv, TypeOK
    <3> QED BY <1>1, <1>2, <2>1, <3>1, <3>3
  <2> QED BY <1>1, <1>2, <1>5, <2>1, <2>2, <2>3, <2>4
          DEF IInv, RoomLeft, OrderKept, LeftInside, Idle
<1> QED BY <1>4, <1>5

(* One turn of the loop: the piece, and the buffer with it. *)
LEMMA CopyStep ==
  ASSUME IInv, Copy
  PROVE  IInv'
<1> DEFINE space == MinOf(size - Len(buf), left)
           piece == SubSeq(str, 1, space)
           full  == buf \o piece
<1>1. /\ ~Idle /\ left' = left - space
      /\ sink' = sink /\ size' = size /\ str' = str /\ written' = written
      /\ writes' = writes /\ split' = split
  BY DEF Copy
<1>a. IF Len(full) >= size THEN Deliver(full) /\ buf' = <<>>
      ELSE buf' = full /\ UNCHANGED <<sent, lost>>
  BY DEF Copy
<1>2. /\ size # 0 /\ Len(buf) < size /\ left \in Nat \ {0}
      /\ size \in Nat /\ Len(buf) \in Nat /\ left <= Len(str)
  BY <1>1 DEF IInv, TypeOK, RoomLeft, LeftInside, Idle
<1>3. space \in Nat \ {0} /\ space <= left /\ Len(buf) + space <= size
  BY <1>2 DEF MinOf
<1>4. piece \in Seq(Bytes) /\ Len(piece) = space
  BY <1>2, <1>3 DEF IInv, TypeOK
<1>5. full \in Seq(Bytes) /\ Len(full) = Len(buf) + space
  BY <1>4 DEF IInv, TypeOK
<1>6. /\ left' \in Nat /\ left' <= left
  BY <1>1, <1>2, <1>3
<1>b. left = Len(str) /\ Len(buf) + left <= size => space = left /\ piece = str
  <2> SUFFICES ASSUME left = Len(str), Len(buf) + left <= size
               PROVE  space = left /\ piece = str
    OBVIOUS
  <2>1. space = left
    BY <1>2 DEF MinOf
  <2>2. SubSeq(str, 1, Len(str)) = str
    BY SubSeqFull DEF IInv, TypeOK
  <2> QED BY <2>1, <2>2
<1>c. full = buf \o piece
  OBVIOUS
<1>d. (sent \o buf) \o str = sent \o (buf \o str)
  BY ConcatAssociative DEF IInv, TypeOK
<1> HIDE DEF space, piece, full
<1>7. CASE Len(full) >= size
  <2>1. Deliver(full) /\ buf' = <<>>
    BY <1>7, <1>a
  <2>2. TypeOK'
    <3>1. sent' \in Seq(Bytes) /\ lost' \in Nat
      BY <1>5, <2>1, Delivered DEF IInv
    <3> QED BY <1>1, <1>6, <2>1, <3>1, EmptySeq DEF IInv, TypeOK
  <2>3. CountKept'
    <3>1. Len(sent') + lost' = Len(sent) + lost + Len(full)
      BY <1>5, <2>1, Delivered DEF IInv
    <3>2. Len(buf') = 0 /\ Len(sent') \in Nat /\ lost' \in Nat /\ Len(written) \in Nat
      BY <2>1, <2>2, EmptySeq DEF IInv, TypeOK
    <3>3. /\ Len(sent) + Len(buf) + left + lost = Len(written)
          /\ Len(sent) \in Nat /\ lost \in Nat /\ left' = left - space
          /\ Len(written') = Len(written)
      BY <1>1 DEF IInv, TypeOK, CountKept
    <3>4. /\ Len(full) = Len(buf) + space /\ Len(buf) \in Nat
          /\ space \in Nat /\ left \in Nat
      BY <1>2, <1>3, <1>5
    <3>5. Len(sent') + 0 + (left - space) + lost' = Len(written)
      BY <3>1, <3>2, <3>3, <3>4
    <3> QED BY <3>2, <3>3, <3>5 DEF CountKept
  <2>4. ASSUME lost' = 0, ~split' PROVE Idle' /\ sent' \o buf' = written'
    <3>1. lost = 0 /\ sent' = sent \o full
      BY <1>5, <2>1, <2>4, Delivered DEF IInv
    <3>2. left = Len(str) /\ Len(buf) + left <= size /\ (sent \o buf) \o str = written
      BY <1>1, <2>4, <3>1 DEF IInv, PendingFits
    <3>3. space = left /\ piece = str
      BY <1>b, <3>2
    <3>4. sent' = written
      BY <1>c, <1>d, <3>1, <3>2, <3>3
    <3>5. sent' \o <<>> = sent'
      BY <2>2, ConcatEmptySeq DEF TypeOK
    <3> QED BY <1>1, <1>2, <2>1, <3>3, <3>4, <3>5 DEF Idle
  <2> QED BY <1>1, <1>2, <1>6, <2>1, <2>2, <2>3, <2>4
          DEF IInv, RoomLeft, OrderKept, PendingFits, LeftInside
<1>8. CASE Len(full) < size
  <2>1. buf' = full /\ sent' = sent /\ lost' = lost
    BY <1>2, <1>5, <1>8, <1>a
  <2>2. TypeOK'
    BY <1>1, <1>5, <1>6, <2>1 DEF IInv, TypeOK
  <2>3. CountKept'
    <3>1. Len(sent) \in Nat /\ Len(written) \in Nat /\ lost \in Nat
      BY DEF IInv, TypeOK
    <3> QED BY <1>1, <1>2, <1>3, <1>5, <2>1, <3>1 DEF IInv, CountKept
  <2>4. ASSUME lost' = 0, ~split' PROVE Idle' /\ sent' \o buf' = written'
    <3>1. left = Len(str) /\ Len(buf) + left <= size /\ (sent \o buf) \o str = written
      BY <1>1, <2>1, <2>4 DEF IInv, PendingFits
    <3>2. space = left /\ piece = str
      BY <1>b, <3>1
    <3>3. sent' \o buf' = written'
      BY <1>1, <1>c, <1>d, <2>1, <3>1, <3>2
    <3>4. left' = 0
      BY <1>1, <1>2, <3>2
    <3> QED BY <3>3, <3>4 DEF Idle
  <2> QED BY <1>1, <1>2, <1>5, <1>6, <1>8, <2>1, <2>2, <2>3, <2>4
          DEF IInv, RoomLeft, OrderKept, PendingFits, LeftInside
<1> QED BY <1>2, <1>5, <1>7, <1>8

LEMMA FlushStep ==
  ASSUME IInv, Flush
  PROVE  IInv'
<1>1. /\ Idle /\ Deliver(buf) /\ buf' = <<>> /\ buf \in Seq(Bytes)
      /\ sink' = sink /\ size' = size /\ str' = str /\ left' = left
      /\ written' = written /\ writes' = writes /\ split' = split
  BY DEF Flush, IInv, TypeOK
<1>2. TypeOK' /\ CountKept'
  BY <1>1, Delivered DEF IInv, TypeOK, CountKept
<1>3. OrderKept'
  <2> SUFFICES ASSUME lost' = 0, ~split' PROVE sent' \o buf' = written'
    BY DEF OrderKept
  <2>1. lost = 0 /\ sent' = sent \o buf
    BY <1>1, Delivered DEF IInv
  <2>2. sent' \o <<>> = sent'
    BY <1>2, ConcatEmptySeq DEF TypeOK
  <2> QED BY <1>1, <2>1, <2>2 DEF IInv, OrderKept
<1> QED BY <1>1, <1>2, <1>3
        DEF IInv, TypeOK, RoomLeft, PendingFits, LeftInside, Idle

LEMMA SetBufferStep ==
  ASSUME IInv, NEW n \in Sizes, SetBuffer(n)
  PROVE  IInv'
<1>1. /\ Idle /\ size' = n /\ n \in Nat /\ buf' = <<>> /\ lost' = lost + Len(buf)
      /\ sink' = sink /\ str' = str /\ left' = left /\ sent' = sent
      /\ written' = written /\ writes' = writes /\ split' = split
  BY OutputAssumption DEF SetBuffer
<1>2. TypeOK' /\ CountKept'
  BY <1>1 DEF IInv, TypeOK, CountKept
<1>3. OrderKept'
  <2> SUFFICES ASSUME lost' = 0, ~split' PROVE sent' \o buf' = written'
    BY DEF OrderKept
  <2>1. lost = 0 /\ buf = <<>>
    BY <1>1, EmptySeq DEF IInv, TypeOK
  <2> QED BY <1>1, <2>1 DEF IInv, OrderKept
<1> QED BY <1>1, <1>2, <1>3
        DEF IInv, TypeOK, RoomLeft, PendingFits, LeftInside, Idle

LEMMA StepInv == IInv /\ [Next]_vars => IInv'
<1> SUFFICES ASSUME IInv, [Next]_vars PROVE IInv'
  OBVIOUS
<1>1. CASE SetOutput
  BY <1>1 DEF SetOutput, IInv, TypeOK, RoomLeft, CountKept, OrderKept, PendingFits,
              LeftInside, Idle
<1>2. CASE UNCHANGED vars
  BY <1>2 DEF vars, IInv, TypeOK, RoomLeft, CountKept, OrderKept, PendingFits,
              LeftInside, Idle
<1> QED BY <1>1, <1>2, WriteStep, CopyStep, FlushStep, SetBufferStep DEF Next

LEMMA AlwaysInv == Spec => []IInv
  BY InitInv, StepInv, PTL DEF Spec

(* All variables keep their types, for any buffers and strings. *)
THEOREM TypeCorrect == Spec => []TypeOK
<1>1. IInv => TypeOK
  BY DEF IInv
<1> QED BY AlwaysInv, <1>1, PTL

(* Between calls, and in the loop of write_str, the buffer has room: the *)
(* copy is never past its end and never empty.                           *)
THEOREM NeverOverrun == Spec => []RoomLeft
<1>1. IInv => RoomLeft
  BY DEF IInv
<1> QED BY AlwaysInv, <1>1, PTL

(* The number of bytes is kept by every flush, split or not. *)
THEOREM CountCorrect == Spec => []CountKept
<1>1. IInv => CountKept
  BY DEF IInv
<1> QED BY AlwaysInv, <1>1, PTL

(* Strings that fit into the rest of the buffer leave in order. *)
THEOREM OrderCorrect == Spec => []OrderKept
<1>1. IInv => OrderKept
  BY DEF IInv
<1> QED BY AlwaysInv, <1>1, PTL
=============================================================================
