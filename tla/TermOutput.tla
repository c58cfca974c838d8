------------------------------ MODULE TermOutput ------------------------------
(***************************************************************************)
(* The bytes a terminal object writes: write_str with or without an output *)
(* buffer, and the flush of the buffer (terminal/libtickit/term.c 346-386  *)
(* and 686-723).                                                           *)
(*                                                                         *)
(* A byte is the pair of the number of the write it belongs to and its     *)
(* place in it.                                                            *)
(***************************************************************************)
EXTENDS Integers, Sequences

CONSTANTS
  Sizes,         \* the buffers set, by length; 0 is none
  Lengths,       \* the lengths of the strings written
  MaxWrites      \* the application writes so often

ASSUME OutputAssumption ==
  Sizes \subseteq Nat /\ Lengths \subseteq Nat \ {0} /\ MaxWrites \in Nat

Bytes == Nat \X Nat

VARIABLES
  sink,          \* there is an output function or file descriptor
  size,          \* tt->outbuffer_len; 0: tt->outbuffer is NULL
  buf,           \* the first outbuffer_cur bytes of tt->outbuffer
  str, left,     \* the string write_str is at, and its len not yet copied
  sent,          \* external: what the function or descriptor was given
  written,       \* ghost: what was to be written
  lost,          \* ghost: bytes dropped for want of a sink, or with a buffer
  writes, split  \* ghost: writes so far; one did not fit into the buffer

vars == <<sink, size, buf, str, left, sent, written, lost, writes, split>>

MinOf(m, n) == IF m < n THEN m ELSE n

Idle == left = 0

Init ==
  /\ sink = FALSE /\ size = 0 /\ buf = <<>>
  /\ str = <<>> /\ left = 0
  /\ sent = <<>> /\ written = <<>> /\ lost = 0 /\ writes = 0 /\ split = FALSE

-----------------------------------------------------------------------------
(* Bytes leave the program, or are dropped when there is nowhere to go.    *)
Deliver(bytes) ==
  /\ sent' = IF sink THEN sent \o bytes ELSE sent
  /\ lost' = IF sink THEN lost ELSE lost + Len(bytes)

(* tickit_term_set_output_fd or _func.                                     *)
SetOutput ==
  /\ Idle /\ ~sink
  /\ sink' = TRUE
  /\ UNCHANGED <<size, buf, str, left, sent, written, lost, writes, split>>

(* tickit_term_set_output_buffer: what the old buffer still had is gone.   *)
SetBuffer(n) ==
  /\ Idle
  /\ size' = n
  /\ buf' = <<>>
  /\ lost' = lost + Len(buf)
  /\ UNCHANGED <<sink, str, left, sent, written, writes, split>>

(* write_str is called.                                                    *)
Write(len) ==
  LET bytes == [i \in 1..len |-> <<writes, i>>]
  IN  /\ Idle /\ writes < MaxWrites
      /\ writes' = writes + 1
      /\ written' = written \o bytes
      /\ IF size = 0
         THEN Deliver(bytes) /\ UNCHANGED <<str, left, split>>
         ELSE /\ str' = bytes /\ left' = len
              /\ split' = (split \/ Len(buf) + len > size)
              /\ UNCHANGED <<sent, lost>>
      /\ UNCHANGED <<sink, size, buf>>

(* A bug for the mutant runs: a full buffer is flushed by the next write.  *)
CopyFlushingLate ==
  LET space == MinOf(size - Len(buf), left)
      full  == buf \o SubSeq(str, 1, space)
  IN  /\ ~Idle
      /\ left' = left - space
      /\ IF Len(full) > size
         THEN Deliver(full) /\ buf' = <<>>
         ELSE buf' = full /\ UNCHANGED <<sent, lost>>
      /\ UNCHANGED <<sink, size, str, written, writes, split>>

(* A bug for the mutant runs: a flush does not empty the buffer.           *)
CopyKeeping ==
  LET space == MinOf(size - Len(buf), left)
      full  == buf \o SubSeq(str, 1, space)
  IN  /\ ~Idle
      /\ left' = left - space
      /\ buf' = IF Len(full) >= size THEN SubSeq(full, 1, size - 1) ELSE full
      /\ IF Len(full) >= size THEN Deliver(full) ELSE UNCHANGED <<sent, lost>>
      /\ UNCHANGED <<sink, size, str, written, writes, split>>

(* One turn of the loop of write_str.  str stays where it is: each turn    *)
(* copies from its beginning.                                              *)
Copy ==
  LET space == MinOf(size - Len(buf), left)
      full  == buf \o SubSeq(str, 1, space)
  IN  /\ ~Idle
      /\ left' = left - space
      /\ IF Len(full) >= size
         THEN Deliver(full) /\ buf' = <<>>
         ELSE buf' = full /\ UNCHANGED <<sent, lost>>
      /\ UNCHANGED <<sink, size, str, written, writes, split>>

(* tickit_term_flush *)
Flush ==
  /\ Idle
  /\ Deliver(buf)
  /\ buf' = <<>>
  /\ UNCHANGED <<sink, size, str, left, written, writes, split>>

Next ==
  \/ SetOutput \/ Copy \/ Flush
  \/ \E n \in Sizes : SetBuffer(n)
  \/ \E len \in Lengths : Write(len)

Spec == Init /\ [][Next]_vars

(* A call of write_str runs to its end.                                    *)
FairSpec == Spec /\ WF_vars(Copy)

-----------------------------------------------------------------------------
(* All variables have their types.                                         *)
TypeOK ==
  /\ sink \in BOOLEAN /\ split \in BOOLEAN
  /\ size \in Nat /\ left \in Nat /\ lost \in Nat /\ writes \in Nat
  /\ buf \in Seq(Bytes) /\ str \in Seq(Bytes)
  /\ sent \in Seq(Bytes) /\ written \in Seq(Bytes)

(* A buffer never stays full: every turn of the loop has room to copy to,  *)
(* and none is copied past the buffer's end.                               *)
RoomLeft == IF size = 0 THEN buf = <<>> /\ Idle ELSE Len(buf) < size

(* As many bytes leave as are to be written, less those that wait or were  *)
(* dropped.                                                                *)
CountKept == Len(sent) + Len(buf) + left + lost = Len(written)

(* The bytes leave in order, as long as every string fits into the rest of *)
(* the buffer: one that does not has its beginning written again in the    *)
(* place of its end.                                                       *)
OrderKept == Idle /\ lost = 0 /\ ~split => sent \o buf = written

(* write_str ends.                                                         *)
WriteEnds == ~Idle ~> Idle
=============================================================================
