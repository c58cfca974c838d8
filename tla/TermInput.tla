------------------------------ MODULE TermInput ------------------------------
(***************************************************************************)
(* The input side of a terminal object: the byte buffer of libtermkey      *)
(* (terminal/libtermkey/termkey.c 567-1133), the calls of                  *)
(* terminal/libtickit/term.c that fill it and take keys from it (541-684), *)
(* the time at which a key that may go on is taken as it is, and the size  *)
(* of the window, which each of those calls looks at (268-344).            *)
(*                                                                         *)
(* A call is a frame on a stack: the handlers of its events may make       *)
(* further calls.  Signals, time and the user go on between any two steps. *)
(***************************************************************************)
EXTENDS TermKey

CONSTANTS
  BufSize,       \* tk->buffsize
  Streams,       \* what the terminal may send: bytes, and so many resizes
  Junk,          \* what arguments a CSI sequence leaves out may turn out as
  WaitTime,      \* tk->waittime, in ticks
  StartSize,     \* the size of the window when the terminal is set up
  Sizes,         \* the sizes it may get
  MaxNest        \* calls within calls

ASSUME InputAssumption ==
  /\ BufSize \in Nat \ {0} /\ BufSize % 2 = 0
  /\ Streams \subseteq [bytes : Seq(Byte), resizes : Nat]
  /\ StartSize \in Sizes
  /\ Junk \subseteq Int /\ Junk # {}
  /\ WaitTime \in Nat \ {0} /\ MaxNest \in Nat \ {0}

VARIABLES
  mem, start, count,     \* tk->buffer, buffstart, buffcount
  tide, closed,          \* tk->hightide, is_closed
  deadline,              \* ticks until tt->input_timeout_at; Never: it is -1
  changed, size,         \* tt->window_changed; lines and cols
  calls,                 \* calls in progress, the innermost last
  fromTerm,              \* external: bytes that can be read
  winsize, signal,       \* external: the window; SIGWINCH is to be delivered
  accepted, taken,       \* ghost: bytes put into the buffer; how many are out
  heard,                 \* ghost: the events that handlers have got
  forced,                \* ghost: a key was taken before it was complete
  quiet,                 \* ghost: ticks since the last byte, up to WaitTime
  waited, left,          \* ghost: input_wait took bytes, left bytes
  resizes                \* ghost: how often the window will be resized

buffer  == <<mem, start, count, tide, closed>>
outside == <<fromTerm, winsize, signal, resizes>>
ghosts  == <<accepted, taken, heard, forced, quiet, waited, left>>
vars    == <<buffer, deadline, changed, size, calls, outside, ghosts>>

Never == -1

Init ==
  /\ mem = [i \in 0..(BufSize - 1) |-> 0]
  /\ start = 0 /\ count = 0 /\ tide = 0 /\ closed = FALSE
  /\ deadline = Never
  /\ winsize = StartSize /\ size = winsize /\ changed = FALSE /\ signal = FALSE
  /\ calls = <<>>
  /\ \E s \in Streams : fromTerm = s.bytes /\ resizes = s.resizes
  /\ accepted = <<>> /\ taken = 0 /\ heard = <<>> /\ forced = FALSE
  /\ quiet = WaitTime /\ waited = FALSE /\ left = FALSE

-----------------------------------------------------------------------------
(* Calls.                                                                  *)
Top     == calls[Len(calls)]
At(pc)  == calls # <<>> /\ Top.pc = pc
Goto(pc) == calls' = [calls EXCEPT ![Len(calls)].pc = pc]
Return  == calls' = Front(calls)

(* The application calls, or a handler does.                               *)
Enter(call) ==
  /\ calls = <<>> \/ (At("handler") /\ Len(calls) < MaxNest)
  /\ calls' = Append(calls, [call |-> call, pc |-> "resize", fed |-> FALSE])
  /\ UNCHANGED <<buffer, deadline, changed, size, outside, ghosts>>

(* tickit_term_input_push_bytes, of bytes the application has read.        *)
PushBytes == fromTerm # <<>> /\ Enter("push")
(* tickit_term_input_readable, when there is something to read, or the end. *)
Readable == (fromTerm # <<>> \/ ~closed) /\ Enter("readable")
(* tickit_term_input_check_timeout_msec.                                   *)
CheckTimeout == Enter("check")
(* tickit_term_input_wait_msec.                                            *)
Wait == Enter("wait")

(* What a call does after it has looked at the size of the window.         *)
Onward == IF Top.call = "check" THEN "timer"
          ELSE IF Top.fed THEN "keys" ELSE "input"

(* A bug for the mutant runs: the flag is cleared once the size is known.  *)
CheckResizeLate ==
  /\ \/ /\ At("resize") /\ ~changed
        /\ Goto(Onward) /\ UNCHANGED <<changed, size>>
     \/ /\ At("resize") /\ changed
        /\ size' = winsize /\ Goto("size") /\ UNCHANGED changed
     \/ /\ At("size")
        /\ changed' = FALSE /\ Goto(Onward) /\ UNCHANGED size
  /\ UNCHANGED <<buffer, deadline, outside, ghosts>>

(* A bug for the mutant runs: input_wait does not look at the flag.        *)
CheckResizeButWait ==
  /\ \/ /\ At("resize") /\ (~changed \/ Top.call = "wait")
        /\ Goto(Onward) /\ UNCHANGED <<changed, size>>
     \/ /\ At("resize") /\ changed /\ Top.call # "wait"
        /\ changed' = FALSE /\ Goto("size") /\ UNCHANGED size
     \/ /\ At("size")
        /\ size' = winsize /\ Goto(Onward) /\ UNCHANGED changed
  /\ UNCHANGED <<buffer, deadline, outside, ghosts>>

(* check_resize clears the flag, then asks for the size; the handlers of   *)
(* RESIZE make none of these calls.                                        *)
CheckResize ==
  /\ \/ /\ At("resize") /\ ~changed
        /\ Goto(Onward) /\ UNCHANGED <<changed, size>>
     \/ /\ At("resize") /\ changed
        /\ changed' = FALSE /\ Goto("size") /\ UNCHANGED size
     \/ /\ At("size")
        /\ size' = winsize /\ Goto(Onward) /\ UNCHANGED changed
  /\ UNCHANGED <<buffer, deadline, outside, ghosts>>

-----------------------------------------------------------------------------
(* The buffer.                                                             *)
Pending == [i \in 1..count |-> mem[start + i - 1]]
Room    == BufSize - count

(* A key that a forced look finds behind several ESCs may leave buffstart   *)
(* before the buffer: see Slid.  What reads or moves bytes from there is    *)
(* undefined, and no step of it is taken.                                  *)
Inside == start >= 0

(* Bytes come behind those there are, which first move to the front.       *)
Accept(bytes) ==
  /\ Inside
  /\ mem' = [i \in DOMAIN mem |->
               CASE i < count -> mem[start + i]
                 [] i \in count..(count + Len(bytes) - 1) ->
                      bytes[i - count + 1]
                 [] OTHER -> mem[i]]
  /\ start' = 0
  /\ count' = count + Len(bytes)
  /\ accepted' = accepted \o bytes
  /\ quiet' = IF bytes = <<>> THEN quiet ELSE 0
  /\ waited' = (waited \/ (Top.call = "wait" /\ bytes # <<>>))

(* termkey_push_bytes cuts off what has no room.                           *)
Push ==
  /\ Top.call = "push"
  /\ \E n \in 1..Len(fromTerm) :
       /\ Accept(SubSeq(fromTerm, 1, IF n < Room THEN n ELSE Room))
       /\ fromTerm' = SubSeq(fromTerm, n + 1, Len(fromTerm))
  /\ UNCHANGED closed

(* termkey_advisereadable: an error without room, else a read, or the end. *)
Advise ==
  /\ Top.call \in {"readable", "wait"}
  /\ \/ /\ Room = 0
        /\ Accept(<<>>) /\ UNCHANGED <<fromTerm, closed>>
     \/ \E n \in 1..Room :
          /\ n <= Len(fromTerm)
          /\ Accept(SubSeq(fromTerm, 1, n))
          /\ fromTerm' = SubSeq(fromTerm, n + 1, Len(fromTerm))
          /\ UNCHANGED closed
     \/ /\ Room # 0 /\ fromTerm = <<>>
        /\ Accept(<<>>) /\ closed' = TRUE /\ UNCHANGED fromTerm

(* The select of a wait times out, or fails, or finds more than the        *)
(* terminal ready: its set of descriptors is never cleared.                *)
NothingCame ==
  /\ Top.call = "wait"
  /\ UNCHANGED <<mem, start, count, closed, fromTerm, accepted, quiet, waited>>

Input ==
  /\ At("input")
  /\ Push \/ Advise \/ NothingCame
  /\ calls' = [calls EXCEPT ![Len(calls)] =
                 [@ EXCEPT !.fed = TRUE,
                           !.pc = IF Top.call = "wait" THEN "resize" ELSE "keys"]]
  /\ UNCHANGED <<tide, deadline, changed, size, winsize, signal, resizes,
                 taken, heard, forced, left>>

-----------------------------------------------------------------------------
(* Keys.                                                                   *)

(* A bug for the mutant runs: what moves down is one byte short.           *)
SlidShort(at) ==
  LET half == BufSize \div 2
  IN  IF at >= 0 /\ start + tide + at > half
      THEN [mem |-> [i \in DOMAIN mem |->
                       IF i < half - 1 THEN mem[i + half] ELSE mem[i]],
            start |-> start + tide - half]
      ELSE [mem |-> mem, start |-> start + tide]

(* peekkey skips hightide bytes, and once a driver has found a key beyond  *)
(* the middle of the buffer, moves the upper half down.  That counts the   *)
(* ESCs before the key, which are given back after it: of them, what lies  *)
(* below the middle is lost.                                               *)
Slid(at) ==
  LET half == BufSize \div 2
  IN  IF at >= 0 /\ start + tide + at > half
      THEN [mem |-> [i \in DOMAIN mem |->
                       IF i < half THEN mem[i + half] ELSE mem[i]],
            start |-> start + tide - half]
      ELSE [mem |-> mem, start |-> start + tide]

PeekBuffer(force, junk) ==
  Peek(SubSeq(Pending, tide + 1, count), force, junk)

(* What a peek may find. *)
Peeks(force) == {PeekBuffer(force, junk) : junk \in Junk}

(* A key is taken: eat_bytes, then got_key.                                *)
TakeKey(r) ==
  LET bytes == count - tide - r.len
      event == EventOf(r.key)
  IN  /\ mem' = Slid(r.at).mem
      /\ start' = IF bytes = 0 THEN 0 ELSE Slid(r.at).start + r.len
      /\ count' = bytes
      /\ tide' = r.tide
      /\ taken' = taken + tide + r.len
      /\ heard' = IF event = NoEvent THEN heard ELSE Append(heard, event)
      /\ Goto(IF event # NoEvent THEN "handler"
              ELSE IF Top.call = "check" THEN "done" ELSE "keys")
      /\ UNCHANGED closed

(* A peek that takes nothing: bytes are skipped, and may move.             *)
LeaveKey(r) ==
  /\ mem' = Slid(r.at).mem
  /\ start' = Slid(r.at).start
  /\ count' = count - tide
  /\ tide' = r.tide
  /\ taken' = taken + tide
  /\ UNCHANGED <<closed, heard>>

(* A bug for the mutant runs: a time that is set is not set anew.          *)
TimeoutKept(res) ==
  IF res # "AGAIN" THEN Never
  ELSE IF deadline = Never THEN WaitTime ELSE deadline

(* input_timeout_at, at the end of get_keys.                               *)
Timeout(res) == IF res = "AGAIN" THEN WaitTime ELSE Never

(* One turn of the loop of get_keys, or of tickit_term_input_wait_msec,    *)
(* which leaves the time alone.  termkey_getkey looks again with force at  *)
(* what may go on, and leaves it there.                                    *)
GetKey ==
  /\ At("keys") /\ Inside
  /\ \E r \in Peeks(FALSE) :
       \/ /\ r.res = "KEY"
          /\ TakeKey(r)
          /\ UNCHANGED <<deadline, waited, left>>
       \/ /\ r.res # "KEY"
          /\ \E again \in (IF r.res = "AGAIN" THEN Peeks(TRUE) ELSE {r}) :
               LeaveKey(again)
          /\ IF Top.call = "wait"
             THEN /\ left' = (count' > 0)
                  /\ UNCHANGED <<deadline, waited>>
             ELSE /\ deadline' = Timeout(r.res)
                  /\ left' = FALSE /\ waited' = FALSE
          /\ Return
  /\ UNCHANGED <<changed, size, outside, accepted, forced, quiet>>

(* check_timeout, after the size.                                          *)
Timer ==
  /\ At("timer")
  /\ \/ /\ deadline # 0
        /\ Return
        /\ UNCHANGED <<buffer, deadline, taken, heard, forced, left>>
     \/ /\ deadline = 0 /\ Inside
        /\ \E r \in Peeks(TRUE) :
             \/ /\ r.res = "KEY"
                /\ TakeKey(r)
                /\ forced' = TRUE
                /\ UNCHANGED <<deadline, left>>
             \/ /\ r.res # "KEY"
                /\ LeaveKey(r)
                /\ deadline' = Never
                /\ Return
                /\ UNCHANGED <<forced, left>>
  /\ UNCHANGED <<changed, size, outside, accepted, quiet, waited>>

(* The handlers of an event return.                                        *)
Handled ==
  /\ \/ /\ At("handler") /\ Top.call # "check"
        /\ Goto("keys")
        /\ UNCHANGED <<deadline, left>>
     \/ /\ At("handler") \/ At("done")
        /\ Top.call = "check"
        /\ deadline' = Never /\ left' = (count > 0)
        /\ Return
  /\ UNCHANGED <<buffer, changed, size, outside, accepted, taken, heard,
                 forced, quiet, waited>>

-----------------------------------------------------------------------------
(* Outside.                                                                *)
Tick ==
  /\ deadline > 0 \/ quiet < WaitTime
  /\ deadline' = IF deadline > 0 THEN deadline - 1 ELSE deadline
  /\ quiet' = IF quiet < WaitTime THEN quiet + 1 ELSE quiet
  /\ UNCHANGED <<buffer, changed, size, calls, outside, accepted, taken, heard,
                 forced, waited, left>>

WindowResized ==
  /\ resizes > 0
  /\ winsize' \in Sizes \ {winsize}
  /\ signal' = TRUE
  /\ resizes' = resizes - 1
  /\ UNCHANGED <<buffer, deadline, changed, size, calls, fromTerm, ghosts>>

(* sigwinch, of a terminal that observes it.                               *)
Sigwinch ==
  /\ signal
  /\ signal' = FALSE
  /\ changed' = TRUE
  /\ UNCHANGED <<buffer, deadline, size, calls, fromTerm, winsize, resizes,
                 ghosts>>

Next ==
  \/ PushBytes \/ Readable \/ CheckTimeout \/ Wait
  \/ CheckResize \/ Input \/ GetKey \/ Timer \/ Handled
  \/ Tick \/ WindowResized \/ Sigwinch

Spec == Init /\ [][Next]_vars

(* The program's own loop calls input_wait again and again, and nothing    *)
(* else; a call that is in progress goes on; signals are delivered.        *)
FairSpec ==
  /\ Spec
  /\ SF_vars(calls = <<>> /\ Wait)
  /\ WF_vars(CheckResize \/ Input \/ GetKey \/ Timer \/ Handled)
  /\ WF_vars(Sigwinch)

-----------------------------------------------------------------------------
(* Properties.                                                             *)

(* However the buffer was moved, skipped and eaten from, by calls within   *)
(* calls too: what it holds is what was accepted and not yet taken, each   *)
(* byte once and in order; unless it is out of the buffer altogether.      *)
BytesInOrder ==
  Inside => Pending = SubSeq(accepted, taken + 1, Len(accepted))

(* The events that bytes may make when they come all at once.              *)
Events(bytes) ==
  LET peeks(i) == {Peek(SubSeq(bytes, i, Len(bytes)), FALSE, junk) : junk \in Junk}
      from[i \in 1..(Len(bytes) + 1)] ==
        UNION {IF r.res # "KEY" THEN {<<>>}
               ELSE {SelectSeq(<<EventOf(r.key)>>, LAMBDA e : e # NoEvent) \o es :
                       es \in from[i + r.len + r.tide]} :
                 r \in peeks(i)}
  IN  from[1]

(* As long as no key was cut short by the timeout, handlers get the events *)
(* that the bytes so far make, however reads cut them up and whichever     *)
(* calls brought them in; between calls, all of these events.              *)
CutsDoNotMatter ==
  forced \/ \E events \in Events(accepted) :
              IsPrefix(heard, events) /\ (calls = <<>> => heard = events)

(* A resize is not lost between the signal and the call that looks at the  *)
(* flag: when none is on its way, the terminal has the window's size.      *)
ResizeSeen ==
  signal \/ changed \/ At("size") \/ size = winsize

(* A key is cut short only after WaitTime without a byte.  Two cases are   *)
(* out: bytes that input_wait took, for which it sets no time, and a       *)
(* timeout that a handler checks within a call that is yet to set it.      *)
ForcedWhenDue ==
  [][forced' /\ ~forced /\ Len(calls) = 1 => quiet = WaitTime \/ waited]_vars

(* A window that was resized is asked for its size in the end, by calls    *)
(* within handlers or by the loop's next one: the program learns the size  *)
(* though nothing is typed any more.  A call that found the buffer's start *)
(* outside of it is undefined, and none is promised after it.              *)
ResizeHeard == size # winsize ~> size = winsize \/ ~Inside
=============================================================================
