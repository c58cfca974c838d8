--------------------------- MODULE TermInputProofs ----------------------------
(***************************************************************************)
(* No resize is missed, no key is cut short before its time, and no byte   *)
(* of the buffer is lost, for any keys, buffers, streams, times and depths *)
(* of calls.                                                               *)
(***************************************************************************)
EXTENDS TermInput, SequenceTheorems, Induction

Pcs == {"resize", "size", "input", "keys", "timer", "handler", "done"}

(* Only check_timeout looks at the clock. *)
Frames ==
  {f \in [call : {"push", "readable", "check", "wait"}, pc : Pcs,
          fed : BOOLEAN] :
     f.pc = "timer" => f.call = "check"}

FramesOK == calls \in Seq(Frames)

TimesOK ==
  /\ deadline \in {Never} \cup 0..WaitTime
  /\ quiet \in 0..WaitTime
  /\ waited \in BOOLEAN /\ forced \in BOOLEAN

(* A call that has brought in bytes and will set the time. *)
Setting(f) == f.call \in {"push", "readable"} /\ f.fed

(* The time is never up sooner than it is quiet for long enough, except    *)
(* while a call is in progress that sets it anew.                          *)
TimeKept ==
  \/ forced \/ waited \/ deadline = Never
  \/ quiet + deadline >= WaitTime
  \/ \E i \in 1..Len(calls) : Setting(calls[i])

IInv == FramesOK /\ TimesOK /\ ResizeSeen /\ TimeKept

-----------------------------------------------------------------------------
(* The stack of calls. *)

(* A call goes on: all frames stay, and what they have done.               *)
LEMMA Going ==
  ASSUME FramesOK, calls # <<>>, NEW pc \in Pcs,
         pc = "timer" => Top.call = "check", Goto(pc)
  PROVE  /\ FramesOK' /\ Len(calls') = Len(calls) /\ calls' # <<>>
         /\ calls'[Len(calls)].pc = pc
         /\ \A i \in 1..Len(calls) : Setting(calls[i]) => Setting(calls'[i])
<1> DEFINE top == Len(calls)
           f   == [Top EXCEPT !.pc = pc]
<1>1. top \in 1..Len(calls) /\ Len(calls) \in Nat /\ Top \in Frames
  BY DEF FramesOK, Top
<1>2. f \in Frames /\ f.pc = pc /\ f.call = Top.call /\ f.fed = Top.fed
  BY <1>1 DEF Frames
<1>3. calls' = [calls EXCEPT ![top] = f]
  BY <1>1 DEF Goto, Top, FramesOK
<1>4. calls' \in Seq(Frames) /\ Len(calls') = Len(calls)
  BY <1>1, <1>2, <1>3 DEF FramesOK
<1>5. \A i \in 1..Len(calls) : calls'[i] = IF i = top THEN f ELSE calls[i]
  BY <1>1, <1>3 DEF FramesOK
<1>6. calls' # <<>>
  BY <1>1, <1>4
<1>7. \A i \in 1..Len(calls) : Setting(calls[i]) => Setting(calls'[i])
  BY <1>1, <1>2, <1>5 DEF Setting, Top
<1> QED BY <1>1, <1>2, <1>4, <1>5, <1>6, <1>7 DEF FramesOK

(* A call returns: the frames below it stay. *)
LEMMA Returning ==
  ASSUME FramesOK, calls # <<>>, Return
  PROVE  /\ FramesOK' /\ Len(calls') = Len(calls) - 1
         /\ \A i \in 1..Len(calls) - 1 : calls'[i] = calls[i]
<1>1. Len(calls) \in Nat \ {0} /\ calls' = SubSeq(calls, 1, Len(calls) - 1)
  BY DEF FramesOK, Return, Front
<1>2. \A i \in 1..Len(calls) - 1 : calls[i] \in Frames
  BY <1>1 DEF FramesOK
<1>3. /\ SubSeq(calls, 1, Len(calls) - 1) \in Seq(Frames)
      /\ Len(SubSeq(calls, 1, Len(calls) - 1)) = Len(calls) - 1
      /\ \A i \in 1..Len(calls) - 1 :
           SubSeq(calls, 1, Len(calls) - 1)[i] = calls[i]
  <2> DEFINE n == Len(calls) - 1
             s == SubSeq(calls, 1, n)
  <2>1. /\ s \in Seq(Frames) /\ Len(s) = IF 1 <= n THEN n - 1 + 1 ELSE 0
        /\ \A i \in 1..n - 1 + 1 : s[i] = calls[1 + i - 1]
    <3> HIDE DEF n
    <3>1. n \in Int /\ \A i \in 1..n : calls[i] \in Frames
      BY <1>1, <1>2 DEF n
    <3> QED BY <3>1, SubSeqProperties
  <2>2. n \in Nat
    BY <1>1
  <2>3. (IF 1 <= n THEN n - 1 + 1 ELSE 0) = n /\ 1..n - 1 + 1 = 1..n
    <3> HIDE DEF n
    <3> QED BY <2>2
  <2>4. \A i \in 1..n : 1 + i - 1 = i
    OBVIOUS
  <2> QED BY <2>1, <2>3, <2>4
<1> QED BY <1>1, <1>3 DEF FramesOK

(* When a call that is to set no time returns, those that are stay.        *)
LEMMA StillSetting ==
  ASSUME FramesOK, calls # <<>>, Return, ~Setting(Top),
         \E i \in 1..Len(calls) : Setting(calls[i])
  PROVE  \E i \in 1..Len(calls') : Setting(calls'[i])
<1>1. PICK i \in 1..Len(calls) : Setting(calls[i])
  OBVIOUS
<1>2. Len(calls) \in Nat
  BY DEF FramesOK
<1>3. i # Len(calls)
  BY <1>1 DEF Top
<1>4. i \in 1..Len(calls') /\ calls'[i] = calls[i]
  BY <1>2, <1>3, Returning
<1> QED BY <1>1, <1>4

(* A new call is the last one. *)
LEMMA Entering ==
  ASSUME FramesOK, NEW call \in {"push", "readable", "check", "wait"},
         Enter(call)
  PROVE  /\ FramesOK'
         /\ Len(calls') = Len(calls) + 1
         /\ \A i \in 1..Len(calls) : calls'[i] = calls[i]
<1> DEFINE f == [call |-> call, pc |-> "resize", fed |-> FALSE]
<1>1. f \in Frames
  BY DEF Frames, Pcs
<1>2. calls' = Append(calls, f)
  BY DEF Enter
<1> QED BY <1>1, <1>2, AppendProperties DEF FramesOK

(* Frames that set a time stay, and so does the rest: the time is kept.    *)
LEMMA KeepsTime ==
  ASSUME TimeKept, UNCHANGED <<forced, waited, deadline, quiet>>,
         Len(calls') >= Len(calls),
         \A i \in 1..Len(calls) : Setting(calls[i]) => Setting(calls'[i]),
         Len(calls) \in Nat, Len(calls') \in Nat
  PROVE  TimeKept'
<1>1. CASE \E i \in 1..Len(calls) : Setting(calls[i])
  <2>1. PICK i \in 1..Len(calls) : Setting(calls[i])
    BY <1>1
  <2>2. i \in 1..Len(calls') /\ Setting(calls'[i])
    BY <2>1
  <2>3. \E j \in 1..Len(calls') : Setting(calls'[j])
    BY <2>2
  <2> QED BY <2>3 DEF TimeKept, Setting
<1>2. CASE ~\E i \in 1..Len(calls) : Setting(calls[i])
  BY <1>2 DEF TimeKept, Never
<1> QED BY <1>1, <1>2

(* When a call returns that is to set no time, the same.                   *)
LEMMA ReturnKeepsTime ==
  ASSUME TimeKept, FramesOK, calls # <<>>, Return, ~Setting(Top),
         UNCHANGED <<forced, waited, deadline, quiet>>
  PROVE  TimeKept'
<1>1. CASE \E i \in 1..Len(calls) : Setting(calls[i])
  <2>1. \E j \in 1..Len(calls') : Setting(calls'[j])
    BY <1>1, StillSetting
  <2> QED BY <2>1 DEF TimeKept, Setting
<1>2. CASE ~\E i \in 1..Len(calls) : Setting(calls[i])
  BY <1>2 DEF TimeKept, Never
<1> QED BY <1>1, <1>2

(* A step that neither looks at the size nor changes it.                   *)
LEMMA KeepsSize ==
  ASSUME ResizeSeen, ~At("size"), UNCHANGED <<signal, changed, size, winsize>>
  PROVE  ResizeSeen'
BY DEF ResizeSeen

-----------------------------------------------------------------------------
(* The invariant. *)

LEMMA InitInv == Init => IInv
<1> SUFFICES ASSUME Init PROVE IInv
  OBVIOUS
<1>1. FramesOK
  BY DEF Init, FramesOK
<1>2. TimesOK
  <2>1. waited \in BOOLEAN /\ forced \in BOOLEAN
    BY DEF Init
  <2>2. deadline = Never /\ quiet \in 0..WaitTime
    BY InputAssumption DEF InputAssumption, Init
  <2> QED BY <2>1, <2>2 DEF TimesOK
<1>3. ResizeSeen
  BY DEF Init, ResizeSeen
<1>4. TimeKept
  BY DEF Init, TimeKept
<1> QED BY <1>1, <1>2, <1>3, <1>4 DEF IInv

LEMMA EnterInv ==
  ASSUME IInv, NEW call \in {"push", "readable", "check", "wait"}, Enter(call)
  PROVE  IInv'
<1>1. /\ FramesOK' /\ Len(calls') = Len(calls) + 1
      /\ \A i \in 1..Len(calls) : calls'[i] = calls[i]
  BY Entering DEF IInv
<1>2. Len(calls) \in Nat /\ Len(calls') \in Nat
  BY <1>1 DEF IInv, FramesOK
<1>3. TimeKept'
  <2>1. \A i \in 1..Len(calls) : Setting(calls[i]) => Setting(calls'[i])
    BY <1>1
  <2> QED BY <1>1, <1>2, <2>1, KeepsTime DEF IInv, Enter, ghosts
<1>4. ResizeSeen'
  BY KeepsSize DEF IInv, Enter, At, outside
<1>5. TimesOK'
  BY DEF IInv, TimesOK, Enter, ghosts
<1> QED BY <1>1, <1>3, <1>4, <1>5 DEF IInv

LEMMA CheckResizeInv ==
  ASSUME IInv, CheckResize
  PROVE  IInv'
<1>1. calls # <<>> /\ Top \in Frames /\ Len(calls) \in Nat
  BY DEF CheckResize, At, IInv, FramesOK, Top
<1>2. Onward \in Pcs /\ (Onward = "timer" => Top.call = "check")
  BY DEF Onward, Pcs
<1>3. PICK pc \in Pcs :
        /\ Goto(pc) /\ (pc = "timer" => Top.call = "check")
        /\ \/ At("resize") /\ UNCHANGED <<changed, size>>
           \/ pc = "size"
           \/ size' = winsize
  BY <1>2 DEF CheckResize, Pcs
<1>4. /\ FramesOK' /\ Len(calls') = Len(calls) /\ calls' # <<>>
      /\ calls'[Len(calls)].pc = pc
      /\ \A i \in 1..Len(calls) : Setting(calls[i]) => Setting(calls'[i])
  BY <1>1, <1>3, Going DEF IInv
<1>5. TimeKept'
  BY <1>1, <1>4, KeepsTime DEF IInv, CheckResize, ghosts
<1>6. ResizeSeen'
  <2>1. CASE At("resize") /\ UNCHANGED <<changed, size>>
    BY <2>1, KeepsSize DEF IInv, At, CheckResize, outside
  <2>2. CASE pc = "size"
    BY <2>2, <1>4 DEF ResizeSeen, At, Top
  <2>3. CASE size' = winsize
    BY <2>3 DEF ResizeSeen, CheckResize, outside
  <2> QED BY <1>3, <2>1, <2>2, <2>3
<1>7. TimesOK'
  BY DEF IInv, TimesOK, CheckResize, ghosts
<1> QED BY <1>4, <1>5, <1>6, <1>7 DEF IInv

LEMMA InputInv ==
  ASSUME IInv, Input
  PROVE  IInv'
<1> DEFINE top == Len(calls)
           f   == [Top EXCEPT !.fed = TRUE,
                              !.pc = IF Top.call = "wait" THEN "resize"
                                     ELSE "keys"]
<1>1. /\ calls # <<>> /\ Top \in Frames /\ Len(calls) \in Nat
      /\ top \in 1..Len(calls) /\ Top = calls[top] /\ Top.pc = "input"
  BY DEF Input, At, IInv, FramesOK, Top
<1>2. /\ f \in Frames /\ f.fed = TRUE /\ f.call = Top.call
  BY <1>1 DEF Frames, Pcs
<1>3. calls' = [calls EXCEPT ![top] = f]
  BY <1>1 DEF Input, Top
<1>4. /\ calls' \in Seq(Frames) /\ Len(calls') = Len(calls)
      /\ \A i \in 1..Len(calls) : calls'[i] = IF i = top THEN f ELSE calls[i]
  BY <1>1, <1>2, <1>3 DEF IInv, FramesOK
<1>5. Push \/ Advise \/ NothingCame
  BY DEF Input
<1>6. /\ quiet' \in {quiet, 0} /\ waited' \in BOOLEAN
      /\ \/ Top.call \in {"push", "readable"}
         \/ waited' = TRUE
         \/ quiet' = quiet /\ waited' = waited
  <2>1. waited \in BOOLEAN
    BY DEF IInv, TimesOK
  <2>2. ASSUME NEW bytes, Accept(bytes)
        PROVE  /\ quiet' \in {quiet, 0} /\ waited' \in BOOLEAN
               /\ waited' = TRUE \/ Top.call # "wait"
                                 \/ (quiet' = quiet /\ waited' = waited)
    BY <2>1, <2>2, Zenon DEF Accept
  <2>3. CASE Push
    BY <2>2, <2>3 DEF Push
  <2>4. CASE Advise
    BY <2>2, <2>4, Zenon DEF Advise
  <2>5. CASE NothingCame
    BY <2>1, <2>5 DEF NothingCame
  <2> QED BY <1>5, <2>3, <2>4, <2>5
<1>7. TimesOK'
  <2>1. deadline' = deadline /\ forced' = forced
    BY DEF Input
  <2>2. quiet' \in 0..WaitTime
    BY <1>6, InputAssumption DEF InputAssumption, IInv, TimesOK
  <2> QED BY <1>6, <2>1, <2>2 DEF IInv, TimesOK
<1>8. TimeKept'
  <2>1. CASE Top.call \in {"push", "readable"}
    <3>1. Setting(calls'[top]) /\ top \in 1..Len(calls')
      BY <2>1, <1>1, <1>2, <1>4 DEF Setting
    <3>2. \E i \in 1..Len(calls') : Setting(calls'[i])
      BY <3>1
    <3> QED BY <3>2 DEF TimeKept, Setting
  <2>2. CASE waited' = TRUE
    BY <2>2 DEF TimeKept
  <2>3. CASE quiet' = quiet /\ waited' = waited
    <3>1. \A i \in 1..Len(calls) : Setting(calls[i]) => Setting(calls'[i])
      BY <1>1, <1>2, <1>4 DEF Setting
    <3> QED BY <2>3, <3>1, <1>1, <1>4, KeepsTime DEF IInv, Input
  <2> QED BY <1>6, <2>1, <2>2, <2>3
<1>9. ResizeSeen'
  BY <1>1, KeepsSize DEF IInv, Input, At
<1> QED BY <1>4, <1>7, <1>8, <1>9 DEF IInv, FramesOK

(* What a key that is taken does to the calls. *)
LEMMA TakeKeyGoesOn ==
  ASSUME NEW r, TakeKey(r)
  PROVE  \E pc \in Pcs \ {"timer", "size"} : Goto(pc)
BY DEF TakeKey, Pcs

LEMMA GetKeyInv ==
  ASSUME IInv, GetKey
  PROVE  IInv'
<1>1. /\ calls # <<>> /\ Top \in Frames /\ Len(calls) \in Nat
      /\ Top.pc = "keys"
  BY DEF GetKey, At, IInv, FramesOK, Top
<1>2. /\ UNCHANGED <<changed, size, outside, forced, quiet>>
      /\ \/ /\ \E pc \in Pcs \ {"timer", "size"} : Goto(pc)
            /\ UNCHANGED <<deadline, waited>>
         \/ /\ Return /\ Top.call = "wait"
            /\ UNCHANGED <<deadline, waited>>
         \/ /\ Return /\ Top.call # "wait"
            /\ deadline' \in {WaitTime, Never} /\ waited' = FALSE
  BY TakeKeyGoesOn DEF GetKey, Timeout
<1>3. ResizeSeen'
  BY <1>1, <1>2, KeepsSize DEF IInv, At, outside
<1>4. TimesOK'
  <2>1. waited' \in BOOLEAN /\ forced' \in BOOLEAN
    BY <1>2 DEF IInv, TimesOK
  <2>2. deadline' \in {deadline, WaitTime, Never} /\ quiet' = quiet
    BY <1>2
  <2>3. WaitTime \in 0..WaitTime
    BY InputAssumption DEF InputAssumption
  <2> QED BY <2>1, <2>2, <2>3 DEF IInv, TimesOK
<1>5. FramesOK' /\ TimeKept'
  <2>1. ASSUME NEW pc \in Pcs \ {"timer", "size"}, Goto(pc),
               UNCHANGED <<deadline, waited>>
        PROVE  FramesOK' /\ TimeKept'
    <3>1. /\ FramesOK' /\ Len(calls') = Len(calls)
          /\ \A i \in 1..Len(calls) : Setting(calls[i]) => Setting(calls'[i])
      BY <1>1, <2>1, Going DEF IInv
    <3> QED BY <1>1, <1>2, <2>1, <3>1, KeepsTime DEF IInv
  <2>2. CASE Return /\ Top.call = "wait" /\ UNCHANGED <<deadline, waited>>
    BY <1>1, <1>2, <2>2, Returning, ReturnKeepsTime DEF IInv, Setting
  <2>3. CASE /\ Return /\ deadline' \in {WaitTime, Never}
    <3>1. FramesOK'
      BY <1>1, <2>3, Returning DEF IInv
    <3>2. quiet' + WaitTime >= WaitTime
      <4>1. quiet' \in 0..WaitTime
        BY <1>4 DEF TimesOK
      <4>2. WaitTime \in Nat
        BY InputAssumption DEF InputAssumption
      <4>3. \A q \in 0..WaitTime : q + WaitTime >= WaitTime
        BY <4>2
      <4> QED BY <4>1, <4>3
    <3>3. CASE deadline' = Never
      BY <3>1, <3>3 DEF TimeKept
    <3>4. CASE deadline' = WaitTime
      BY <3>1, <3>2, <3>4 DEF TimeKept
    <3> QED BY <2>3, <3>3, <3>4
  <2> QED BY <1>2, <2>1, <2>2, <2>3
<1> QED BY <1>3, <1>4, <1>5 DEF IInv

LEMMA TimerInv ==
  ASSUME IInv, Timer
  PROVE  IInv'
<1>1. /\ calls # <<>> /\ Top \in Frames /\ Len(calls) \in Nat
      /\ Top.pc = "timer" /\ Top.call = "check"
  BY DEF Timer, At, IInv, FramesOK, Top, Frames
<1>2. /\ UNCHANGED <<changed, size, outside, quiet, waited>>
      /\ \/ Return /\ UNCHANGED <<deadline, forced>>
         \/ /\ \E pc \in Pcs \ {"timer", "size"} : Goto(pc)
            /\ forced' = TRUE /\ UNCHANGED deadline
         \/ Return /\ deadline' = Never /\ UNCHANGED forced
  BY TakeKeyGoesOn DEF Timer
<1>3. ResizeSeen'
  BY <1>1, <1>2, KeepsSize DEF IInv, At, outside
<1>4. TimesOK'
  BY <1>2 DEF IInv, TimesOK
<1>5. FramesOK' /\ TimeKept'
  <2>1. CASE Return /\ UNCHANGED <<deadline, forced>>
    BY <1>1, <1>2, <2>1, Returning, ReturnKeepsTime DEF IInv, Setting
  <2>2. ASSUME NEW pc \in Pcs \ {"timer", "size"}, Goto(pc), forced' = TRUE
        PROVE  FramesOK' /\ TimeKept'
    <3>1. FramesOK'
      BY <1>1, <2>2, Going DEF IInv
    <3> QED BY <2>2, <3>1 DEF TimeKept
  <2>3. CASE Return /\ deadline' = Never
    <3>1. FramesOK'
      BY <1>1, <2>3, Returning DEF IInv
    <3> QED BY <2>3, <3>1 DEF TimeKept
  <2> QED BY <1>2, <2>1, <2>2, <2>3
<1> QED BY <1>3, <1>4, <1>5 DEF IInv

LEMMA HandledInv ==
  ASSUME IInv, Handled
  PROVE  IInv'
<1>1. /\ calls # <<>> /\ Top \in Frames /\ Len(calls) \in Nat
      /\ ~At("size")
  BY DEF Handled, At, IInv, FramesOK, Top
<1>2. ResizeSeen'
  BY <1>1, KeepsSize DEF IInv, Handled, outside
<1>3. TimesOK'
  BY DEF Handled, IInv, TimesOK
<1>4. FramesOK' /\ TimeKept'
  <2>1. CASE Goto("keys") /\ UNCHANGED deadline
    <3>1. /\ FramesOK' /\ Len(calls') = Len(calls)
          /\ \A i \in 1..Len(calls) : Setting(calls[i]) => Setting(calls'[i])
      <4>1. "keys" \in Pcs /\ ("keys" = "timer" => Top.call = "check")
        BY DEF Pcs
      <4> QED BY <1>1, <2>1, <4>1, Going DEF IInv
    <3> QED BY <1>1, <2>1, <3>1, KeepsTime DEF IInv, Handled
  <2>2. CASE Return /\ deadline' = Never
    <3>1. FramesOK'
      BY <1>1, <2>2, Returning DEF IInv
    <3> QED BY <2>2, <3>1 DEF TimeKept
  <2> QED BY <2>1, <2>2 DEF Handled
<1> QED BY <1>2, <1>3, <1>4 DEF IInv

(* Time passes, and it is as long until it is up as it is quiet longer.    *)
LEMMA TickInv ==
  ASSUME IInv, Tick
  PROVE  IInv'
<1>1. /\ WaitTime \in Nat /\ quiet \in 0..WaitTime
      /\ deadline \in {-1} \cup 0..WaitTime
  BY InputAssumption DEF InputAssumption, IInv, TimesOK, Never
<1>2. deadline' \in {-1} \cup 0..WaitTime /\ quiet' \in 0..WaitTime
  BY <1>1 DEF Tick
<1>3. deadline = -1 => deadline' = -1
  BY DEF Tick
<1>4. quiet + deadline >= WaitTime =>
        deadline' = -1 \/ quiet' + deadline' >= WaitTime
  BY <1>1 DEF Tick
<1>5. TimesOK'
  BY <1>2 DEF TimesOK, Tick, IInv, Never
<1>6. FramesOK'
  BY DEF Tick, IInv, FramesOK
<1>7. ResizeSeen'
  BY DEF Tick, IInv, ResizeSeen, At, Top, outside
<1>8. TimeKept'
  <2>1. UNCHANGED <<calls, forced, waited>>
    BY DEF Tick
  <2> QED BY <1>3, <1>4, <2>1 DEF IInv, TimeKept, Setting, Never
<1> QED BY <1>5, <1>6, <1>7, <1>8 DEF IInv

(* The invariant is inductive. *)
LEMMA StepInv == IInv /\ [Next]_vars => IInv'
<1> SUFFICES ASSUME IInv, [Next]_vars PROVE IInv'
  OBVIOUS
<1>1. CASE PushBytes
  BY <1>1, EnterInv DEF PushBytes
<1>2. CASE Readable
  BY <1>2, EnterInv DEF Readable
<1>3. CASE CheckTimeout
  BY <1>3, EnterInv DEF CheckTimeout
<1>4. CASE Wait
  BY <1>4, EnterInv DEF Wait
<1>5. CASE CheckResize
  BY <1>5, CheckResizeInv
<1>6. CASE Input
  BY <1>6, InputInv
<1>7. CASE GetKey
  BY <1>7, GetKeyInv
<1>8. CASE Timer
  BY <1>8, TimerInv
<1>9. CASE Handled
  BY <1>9, HandledInv
<1>10. CASE Tick
  BY <1>10, TickInv
<1>11. CASE WindowResized
  BY <1>11 DEF WindowResized, ghosts, IInv, FramesOK, TimesOK, ResizeSeen,
               TimeKept, Setting
<1>12. CASE Sigwinch
  BY <1>12 DEF Sigwinch, ghosts, IInv, FramesOK, TimesOK, ResizeSeen,
               TimeKept, Setting
<1>13. CASE UNCHANGED vars
  BY <1>13 DEF vars, outside, ghosts, IInv, FramesOK, TimesOK, ResizeSeen,
               TimeKept, Setting, At, Top
<1> QED BY <1>1, <1>2, <1>3, <1>4, <1>5, <1>6, <1>7, <1>8, <1>9, <1>10,
           <1>11, <1>12, <1>13 DEF Next

-----------------------------------------------------------------------------
(* A resize between the signal, the clearing of the flag and the asking    *)
(* for the size is always either on its way or known: check_resize.        *)
THEOREM ResizeIsSeen == Spec => []ResizeSeen
<1>1. IInv => ResizeSeen
  BY DEF IInv
<1> QED BY InitInv, StepInv, <1>1, PTL DEF Spec

(* tickit_term_input_check_timeout_msec takes half a key only when nothing *)
(* came for the wait time, or input_wait took bytes and set no time.       *)
THEOREM ForcedIsDue == Spec => ForcedWhenDue
<1> DEFINE Due == forced' /\ ~forced /\ Len(calls) = 1
                    => quiet = WaitTime \/ waited
<1>1. ASSUME IInv, Next, forced', ~forced, Len(calls) = 1
      PROVE  quiet = WaitTime \/ waited
  <2>1. Timer
    BY <1>1 DEF Next, PushBytes, Readable, CheckTimeout, Wait, Enter,
                CheckResize, Input, GetKey, Handled, Tick, WindowResized,
                Sigwinch, ghosts
  <2>2. deadline = 0
    BY <1>1, <2>1 DEF Timer
  <2>3. Top = calls[1] /\ Top \in Frames /\ Top.pc = "timer"
    BY <1>1, <2>1 DEF Timer, At, Top, IInv, FramesOK
  <2>4. ~\E i \in 1..Len(calls) : Setting(calls[i])
    BY <1>1, <2>3 DEF Frames, Setting
  <2>5. waited \/ quiet + 0 >= WaitTime
    BY <1>1, <2>2, <2>4 DEF IInv, TimeKept, Never
  <2>6. quiet \in 0..WaitTime /\ WaitTime \in Nat
    BY <1>1, InputAssumption DEF InputAssumption, IInv, TimesOK
  <2> QED BY <2>5, <2>6
<1>2. IInv /\ [Next]_vars => [Due]_vars
  BY <1>1
<1> QED BY InitInv, StepInv, <1>2, PTL DEF Spec, ForcedWhenDue

-----------------------------------------------------------------------------
(* What a peek finds in n bytes: no key without a byte, no more bytes than *)
(* there are, and a driver looked at bytes that are to be eaten.           *)
Sound(r, n) ==
  /\ r = Result(r.res, r.key, r.len, r.tide, r.at)
  /\ r.len \in Nat /\ r.tide \in Nat /\ r.at \in Int /\ r.at >= -1
  /\ r.res = "KEY" => 1 <= r.len /\ r.len + r.tide <= n /\ r.at < r.len
  /\ r.res # "KEY" => r.tide = 0 /\ r.at = -1

LEMMA SoundNothing ==
  ASSUME NEW n \in Nat
  PROVE  Sound(Again, n) /\ Sound(None, n)
BY DEF Sound, Again, None, Result, NoKey

LEMMA SoundResult ==
  ASSUME NEW n \in Nat, NEW key, NEW len \in 1..n, NEW over \in 0..n - len, NEW at \in {-1, 0}
  PROVE  Sound(Result("KEY", key, len, over, at), n)
BY DEF Sound, Result

LEMMA SoundKey ==
  ASSUME NEW n \in Nat, NEW key, NEW len \in 1..n
  PROVE  Sound(Found(key, len), n) /\ Sound(Plain(key, len), n)
<1>1. 0 \in 0..n - len
  OBVIOUS
<1> QED BY <1>1, SoundResult DEF Found, Plain

LEMMA SoundMeta ==
  ASSUME NEW n \in Nat, NEW r, Sound(r, n)
  PROVE  Sound(Meta(r), n + 1)
<1>1. CASE r.res # "KEY"
  BY <1>1 DEF Meta, Sound
<1>2. CASE r.res = "KEY"
  <2> DEFINE key == Adding(r.key, {Alt})
             at == IF r.at = -1 THEN -1 ELSE r.at + 1
  <2>2. Meta(r) = Result(r.res, key, r.len + 1, r.tide, at)
    BY <1>2 DEF Meta
  <2>3. at \in Int /\ at >= -1 /\ at < r.len + 1
    BY <1>2 DEF Sound
  <2> HIDE DEF key, at
  <2> QED BY <1>2, <2>2, <2>3 DEF Sound, Result
<1> QED BY <1>1, <1>2

-----------------------------------------------------------------------------
(* The drivers. *)

LEMMA MouseSound ==
  ASSUME NEW b \in Seq(Byte), NEW from \in Nat
  PROVE  Sound(PeekMouse(b, from), Len(b))
<1>1. Len(b) \in Nat
  OBVIOUS
<1>2. CASE Len(b) < from + 3
  BY <1>1, <1>2, SoundNothing DEF PeekMouse
<1>3. CASE ~(Len(b) < from + 3)
  <2>1. from + 3 \in 1..Len(b)
    BY <1>1, <1>3
  <2> QED BY <1>1, <1>3, <2>1, SoundKey DEF PeekMouse
<1> QED BY <1>2, <1>3

LEMMA TerminfoSound ==
  ASSUME NEW b \in Seq(Byte), NEW force \in BOOLEAN
  PROVE  Sound(PeekTerminfo(b, force), Len(b))
<1> DEFINE ends == {cap \in Trie : IsPrefix(cap.seq, b)}
           cap == CHOOSE c \in ends : TRUE
<1>1. Len(b) \in Nat
  OBVIOUS
<1>2. CASE ends # {}
  <2>1. cap \in Trie /\ IsPrefix(cap.seq, b)
    BY <1>2
  <2>2. cap.seq \in Seq(Byte) \ {<<>>}
    BY <2>1, TermKeyAssumption DEF TermKeyAssumption, Trie
  <2>3. Len(cap.seq) \in 1..Len(b)
    <3> HIDE DEF cap, ends
    <3> QED BY <1>1, <2>1, <2>2 DEF IsPrefix
  <2>4. PeekTerminfo(b, force)
          = IF cap.key = NoKey THEN PeekMouse(b, Len(cap.seq)) ELSE Found(cap.key, Len(cap.seq))
    BY <1>2, Zenon DEF PeekTerminfo
  <2> HIDE DEF cap
  <2>5. Sound(PeekMouse(b, Len(cap.seq)), Len(b)) /\ Sound(Found(cap.key, Len(cap.seq)), Len(b))
    BY <1>1, <2>3, MouseSound, SoundKey
  <2> QED BY <2>4, <2>5
<1>3. CASE ends = {}
  <2>1. PeekTerminfo(b, force) \in {Again, None}
    BY <1>3, Zenon DEF PeekTerminfo
  <2> QED BY <1>1, <2>1, SoundNothing
<1> QED BY <1>2, <1>3

LEMMA MinOf ==
  ASSUME NEW S \in SUBSET Nat, S # {}
  PROVE  Min(S) \in S
<1>1. \E x \in S : \A y \in S : x <= y
  BY LeastOf
<1> QED BY <1>1 DEF Min

LEMMA CsiSound ==
  ASSUME NEW b \in Seq(Byte), NEW intro \in 1..Len(b), NEW force \in BOOLEAN, NEW junk
  PROVE  Sound(PeekCsi(b, intro, force, junk), Len(b))
<1> DEFINE end == CsiEnd(b, intro)
           csi == ParseCsi(b, intro, end)
<1>1. Len(b) \in Nat /\ intro \in 1..Len(b)
  OBVIOUS
<1>2. end = 0 \/ end \in intro + 1..Len(b)
  <2> DEFINE ends == {i \in DOMAIN b : i > intro /\ b[i] \in 64..127}
  <2>1. ends \in SUBSET Nat /\ ends \subseteq intro + 1..Len(b)
    OBVIOUS
  <2>2. CsiEnd(b, intro) = IF ends = {} THEN 0 ELSE Min(ends)
    BY DEF CsiEnd
  <2> HIDE DEF ends
  <2> QED BY <2>1, <2>2, MinOf
<1> HIDE DEF end
<1>3. CASE end = 0
  <2>1. PeekCsi(b, intro, force, junk) \in {Again, Found(Adding(Emit(91), {Alt}), intro)}
    BY <1>3 DEF PeekCsi, end
  <2> QED BY <1>1, <2>1, SoundNothing, SoundKey
<1>4. CASE end # 0
  <2>1. PeekCsi(b, intro, force, junk) = TakeCsi(b, intro, end, csi, junk)
    BY <1>4 DEF PeekCsi, end
  <2> HIDE DEF csi
  <2>2. TakeCsi(b, intro, end, csi, junk)
          \in {PeekMouse(b, end), Found(HandleCsi(csi, junk), end),
               Result("KEY", Report("unknown", <<csi.cmd>>), intro, end - intro, 0)}
    BY Zenon DEF TakeCsi
  <2>3. end \in Nat /\ end \in 1..Len(b) /\ end - intro \in 0..Len(b) - intro
    BY <1>1, <1>2, <1>4
  <2> QED BY <1>1, <2>1, <2>2, <2>3, MouseSound, SoundKey, SoundResult
<1> QED BY <1>3, <1>4

LEMMA Ss3Sound ==
  ASSUME NEW b \in Seq(Byte), NEW intro \in 1..Len(b), NEW force \in BOOLEAN
  PROVE  Sound(PeekSs3(b, intro, force), Len(b))
<1>1. Len(b) \in Nat /\ intro \in 1..Len(b)
  OBVIOUS
<1>2. CASE Len(b) = intro
  <2>1. PeekSs3(b, intro, force) \in {Again, Found(Adding(Emit(79), {Alt}), intro)}
    BY <1>2 DEF PeekSs3
  <2> QED BY <1>1, <2>1, SoundNothing, SoundKey
<1>3. CASE Len(b) # intro
  <2>1. PeekSs3(b, intro, force)
          \in {None, Found(CsiKeys[b[intro + 1]], intro + 1),
               Found(KeypadKeys[b[intro + 1]], intro + 1)}
    BY <1>3 DEF PeekSs3
  <2>2. intro + 1 \in 1..Len(b)
    BY <1>1, <1>3
  <2> QED BY <1>1, <2>1, <2>2, SoundNothing, SoundKey
<1> QED BY <1>2, <1>3

LEMMA SequenceSound ==
  ASSUME NEW b \in Seq(Byte), b # <<>>, NEW force \in BOOLEAN, NEW junk
  PROVE  Sound(PeekSequence(b, force, junk), Len(b))
<1>1. Len(b) \in Nat /\ 1 \in 1..Len(b) /\ (Len(b) > 1 => 2 \in 1..Len(b))
  OBVIOUS
<1>2. \/ Len(b) > 1 /\ PeekSequence(b, force, junk) = PeekCsi(b, 2, force, junk)
      \/ PeekSequence(b, force, junk) = PeekCsi(b, 1, force, junk)
      \/ Len(b) > 1 /\ PeekSequence(b, force, junk) = PeekSs3(b, 2, force)
      \/ PeekSequence(b, force, junk) = PeekSs3(b, 1, force)
      \/ PeekSequence(b, force, junk) = None
  BY DEF PeekSequence
<1> QED BY <1>1, <1>2, CsiSound, Ss3Sound, SoundNothing

LEMMA Utf8Sound ==
  ASSUME NEW b \in Seq(Byte), b # <<>>, NEW force \in BOOLEAN
  PROVE  Sound(PeekUtf8(b, force), Len(b))
<1> DEFINE n == Announced(b[1])
           bad == {i \in 2..n : i <= Len(b) /\ ~Continues(b[i])}
<1>1. Len(b) \in Nat /\ Len(b) \in 1..Len(b) /\ n \in 1..6
  BY DEF Announced
<1>2. \/ bad # {} /\ PeekUtf8(b, force) = Plain(Emit(Invalid), Min(bad) - 1)
      \/ PeekUtf8(b, force) = Again
      \/ PeekUtf8(b, force) = Plain(Emit(Invalid), Len(b))
      \/ ~(Len(b) < n) /\ PeekUtf8(b, force) = Plain(Utf8Key(b, n), n)
  BY DEF PeekUtf8
<1>3. bad # {} => Min(bad) - 1 \in 1..Len(b)
  <2>1. bad \in SUBSET Nat /\ \A i \in bad : i - 1 \in 1..Len(b)
    BY <1>1
  <2> HIDE DEF bad
  <2> QED BY <2>1, MinOf
<1>4. ~(Len(b) < n) => n \in 1..Len(b)
  BY <1>1
<1> HIDE DEF n, bad
<1> QED BY <1>1, <1>2, <1>3, <1>4, SoundNothing, SoundKey

LEMMA KeySound ==
  ASSUME NEW b \in Seq(Byte), NEW force \in BOOLEAN, NEW junk, NEW behind,
         Len(b) > 1 => Sound(behind, Len(b) - 1)
  PROVE  Sound(PeekKey(b, force, junk, behind), Len(b))
<1>1. Len(b) \in Nat
  OBVIOUS
<1>2. CASE b = <<>>
  BY <1>1, <1>2, SoundNothing DEF PeekKey
<1>3. CASE b # <<>>
  <2>1. PeekKey(b, force, junk, behind)
          \in {PeekTerminfo(b, force), PeekSequence(b, force, junk), Again,
               PeekSimple(b, force, behind)}
    BY <1>3, Zenon DEF PeekKey
  <2>2. Sound(PeekSimple(b, force, behind), Len(b))
    <3>1. \/ PeekSimple(b, force, behind) = Again
          \/ Len(b) > 1 /\ PeekSimple(b, force, behind) = Meta(behind)
          \/ PeekSimple(b, force, behind) = PeekUtf8(b, force)
          \/ \E key : PeekSimple(b, force, behind) = Plain(key, 1)
      BY DEF PeekSimple
    <3>2. 1 \in 1..Len(b)
      BY <1>1, <1>3
    <3>3. Len(b) > 1 => Sound(Meta(behind), Len(b))
      <4> SUFFICES ASSUME Len(b) > 1 PROVE Sound(Meta(behind), Len(b))
        OBVIOUS
      <4>1. Len(b) - 1 \in Nat /\ Len(b) - 1 + 1 = Len(b)
        BY <1>1
      <4>2. Sound(Meta(behind), Len(b) - 1 + 1)
        BY <4>1, SoundMeta
      <4> QED BY <4>1, <4>2
    <3> QED BY <1>1, <1>3, <3>1, <3>2, <3>3, SoundNothing, SoundKey, Utf8Sound
  <2> QED BY <1>1, <1>3, <2>1, <2>2, TerminfoSound, SequenceSound, SoundNothing
<1> QED BY <1>2, <1>3

(* The recursion behind ESC has a value, and it is sound.                  *)
LEMMA PeekSound ==
  ASSUME NEW bytes \in Seq(Byte), NEW force \in BOOLEAN, NEW junk
  PROVE  Sound(Peek(bytes, force, junk), Len(bytes))
<1> DEFINE n == Len(bytes)
           W == 1..n + 1
           At1(i, behind) == PeekKey(SubSeq(bytes, i, n), force, junk, behind)
           Body(h) == [i \in W |-> At1(i, h[i + 1])]
           from == CHOOSE h : h = Body(h)
<1>1. n \in Nat
  OBVIOUS
<1>2. \A i \in W : /\ SubSeq(bytes, i, n) \in Seq(Byte)
                   /\ Len(SubSeq(bytes, i, n)) = n - i + 1
  <2> SUFFICES ASSUME NEW i \in W
               PROVE  /\ SubSeq(bytes, i, n) \in Seq(Byte)
                      /\ Len(SubSeq(bytes, i, n)) = n - i + 1
    OBVIOUS
  <2>1. \A j \in i..n : bytes[j] \in Byte
    OBVIOUS
  <2>2. /\ SubSeq(bytes, i, n) \in Seq(Byte)
        /\ Len(SubSeq(bytes, i, n)) = IF i <= n THEN n - i + 1 ELSE 0
    <3> HIDE DEF n
    <3> QED BY <1>1, <2>1, SubSeqProperties
  <2> QED BY <1>1, <2>2
<1>3. At1(n + 1, 0) = None /\ \A x, y : At1(n + 1, x) = At1(n + 1, y)
  <2>1. SubSeq(bytes, n + 1, n) = <<>>
    BY <1>1, <1>2
  <2> QED BY <2>1 DEF PeekKey
<1>4. ASSUME NEW i \in W, NEW behind, i < n => Sound(behind, n - i)
      PROVE  Sound(At1(i, behind), n - i + 1)
  <2>1. Len(SubSeq(bytes, i, n)) > 1 => Sound(behind, Len(SubSeq(bytes, i, n)) - 1)
    BY <1>1, <1>2, <1>4
  <2> QED BY <1>2, <2>1, KeySound
<1> HIDE DEF At1
<1> DEFINE Upto(h, k) == \A i \in W : n + 1 - i < k => h[i] = At1(i, h[i + 1])
           some == {k \in Nat : \E h : h = [i \in W |-> h[i]] /\ Upto(h, k)}
<1>5. \A k \in Nat : k \in some
  <2>1. 0 \in some
    <3> DEFINE h == [i \in W |-> 0]
    <3>1. h = [i \in W |-> h[i]] /\ Upto(h, 0)
      BY <1>1
    <3> QED BY <3>1
  <2>2. ASSUME NEW k \in Nat, k \in some PROVE k + 1 \in some
    <3>1. PICK f : f = [i \in W |-> f[i]] /\ Upto(f, k)
      BY <2>2
    <3> DEFINE g == [i \in W |-> IF n + 1 - i = k THEN At1(i, f[i + 1]) ELSE f[i]]
    <3>2. g = [i \in W |-> g[i]]
      OBVIOUS
    <3>3. ASSUME NEW i \in W, n + 1 - i < k + 1 PROVE g[i] = At1(i, g[i + 1])
      <4>1. At1(i, g[i + 1]) = At1(i, f[i + 1])
        <5>1. CASE i = n + 1
          <6> HIDE DEF g
          <6> QED BY <1>3, <5>1
        <5>2. CASE i # n + 1
          <6>1. i + 1 \in W /\ n + 1 - (i + 1) # k
            BY <1>1, <3>3, <5>2
          <6> QED BY <6>1
        <5> QED BY <5>1, <5>2
      <4>2. n + 1 - i # k => f[i] = At1(i, f[i + 1])
        <5>1. n + 1 - i # k => n + 1 - i < k
          BY <1>1, <3>3
        <5>2. Upto(f, k)
          BY <3>1
        <5> QED BY <5>1, <5>2
      <4> QED BY <4>1, <4>2
    <3>4. Upto(g, k + 1)
      BY <3>3
    <3> HIDE DEF g, Upto
    <3>5. \E h : h = [i \in W |-> h[i]] /\ Upto(h, k + 1)
      BY <3>2, <3>4
    <3> QED BY <3>5
  <2> HIDE DEF some
  <2> QED BY <2>1, <2>2, SetInduction
<1>6. \E h : h = Body(h)
  <2>1. n + 2 \in some
    <3> HIDE DEF some
    <3> QED BY <1>1, <1>5
  <2>2. PICK h : h = [i \in W |-> h[i]] /\ Upto(h, n + 2)
    BY <2>1
  <2>3. \A i \in W : h[i] = At1(i, h[i + 1])
    <3>1. \A i \in W : n + 1 - i < n + 2
      BY <1>1
    <3>2. Upto(h, n + 2)
      BY <2>2
    <3> QED BY <3>1, <3>2
  <2>4. h = Body(h)
    BY <2>2, <2>3
  <2> HIDE DEF Body
  <2> QED BY <2>4
<1>7. from = Body(from)
  <2> HIDE DEF Body
  <2> QED BY <1>6
<1>8. Peek(bytes, force, junk) = from[1]
  BY Zenon DEF Peek, At1
<1> HIDE DEF from
<1>9. \A i \in W : from[i] = At1(i, from[i + 1])
  BY <1>7
<1> DEFINE ok == {k \in Nat : k <= n => Sound(from[n + 1 - k], k)}
<1>10. 0 \in ok
  <2>1. Sound(At1(n + 1, from[n + 2]), n - (n + 1) + 1)
    BY <1>1, <1>4
  <2>2. n + 1 \in W /\ n + 1 + 1 = n + 2 /\ n - (n + 1) + 1 = 0 /\ n + 1 - 0 = n + 1
    BY <1>1
  <2> QED BY <1>9, <2>1, <2>2
<1>11. ASSUME NEW k \in Nat, k \in ok PROVE k + 1 \in ok
  <2> SUFFICES ASSUME k + 1 <= n PROVE Sound(from[n + 1 - (k + 1)], k + 1)
    BY <1>11
  <2> DEFINE i == n - k
  <2>1. /\ i \in W /\ i + 1 = n + 1 - k /\ n - i = k /\ n + 1 - (k + 1) = i /\ n - i + 1 = k + 1
        /\ k <= n
    BY <1>1
  <2>2. Sound(from[i + 1], n - i)
    BY <1>11, <2>1
  <2>3. Sound(At1(i, from[i + 1]), n - i + 1)
    <3> HIDE DEF i
    <3> QED BY <1>4, <2>1, <2>2
  <2> QED BY <1>9, <2>1, <2>3
<1>12. \A k \in Nat : k \in ok
  <2> HIDE DEF ok
  <2> QED BY <1>10, <1>11, SetInduction
<1>13. n \in ok /\ n + 1 - n = 1
  BY <1>1, <1>12
<1> QED BY <1>1, <1>8, <1>13

-----------------------------------------------------------------------------
(* The buffer: what is in it is the end of what was accepted.              *)

BufferTyped ==
  /\ mem \in [0..BufSize - 1 -> Byte]
  /\ start \in Int /\ count \in 0..BufSize /\ tide \in 0..count
  /\ fromTerm \in Seq(Byte) /\ accepted \in Seq(Byte)
  /\ taken \in Nat /\ taken + count = Len(accepted)

(* The bytes from place from on of memory m are the last n accepted. *)
Holds(m, from, n) ==
  /\ from + n <= BufSize
  /\ \A i \in 0..n - 1 : m[from + i] = accepted[Len(accepted) - n + 1 + i]

BufferInv == BufferTyped /\ (Inside => Holds(mem, start, count))

LEMMA SizeOfBuffer ==
  /\ BufSize \in Nat /\ BufSize \div 2 \in Nat /\ 2 * (BufSize \div 2) = BufSize
  /\ \A i \in 0..BufSize - 1 : i >= 0
BY InputAssumption DEF InputAssumption

(* The bytes a peek looks at are bytes, and as many as there are.          *)
LEMMA PeekBufferSound ==
  ASSUME BufferInv, Inside, NEW force \in BOOLEAN, NEW junk
  PROVE  Sound(PeekBuffer(force, junk), count - tide)
<1> DEFINE bytes == SubSeq(Pending, tide + 1, count)
<1>1. /\ start \in Nat /\ count \in Nat /\ tide \in 0..count /\ start + count <= BufSize
      /\ mem \in [0..BufSize - 1 -> Byte] /\ BufSize \in Nat
  BY SizeOfBuffer DEF BufferInv, BufferTyped, Inside, Holds
<1>2. \A i \in 1..count : Pending[i] \in Byte
  BY <1>1 DEF Pending
<1>3. bytes \in Seq(Byte) /\ Len(bytes) = count - tide
  <2>1. \A i \in tide + 1..count : Pending[i] \in Byte
    BY <1>1, <1>2
  <2>2. tide + 1 \in Int /\ count \in Int
    BY <1>1
  <2>3. /\ bytes \in Seq(Byte)
        /\ Len(bytes) = IF tide + 1 <= count THEN count - (tide + 1) + 1 ELSE 0
    BY <2>1, <2>2, SubSeqProperties
  <2> HIDE DEF bytes
  <2> QED BY <1>1, <2>3
<1> HIDE DEF bytes
<1> QED BY <1>3, PeekSound DEF PeekBuffer, bytes

(* Memory after a peek: the ends of what it does not skip are still there, *)
(* those at least that begin in the buffer.                                *)
LEMMA Slides ==
  ASSUME BufferInv, Inside, NEW at \in Int, at >= -1
  PROVE  /\ Slid(at).mem \in [0..BufSize - 1 -> Byte] /\ Slid(at).start \in Int
         /\ \A n \in 0..count - tide :
              LET from == Slid(at).start + (count - tide - n)
              IN  from >= 0 => Holds(Slid(at).mem, from, n)
<1> DEFINE half == BufSize \div 2
           moved == [i \in DOMAIN mem |-> IF i < half THEN mem[i + half] ELSE mem[i]]
<1>1. /\ start \in Nat /\ count \in Nat /\ tide \in 0..count /\ start + count <= BufSize
      /\ mem \in [0..BufSize - 1 -> Byte] /\ DOMAIN mem = 0..BufSize - 1
      /\ BufSize \in Nat /\ half \in Nat /\ 2 * half = BufSize
      /\ accepted \in Seq(Byte) /\ Len(accepted) \in Nat
  BY SizeOfBuffer DEF BufferInv, BufferTyped, Inside, Holds
<1>2. \A n \in 0..count - tide :
        LET from == start + tide + (count - tide - n)
        IN  /\ from + n <= BufSize
            /\ \A i \in 0..n - 1 : mem[from + i] = accepted[Len(accepted) - n + 1 + i]
  <2> SUFFICES ASSUME NEW n \in 0..count - tide
               PROVE  /\ start + tide + (count - tide - n) + n <= BufSize
                      /\ \A i \in 0..n - 1 :
                           mem[start + tide + (count - tide - n) + i]
                             = accepted[Len(accepted) - n + 1 + i]
    OBVIOUS
  <2>1. ASSUME NEW i \in 0..n - 1
        PROVE  mem[start + tide + (count - tide - n) + i] = accepted[Len(accepted) - n + 1 + i]
    <3>1. /\ count - n + i \in 0..count - 1
          /\ start + tide + (count - tide - n) + i = start + (count - n + i)
          /\ Len(accepted) - count + 1 + (count - n + i) = Len(accepted) - n + 1 + i
      BY <1>1
    <3>2. \A j \in 0..count - 1 : mem[start + j] = accepted[Len(accepted) - count + 1 + j]
      BY DEF BufferInv, Holds
    <3> QED BY <3>1, <3>2
  <2> QED BY <1>1, <2>1
<1>3. CASE at >= 0 /\ start + tide + at > half
  <2>1. Slid(at) = [mem |-> moved, start |-> start + tide - half]
    BY <1>3 DEF Slid
  <2>2. /\ moved \in [0..BufSize - 1 -> Byte]
        /\ \A i \in 0..half - 1 : moved[i] = mem[i + half]
    BY <1>1
  <2> HIDE DEF moved, half
  <2>3. ASSUME NEW n \in 0..count - tide, start + tide - half + (count - tide - n) >= 0
        PROVE  Holds(moved, start + tide - half + (count - tide - n), n)
    <3> DEFINE from == start + tide + (count - tide - n)
    <3>1. /\ from + n <= BufSize
          /\ \A i \in 0..n - 1 : mem[from + i] = accepted[Len(accepted) - n + 1 + i]
      BY <1>2
    <3>2. /\ from \in Int /\ start + tide - half + (count - tide - n) = from - half
          /\ from - half >= 0
      BY <1>1, <2>3
    <3> HIDE DEF from
    <3>3. ASSUME NEW i \in 0..n - 1 PROVE moved[from - half + i] = mem[from + i]
      <4>1. from - half + i \in 0..half - 1 /\ from - half + i + half = from + i
        BY <1>1, <3>1, <3>2
      <4> QED BY <2>2, <4>1
    <3>4. from - half + n <= BufSize
      BY <1>1, <3>1, <3>2
    <3> QED BY <3>1, <3>2, <3>3, <3>4 DEF Holds
  <2>4. start + tide - half \in Int
    BY <1>1
  <2> QED BY <2>1, <2>2, <2>3, <2>4
<1>4. CASE ~(at >= 0 /\ start + tide + at > half)
  <2>1. Slid(at) = [mem |-> mem, start |-> start + tide]
    BY <1>4 DEF Slid
  <2>2. Slid(at).mem = mem /\ Slid(at).start = start + tide
    BY <2>1
  <2>3. \A n \in 0..count - tide : Holds(mem, start + tide + (count - tide - n), n)
    BY <1>2 DEF Holds
  <2> QED BY <1>1, <2>2, <2>3
<1> QED BY <1>3, <1>4

LEMMA TakeBuffer ==
  ASSUME BufferInv, Inside, NEW r, Sound(r, count - tide), r.res = "KEY", TakeKey(r),
         UNCHANGED <<fromTerm, accepted>>
  PROVE  BufferInv'
<1> DEFINE bytes == count - tide - r.len
<1>1. /\ r.len \in Nat /\ r.tide \in Nat /\ r.at \in Int /\ r.at >= -1
      /\ 1 <= r.len /\ r.len + r.tide <= count - tide /\ r.at < r.len
      /\ count \in Nat /\ tide \in 0..count /\ BufSize \in Nat /\ count <= BufSize
      /\ taken \in Nat /\ taken + count = Len(accepted)
      /\ accepted \in Seq(Byte) /\ Len(accepted) \in Nat
  BY SizeOfBuffer DEF Sound, BufferInv, BufferTyped
<1>2. /\ mem' = Slid(r.at).mem /\ count' = bytes /\ tide' = r.tide
      /\ taken' = taken + tide + r.len
      /\ start' = IF bytes = 0 THEN 0 ELSE Slid(r.at).start + r.len
  BY DEF TakeKey
<1>3. /\ Slid(r.at).mem \in [0..BufSize - 1 -> Byte] /\ Slid(r.at).start \in Int
      /\ \A n \in 0..count - tide :
           LET from == Slid(r.at).start + (count - tide - n)
           IN  from >= 0 => Holds(Slid(r.at).mem, from, n)
  BY <1>1, Slides
<1>4. bytes \in 0..count - tide /\ count - tide - bytes = r.len
  <2>1. PICK n \in Nat, t \in Nat, k \in Nat : n = count /\ t = tide /\ k = r.len
    <3>1. count \in Nat /\ tide \in Nat /\ r.len \in Nat
      BY <1>1
    <3> QED BY ONLY <3>1
  <2>2. k <= n - t
    BY <1>1, <2>1
  <2>3. n - t - k \in 0..n - t /\ n - t - (n - t - k) = k
    BY ONLY <2>2
  <2> QED BY <2>1, <2>3
<1>5. BufferTyped'
  <2>1. start' \in Int
    BY <1>1, <1>2, <1>3
  <2>2. count' \in 0..BufSize /\ tide' \in 0..count' /\ taken' \in Nat
        /\ taken' + count' = Len(accepted')
    <3>0. /\ count \in Nat /\ tide \in Nat /\ r.len \in Nat /\ r.tide \in Nat
          /\ taken \in Nat /\ BufSize \in Nat
      BY <1>1
    <3>1. PICK n \in Nat, t \in Nat, k \in Nat, over \in Nat, done \in Nat, most \in Nat :
            /\ n = count /\ t = tide /\ k = r.len /\ over = r.tide /\ done = taken /\ most = BufSize
      BY ONLY <3>0
    <3>2. /\ t <= n /\ n <= most /\ k + over <= n - t /\ done + n = Len(accepted)
      BY <1>1, <3>1
    <3>3. count' = n - t - k /\ tide' = over /\ taken' = done + t + k /\ accepted' = accepted
      BY <1>2, <3>1
    <3>4. n - t - k \in 0..most /\ over \in 0..(n - t - k) /\ done + t + k \in Nat
          /\ (done + t + k) + (n - t - k) = done + n
      BY ONLY <3>2
    <3> HIDE DEF bytes
    <3> QED BY ONLY <3>1, <3>2, <3>3, <3>4
  <2> QED BY <1>2, <1>3, <2>1, <2>2 DEF BufferTyped, BufferInv
<1>6. ASSUME Inside' PROVE Holds(mem', start', count')
  <2>1. CASE bytes = 0
    <3>1. start' = 0 /\ count' = 0
      BY <1>2, <2>1
    <3> QED BY <1>1, <3>1 DEF Holds
  <2>2. CASE bytes # 0
    <3> HIDE DEF bytes
    <3>1. start' = Slid(r.at).start + (count - tide - bytes) /\ start' >= 0
      BY <1>2, <1>4, <1>6, <2>2 DEF Inside
    <3> QED BY <1>2, <1>3, <1>4, <3>1
  <2> QED BY <2>1, <2>2
<1>7. Holds(mem', start', count') => Holds(mem, start, count)'
  BY DEF Holds
<1> QED BY <1>5, <1>6, <1>7 DEF BufferInv

LEMMA LeaveBuffer ==
  ASSUME BufferInv, Inside, NEW r, Sound(r, count - tide), LeaveKey(r),
         UNCHANGED <<fromTerm, accepted>>
  PROVE  BufferInv'
<1>1. /\ r.len \in Nat /\ r.tide \in 0..count - tide /\ r.at \in Int /\ r.at >= -1
      /\ count \in Nat /\ tide \in 0..count /\ BufSize \in Nat /\ count <= BufSize
      /\ taken \in Nat /\ taken + count = Len(accepted)
  BY SizeOfBuffer DEF Sound, BufferInv, BufferTyped
<1>2. /\ mem' = Slid(r.at).mem /\ count' = count - tide /\ tide' = r.tide
      /\ taken' = taken + tide /\ start' = Slid(r.at).start
  BY DEF LeaveKey
<1>3. /\ Slid(r.at).mem \in [0..BufSize - 1 -> Byte] /\ Slid(r.at).start \in Int
      /\ \A n \in 0..count - tide :
           LET from == Slid(r.at).start + (count - tide - n)
           IN  from >= 0 => Holds(Slid(r.at).mem, from, n)
  BY <1>1, Slides
<1>4. BufferTyped'
  <2>1. count' \in 0..BufSize /\ tide' \in 0..count' /\ taken' \in Nat
        /\ taken' + count' = Len(accepted')
    BY <1>1, <1>2
  <2> QED BY <1>2, <1>3, <2>1 DEF BufferTyped, BufferInv
<1>5. ASSUME Inside' PROVE Holds(mem', start', count')
  <2>1. count' \in 0..count - tide /\ start' = Slid(r.at).start + (count - tide - count')
    BY <1>1, <1>2, <1>3
  <2>2. start' >= 0
    BY <1>5 DEF Inside
  <2> QED BY <1>2, <1>3, <2>1, <2>2
<1>6. Holds(mem', start', count') => Holds(mem, start, count)'
  BY DEF Holds
<1> QED BY <1>4, <1>5, <1>6 DEF BufferInv

LEMMA AcceptBuffer ==
  ASSUME BufferInv, NEW bytes \in Seq(Byte), Len(bytes) <= Room, Accept(bytes),
         fromTerm' \in Seq(Byte), UNCHANGED <<tide, taken>>
  PROVE  BufferInv'
<1>0. PICK n \in Nat : n = Len(bytes)
  OBVIOUS
<1>1. /\ start \in Nat /\ count \in Nat /\ start + count <= BufSize /\ tide \in 0..count
      /\ mem \in [0..BufSize - 1 -> Byte] /\ DOMAIN mem = 0..BufSize - 1
      /\ BufSize \in Nat /\ n \in Nat /\ count + n <= BufSize
      /\ taken \in Nat /\ taken + count = Len(accepted) /\ Len(accepted) \in Nat
      /\ accepted \in Seq(Byte)
      /\ \A i \in 1..n : bytes[i] \in Byte
  <2>1. Inside /\ n <= BufSize - count /\ \A i \in 1..n : bytes[i] \in Byte
    BY <1>0 DEF Accept, Room
  <2> QED BY <2>1, SizeOfBuffer DEF BufferInv, BufferTyped, Inside, Holds
<1>2. /\ mem' = [i \in DOMAIN mem |->
                  CASE i < count -> mem[start + i]
                    [] i \in count..(count + n - 1) -> bytes[i - count + 1]
                    [] OTHER -> mem[i]]
      /\ start' = 0 /\ count' = count + n /\ accepted' = accepted \o bytes
  BY <1>0 DEF Accept
<1>3. /\ accepted' \in Seq(Byte) /\ Len(accepted') = Len(accepted) + n
      /\ \A i \in 1..Len(accepted) + n :
           accepted'[i] = IF i <= Len(accepted) THEN accepted[i] ELSE bytes[i - Len(accepted)]
  BY <1>0, <1>1, <1>2, ConcatProperties
<1>4. PICK put : /\ put = mem' /\ put = [i \in 0..BufSize - 1 |-> put[i]]
                 /\ \A i \in 0..BufSize - 1 :
                      /\ i < count => put[i] = mem[start + i]
                      /\ i >= count /\ i < count + n => put[i] = bytes[i - count + 1]
                      /\ i >= count + n => put[i] = mem[i]
  <2> DEFINE f == [i \in 0..BufSize - 1 |->
                     CASE i < count -> mem[start + i]
                       [] i \in count..(count + n - 1) -> bytes[i - count + 1]
                       [] OTHER -> mem[i]]
  <2>1. mem' = f
    BY <1>1, <1>2, Zenon
  <2>2. f = [i \in 0..BufSize - 1 |-> f[i]]
    OBVIOUS
  <2>3. ASSUME NEW i \in 0..BufSize - 1
        PROVE  /\ i < count => f[i] = mem[start + i]
               /\ i >= count /\ i < count + n => f[i] = bytes[i - count + 1]
               /\ i >= count + n => f[i] = mem[i]
    <3>1. /\ i >= count /\ i < count + n <=> i \in count..(count + n - 1)
          /\ i >= count + n => ~(i < count) /\ i \notin count..(count + n - 1)
          /\ i >= count => ~(i < count)
      BY <1>1
    <3> QED BY <3>1
  <2> HIDE DEF f
  <2> QED BY <2>1, <2>2, <2>3
<1>5. put \in [0..BufSize - 1 -> Byte]
  <2>1. ASSUME NEW i \in 0..BufSize - 1 PROVE put[i] \in Byte
    <3>1. CASE i < count
      <4>1. start + i \in 0..BufSize - 1
        BY <1>1, <3>1
      <4> QED BY <1>1, <1>4, <3>1, <4>1
    <3>2. CASE i >= count /\ i < count + n
      <4>1. i - count + 1 \in 1..n
        BY <1>1, <3>2
      <4> QED BY <1>1, <1>4, <3>2, <4>1
    <3>3. CASE i >= count + n
      BY <1>1, <1>4, <3>3
    <3> QED BY <1>1, <3>1, <3>2, <3>3
  <2> QED BY <1>4, <2>1
<1>6. BufferTyped'
  <2>1. /\ start' \in Int /\ count' \in 0..BufSize /\ tide' \in 0..count' /\ taken' \in Nat
        /\ taken' + count' = Len(accepted')
    BY <1>1, <1>2, <1>3
  <2> QED BY <1>2, <1>3, <1>4, <1>5, <2>1 DEF BufferTyped
<1>7. ASSUME NEW i \in 0..count + n - 1
      PROVE  put[i] = accepted'[Len(accepted) - count + 1 + i]
  <2> DEFINE k == Len(accepted) - count + 1 + i
  <2>1. /\ i \in 0..BufSize - 1 /\ i >= 0 /\ i < count + n
        /\ k \in 1..Len(accepted) + n /\ k - Len(accepted) = i - count + 1
        /\ k <= Len(accepted) <=> i < count
    BY <1>1
  <2>2. CASE i < count
    <3>1. \A j \in 0..count - 1 : mem[start + j] = accepted[Len(accepted) - count + 1 + j]
      BY DEF BufferInv, Accept, Holds
    <3>2. i \in 0..count - 1
      BY <1>1, <2>1, <2>2
    <3>3. mem[start + i] = accepted[k]
      BY <3>1, <3>2
    <3> HIDE DEF k
    <3> QED BY <1>3, <1>4, <2>1, <2>2, <3>3 DEF k
  <2>3. CASE i >= count
    <3> HIDE DEF k
    <3>1. ~(k <= Len(accepted))
      BY <1>1, <2>1, <2>3
    <3>2. accepted'[k] = bytes[i - count + 1]
      BY <1>3, <2>1, <3>1
    <3>3. put[i] = bytes[i - count + 1]
      BY <1>4, <2>1, <2>3
    <3> QED BY <3>2, <3>3 DEF k
  <2> QED BY <1>1, <2>1, <2>2, <2>3
<1>8. Inside' => Holds(mem, start, count)'
  <2>1. /\ Len(accepted') = Len(accepted) + n /\ count' = count + n /\ start' = 0 /\ mem' = put
    BY <1>2, <1>3, <1>4
  <2>2. (Len(accepted) + n) - (count + n) + 1 = Len(accepted) - count + 1
    BY <1>1
  <2>3. \A i \in 0..count + n - 1 : 0 + i = i
    BY <1>1
  <2>4. 0 + (count + n) <= BufSize
    BY <1>1
  <2>5. ASSUME NEW i \in 0..(count + n) - 1
        PROVE  put[0 + i] = accepted'[(Len(accepted) + n) - (count + n) + 1 + i]
    <3>0. i \in 0..count + n - 1
      BY <1>1
    <3>1. put[i] = accepted'[Len(accepted) - count + 1 + i]
      BY <1>7, <3>0
    <3> QED BY <2>2, <2>3, <3>0, <3>1
  <2> QED BY ONLY <2>1, <2>4, <2>5, Zenon DEF Holds
<1> QED BY <1>6, <1>8 DEF BufferInv

(* What a read or a push brings: no more than there is room for. *)
LEMMA InputBuffer ==
  ASSUME BufferInv, Input
  PROVE  BufferInv'
<1>1. /\ Room \in Nat /\ fromTerm \in Seq(Byte) /\ Len(fromTerm) \in Nat
      /\ UNCHANGED <<tide, taken>>
  BY SizeOfBuffer DEF BufferInv, BufferTyped, Room, Input
<1>2. ASSUME NEW n \in 0..Len(fromTerm), NEW m \in 0..Len(fromTerm), m <= Room,
             Accept(SubSeq(fromTerm, 1, m)),
             fromTerm' = SubSeq(fromTerm, n + 1, Len(fromTerm))
      PROVE  BufferInv'
  <2>1. \A i \in 1..Len(fromTerm) : fromTerm[i] \in Byte
    BY <1>1
  <2>2. \A i \in 1..m : fromTerm[i] \in Byte
    BY <1>1, <2>1
  <2>3. /\ SubSeq(fromTerm, 1, m) \in Seq(Byte)
        /\ Len(SubSeq(fromTerm, 1, m)) = IF 1 <= m THEN m - 1 + 1 ELSE 0
    BY <2>2, SubSeqProperties
  <2>4. \A i \in n + 1..Len(fromTerm) : fromTerm[i] \in Byte
    BY <1>1, <2>1
  <2>5. fromTerm' \in Seq(Byte)
    <3>1. n + 1 \in Int /\ Len(fromTerm) \in Int
      BY <1>1
    <3> QED BY <1>2, <2>4, <3>1, SubSeqProperties
  <2>6. Len(SubSeq(fromTerm, 1, m)) <= Room
    BY <1>1, <1>2, <2>3
  <2> QED BY <1>1, <1>2, <2>3, <2>5, <2>6, AcceptBuffer
<1>3. ASSUME Accept(<<>>), UNCHANGED fromTerm PROVE BufferInv'
  <2>1. <<>> \in Seq(Byte) /\ Len(<<>>) <= Room /\ fromTerm' \in Seq(Byte)
    BY <1>1, <1>3
  <2> QED BY <1>1, <1>3, <2>1, AcceptBuffer
<1>4. CASE Push
  <2>1. PICK n \in 1..Len(fromTerm) :
          /\ Accept(SubSeq(fromTerm, 1, IF n < Room THEN n ELSE Room))
          /\ fromTerm' = SubSeq(fromTerm, n + 1, Len(fromTerm))
    BY <1>4 DEF Push
  <2>2. PICK m \in 0..Len(fromTerm) : m <= Room /\ m = IF n < Room THEN n ELSE Room
    BY <1>1
  <2>3. n \in 0..Len(fromTerm)
    BY <1>1
  <2> QED BY <1>2, <2>1, <2>2, <2>3
<1>5. CASE Advise
  <2>1. \/ Accept(<<>>) /\ UNCHANGED fromTerm
        \/ \E n \in 1..Room : /\ n <= Len(fromTerm)
                               /\ Accept(SubSeq(fromTerm, 1, n))
                               /\ fromTerm' = SubSeq(fromTerm, n + 1, Len(fromTerm))
    BY <1>5 DEF Advise
  <2>2. \A n \in 1..Room : n <= Len(fromTerm) => n \in 0..Len(fromTerm) /\ n <= Room
    BY <1>1
  <2> QED BY <1>2, <1>3, <2>1, <2>2
<1>6. CASE NothingCame
  BY <1>1, <1>6 DEF NothingCame, BufferInv, BufferTyped, Inside, Holds
<1> QED BY <1>4, <1>5, <1>6 DEF Input

LEMMA KeysBuffer ==
  ASSUME BufferInv, GetKey \/ Timer
  PROVE  BufferInv'
<1>1. UNCHANGED <<fromTerm, accepted>>
  BY DEF GetKey, Timer, outside
<1>2. ASSUME Inside, NEW force \in BOOLEAN, NEW r \in Peeks(force)
      PROVE  /\ Sound(r, count - tide)
             /\ r.res = "KEY" /\ TakeKey(r) => BufferInv'
             /\ LeaveKey(r) => BufferInv'
  <2>1. Sound(r, count - tide)
    BY <1>2, PeekBufferSound DEF Peeks
  <2> QED BY <1>1, <1>2, <2>1, TakeBuffer, LeaveBuffer
<1>3. CASE GetKey
  <2>1. Inside
    BY <1>3 DEF GetKey
  <2>2. PICK r \in Peeks(FALSE) :
          \/ r.res = "KEY" /\ TakeKey(r)
          \/ \E again \in (IF r.res = "AGAIN" THEN Peeks(TRUE) ELSE {r}) : LeaveKey(again)
    BY <1>3 DEF GetKey
  <2> QED BY <1>2, <2>1, <2>2
<1>4. CASE Timer
  <2>1. \/ UNCHANGED <<buffer, taken>>
        \/ Inside /\ \E r \in Peeks(TRUE) : \/ r.res = "KEY" /\ TakeKey(r)
                                            \/ LeaveKey(r)
    BY <1>4 DEF Timer
  <2>2. CASE UNCHANGED <<buffer, taken>>
    BY <1>1, <2>2 DEF buffer, BufferInv, BufferTyped, Inside, Holds
  <2> QED BY <1>2, <2>1, <2>2
<1> QED BY <1>3, <1>4

LEMMA InitBuffer == Init => BufferInv
<1> SUFFICES ASSUME Init PROVE BufferInv
  OBVIOUS
<1>1. BufSize \in Nat /\ 0 \in Byte
  BY SizeOfBuffer DEF Byte
<1>2. mem \in [0..BufSize - 1 -> Byte]
  BY <1>1 DEF Init
<1>3. fromTerm \in Seq(Byte)
  BY InputAssumption DEF InputAssumption, Init
<1>4. start = 0 /\ count = 0 /\ tide = 0 /\ accepted = <<>> /\ taken = 0
  BY DEF Init
<1> QED BY <1>1, <1>2, <1>3, <1>4 DEF BufferInv, BufferTyped, Inside, Holds

LEMMA StepBuffer == BufferInv /\ [Next]_vars => BufferInv'
<1> SUFFICES ASSUME BufferInv, [Next]_vars PROVE BufferInv'
  OBVIOUS
<1>1. ASSUME UNCHANGED <<mem, start, count, tide, fromTerm, accepted, taken>>
      PROVE  BufferInv'
  BY <1>1 DEF BufferInv, BufferTyped, Inside, Holds
<1>2. CASE PushBytes \/ Readable \/ CheckTimeout \/ Wait
  BY <1>1, <1>2 DEF PushBytes, Readable, CheckTimeout, Wait, Enter, buffer, outside, ghosts
<1>3. CASE CheckResize \/ Handled \/ Tick \/ WindowResized \/ Sigwinch
  BY <1>1, <1>3 DEF CheckResize, Handled, Tick, WindowResized, Sigwinch, buffer, outside, ghosts
<1>4. CASE UNCHANGED vars
  BY <1>1, <1>4 DEF vars, buffer, outside, ghosts
<1> QED BY <1>2, <1>3, <1>4, InputBuffer, KeysBuffer DEF Next

(* However much termkey.c slides, skips and eats, in calls that handlers   *)
(* make in the middle of others too: the bytes from buffstart on are those *)
(* that came and were not taken, in order, as long as buffstart is in the  *)
(* buffer (peekkey, termkey.c:821 and 845, eat_bytes, 597).                *)
THEOREM BytesStayInOrder == Spec => []BytesInOrder
<1>1. BufferInv => BytesInOrder
  <2> SUFFICES ASSUME BufferInv, Inside
               PROVE  Pending = SubSeq(accepted, taken + 1, Len(accepted))
    BY DEF BytesInOrder
  <2> DEFINE rest == SubSeq(accepted, taken + 1, Len(accepted))
  <2>1. /\ start \in Nat /\ count \in Nat /\ accepted \in Seq(Byte) /\ Len(accepted) \in Nat
        /\ taken \in Nat /\ taken + count = Len(accepted)
        /\ \A i \in 0..count - 1 : mem[start + i] = accepted[Len(accepted) - count + 1 + i]
    BY DEF BufferInv, BufferTyped, Inside, Holds
  <2>2. \A i \in taken + 1..Len(accepted) : accepted[i] \in Byte
    BY <2>1
  <2>3. /\ rest \in Seq(Byte)
        /\ Len(rest) = IF taken + 1 <= Len(accepted) THEN Len(accepted) - (taken + 1) + 1 ELSE 0
        /\ \A i \in 1..Len(accepted) - (taken + 1) + 1 : rest[i] = accepted[taken + 1 + i - 1]
    <3>1. taken + 1 \in Int /\ Len(accepted) \in Int
      BY <2>1
    <3> QED BY <2>2, <3>1, SubSeqProperties
  <2> HIDE DEF rest
  <2>4. Len(rest) = count /\ \A i \in 1..count : rest[i] = accepted[taken + i]
    BY <2>1, <2>3
  <2>5. ASSUME NEW i \in 1..count PROVE mem[start + i - 1] = rest[i]
    <3>1. /\ i - 1 \in 0..count - 1 /\ start + (i - 1) = start + i - 1
          /\ Len(accepted) - count + 1 + (i - 1) = taken + i
      BY <2>1
    <3> QED BY <2>1, <2>4, <3>1
  <2>6. rest = [i \in 1..count |-> rest[i]]
    BY <2>3, <2>4
  <2> QED BY <2>5, <2>6 DEF Pending, rest
<1> QED BY <1>1, InitBuffer, StepBuffer, PTL DEF Spec
=============================================================================
