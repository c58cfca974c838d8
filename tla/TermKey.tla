------------------------------- MODULE TermKey -------------------------------
(***************************************************************************)
(* How libtermkey cuts bytes into keys: the peekkey functions of           *)
(* terminal/libtermkey/termkey.c, driver-ti.c and driver-csi.c, on the     *)
(* bytes of the buffer, and what term.c makes an event of.                 *)
(*                                                                         *)
(* Bytes are numbers.  A key's modifiers are the set of its bits.          *)
(***************************************************************************)
EXTENDS Integers, SequencesExt

CONSTANTS
  Capabilities,  \* the key_ strings of the terminal's description, in order
  Utf8           \* TERMKEY_FLAG_UTF8

Byte == 0..255

ASSUME TermKeyAssumption ==
  /\ Utf8 \in BOOLEAN
  /\ \A i \in DOMAIN Capabilities :
       /\ Capabilities[i].seq \in Seq(Byte) \ {<<>>}
       /\ \A j \in 1..(i - 1) :
            ~IsStrictPrefix(Capabilities[j].seq, Capabilities[i].seq)

-----------------------------------------------------------------------------
(* Keys.                                                                   *)
Shift == 1
Alt   == 2
Ctrl  == 4

Bits(n) == {bit \in {1, 2, 4, 8} : (n \div bit) % 2 = 1}

(* What is named in keysyms: TermKeySym.                                   *)
Syms == <<"Backspace", "Tab", "Enter", "Escape", "Space", "DEL", "Up", "Down",
          "Left", "Right", "Begin", "Find", "Insert", "Delete", "Select",
          "PageUp", "PageDown", "Home", "End">>

KeySym(name, mods) ==
  [type |-> "keysym", mods |-> mods,
   code |-> <<CHOOSE i \in DOMAIN Syms : Syms[i] = name>>]
Function(n)      == [type |-> "function", mods |-> {}, code |-> <<n>>]
Unicode(n, mods) == [type |-> "unicode", mods |-> mods, code |-> <<n>>]
Report(type, code) == [type |-> type, mods |-> {}, code |-> code]
NoKey            == Report("none", <<>>)

(* termkey_key_set_linecol and _get_linecol, which swap the two.           *)
Clamped(n, max) == IF n > max THEN max ELSE n
Line(n)         == Clamped(n, 2047) % 1024
Column(n)       == Clamped(n, 4095) % 4096

(* The code of a mouse key: button bits, line, column, released.           *)
MouseKey(bits, line, column, released) ==
  [type |-> "mouse", mods |-> Bits((bits \div 4) % 8),
   code |-> <<(bits % 4) + 32 * (bits \div 32), line, column, released>>]

(* emit_codepoint, then termkey_canonicalise as get_termkey sets it up:    *)
(* DEL counts as Backspace, Space as text.                                 *)
Emit(n) ==
  CASE n = 8  -> KeySym("Backspace", {})
    [] n = 9  -> KeySym("Tab", {})
    [] n = 13 -> KeySym("Enter", {})
    [] n = 27 -> KeySym("Escape", {})
    [] n < 32 /\ n \notin {8, 9, 13, 27} ->
         Unicode(IF n \in 1..26 THEN n + 96 ELSE n + 64, {Ctrl})
    [] n = 127 -> KeySym("Backspace", {})
    [] n \in 128..159 -> Unicode(n - 64, {Ctrl, Alt})
    [] OTHER -> Unicode(n, {})

-----------------------------------------------------------------------------
(* What a peek finds: its result and key, the bytes to eat, those to skip  *)
(* before the next peek (hightide), and where a driver that found a key    *)
(* looked, -1 when none did.                                               *)
Result(res, key, len, tide, at) ==
  [res |-> res, key |-> key, len |-> len, tide |-> tide, at |-> at]
Again       == Result("AGAIN", NoKey, 0, 0, -1)
None        == Result("NONE", NoKey, 0, 0, -1)
Found(key, len) == Result("KEY", key, len, 0, 0)
Plain(key, len) == Result("KEY", key, len, 0, -1)

(* A bug for the mutant runs: a mouse report that is not all there is not  *)
(* waited for.                                                             *)
PeekMouseHasty(b, from) ==
  IF Len(b) < from + 3 THEN None
  ELSE Found(MouseKey(b[from + 1] - 32, (b[from + 3] - 32) % 256,
                      (b[from + 2] - 32) % 256, FALSE), from + 3)

(* peekkey_mouse, after the first from bytes.                              *)
PeekMouse(b, from) ==
  IF Len(b) < from + 3 THEN Again
  ELSE Found(MouseKey(b[from + 1] - 32, (b[from + 3] - 32) % 256,
                      (b[from + 2] - 32) % 256, FALSE), from + 3)

(* insert_seq: a string on the way to one already in the trie stays out.   *)
Inserted(i) ==
  \A j \in 1..(i - 1) : ~IsPrefix(Capabilities[i].seq, Capabilities[j].seq)

Trie == {Capabilities[i] : i \in {i \in DOMAIN Capabilities : Inserted(i)}}

(* peekkey of driver-ti.c.                                                 *)
PeekTerminfo(b, force) ==
  LET ends == {cap \in Trie : IsPrefix(cap.seq, b)}
  IN  IF ends # {}
      THEN LET cap == CHOOSE cap \in ends : TRUE
           IN  IF cap.key = NoKey THEN PeekMouse(b, Len(cap.seq))
               ELSE Found(cap.key, Len(cap.seq))
      ELSE IF ~force /\ \E cap \in Trie : IsPrefix(b, cap.seq) THEN Again
      ELSE None

-----------------------------------------------------------------------------
(* CSI sequences.                                                          *)

(* Known by their last byte: register_csi_ss3.                             *)
CsiKeys ==
  [c \in {65, 66, 67, 68, 69, 70, 72, 80, 81, 82, 83, 90} |->
     CASE c = 65 -> KeySym("Up", {})    [] c = 66 -> KeySym("Down", {})
       [] c = 67 -> KeySym("Right", {}) [] c = 68 -> KeySym("Left", {})
       [] c = 69 -> KeySym("Begin", {}) [] c = 70 -> KeySym("End", {})
       [] c = 72 -> KeySym("Home", {})  [] c = 90 -> KeySym("Tab", {Shift})
       [] OTHER -> Function(c - 79)]

(* Known by their number: register_csifunc.                                *)
FunctionNumbers == (1..8) \cup ((11..34) \ {16, 22, 27, 30})

CsiFunctions ==
  [n \in FunctionNumbers |->
     IF n > 8 THEN Function(Cardinality({m \in FunctionNumbers : m \in 11..n}))
     ELSE KeySym(<<"Find", "Insert", "Delete", "Select", "PageUp", "PageDown",
                   "Home", "End">>[n], {})]

Digit(c) == c \in 48..57

(* One turn of the loop over the parameters: numbers between semicolons,   *)
(* -1 for none; an intermediate byte, or a 17th semicolon, ends it.        *)
Parameter(p, c) ==
  CASE p.over -> p
    [] ~p.over /\ Digit(c) /\ ~p.present ->
         [p EXCEPT !.args = Append(@, c - 48), !.present = TRUE]
    [] ~p.over /\ Digit(c) /\ p.present ->
         [p EXCEPT !.args[Len(p.args)] = @ * 10 + c - 48]
    [] ~p.over /\ c = 59 ->
         [p EXCEPT !.args = IF p.present THEN @ ELSE Append(@, -1),
                   !.present = FALSE,
                   !.over = Len(p.args) + (IF p.present THEN 0 ELSE 1) > 16]
    [] ~p.over /\ c \in 32..47 -> [p EXCEPT !.inter = c, !.over = TRUE]
    [] OTHER -> p

(* The place of the last byte of a CSI sequence, 0 when it is not there.   *)
CsiEnd(b, intro) ==
  LET ends == {i \in DOMAIN b : i > intro /\ b[i] \in 64..127}
  IN  IF ends = {} THEN 0 ELSE Min(ends)

(* parse_csi, of a sequence that ends at end.                              *)
ParseCsi(b, intro, end) ==
  LET marked == b[intro + 1] \in 60..63
      p == FoldLeft(Parameter,
                    [args |-> <<>>, present |-> FALSE, inter |-> 0,
                     over |-> FALSE],
                    SubSeq(b, intro + (IF marked THEN 2 ELSE 1), end - 1))
  IN  [cmd |-> b[end], mark |-> IF marked THEN b[intro + 1] ELSE 0,
       inter |-> p.inter, args |-> p.args]

(* arg[i], of which those beyond args are never assigned.                  *)
Arg(csi, i, junk) == IF i < Len(csi.args) THEN csi.args[i + 1] ELSE junk

Modified(csi) ==
  IF Len(csi.args) > 1 /\ csi.args[2] # -1 THEN Bits(csi.args[2] - 1) ELSE {}

Adding(key, mods) == [key EXCEPT !.mods = @ \cup mods]

(* handle_csi_m; NoKey for none.                                           *)
HandleMouse(csi) ==
  IF csi.inter = 0 /\ csi.mark \in {0, 60} /\ Len(csi.args) >= 3
  THEN MouseKey(csi.args[1], Line(csi.args[3]), Column(csi.args[2]),
                csi.mark = 60 /\ csi.cmd = 109)
  ELSE NoKey

(* handle_csifunc.                                                         *)
HandleFunction(csi, junk) ==
  LET n == Arg(csi, 0, junk)
  IN  CASE n = 27 -> Adding(Emit(Arg(csi, 2, junk)), Modified(csi))
        [] n \in FunctionNumbers -> Adding(CsiFunctions[n], Modified(csi))
        [] OTHER -> NoKey

(* handle_csi_ss3_full, which takes its index from marks and intermediate  *)
(* bytes too: terminals send none with these.                              *)
HandleCursor(csi) == Adding(CsiKeys[csi.cmd], Modified(csi))

(* handle_csi_u. *)
HandleUnicode(csi, junk) == Adding(Emit(Arg(csi, 0, junk)), Modified(csi))

(* handle_csi_R and _y. *)
HandlePosition(csi) ==
  IF Len(csi.args) < 2 THEN NoKey
  ELSE Report("position", <<Line(csi.args[1]), Column(csi.args[2])>>)

HandleModeReport(csi) ==
  IF Len(csi.args) < 2 THEN NoKey
  ELSE Report("modereport", <<csi.mark, csi.args[1], csi.args[2]>>)

(* The handler of the last byte, for the marks that it knows. *)
HandleCsi(csi, junk) ==
  LET bare == csi.mark = 0 /\ csi.inter = 0
  IN  CASE csi.cmd = 82 /\ csi.mark = 63 /\ csi.inter = 0 -> HandlePosition(csi)
        [] csi.cmd \in DOMAIN CsiKeys /\ bare -> HandleCursor(csi)
        [] csi.cmd = 126 -> HandleFunction(csi, junk)
        [] csi.cmd = 117 /\ bare -> HandleUnicode(csi, junk)
        [] csi.cmd \in {77, 109} -> HandleMouse(csi)
        [] csi.cmd = 121 /\ csi.inter = 36 /\ csi.mark \in {0, 63} ->
             HandleModeReport(csi)
        [] OTHER -> NoKey

(* What peekkey_csi makes of a sequence that ends at end.                  *)
TakeCsi(b, intro, end, csi, junk) ==
  LET key == HandleCsi(csi, junk)
  IN  IF csi.cmd = 77 /\ csi.mark = 0 /\ csi.inter = 0 /\ Len(csi.args) < 3
      THEN PeekMouse(b, end)
      ELSE IF key # NoKey THEN Found(key, end)
      ELSE Result("KEY", Report("unknown", <<csi.cmd>>), intro, end - intro, 0)

(* peekkey_csi.                                                            *)
PeekCsi(b, intro, force, junk) ==
  LET end == CsiEnd(b, intro)
      sequences == IF end = 0 THEN {} ELSE {ParseCsi(b, intro, end)}
  IN  CASE end = 0 /\ ~force -> Again
        [] end = 0 /\ force -> Found(Adding(Emit(91), {Alt}), intro)
        [] OTHER -> CHOOSE r \in {TakeCsi(b, intro, end, csi, junk) :
                                    csi \in sequences} : TRUE

(* What SS3 adds to the keys that CSI knows: register_ss3kpalt.            *)
KeypadKeys ==
  [c \in {77, 88} \cup 106..121 |-> Report("keysym", <<c>>)]

(* peekkey_ss3.                                                            *)
PeekSs3(b, intro, force) ==
  IF Len(b) = intro
  THEN IF force THEN Found(Adding(Emit(79), {Alt}), intro) ELSE Again
  ELSE LET c == b[intro + 1]
       IN  CASE c \in DOMAIN CsiKeys -> Found(CsiKeys[c], intro + 1)
             [] c \in DOMAIN KeypadKeys -> Found(KeypadKeys[c], intro + 1)
             [] OTHER -> None

(* peekkey of driver-csi.c.                                                *)
PeekSequence(b, force, junk) ==
  CASE Len(b) > 1 /\ b[1] = 27 /\ b[2] = 91 -> PeekCsi(b, 2, force, junk)
    [] b[1] = 155 -> PeekCsi(b, 1, force, junk)
    [] Len(b) > 1 /\ b[1] = 27 /\ b[2] = 79 -> PeekSs3(b, 2, force)
    [] b[1] = 143 -> PeekSs3(b, 1, force)
    [] OTHER -> None

-----------------------------------------------------------------------------
(* Text.                                                                   *)
Invalid == 65533

(* utf8_seqlen, for what the lead bytes allow.                             *)
SeqLen(n) ==
  CASE n < 128 -> 1 [] n \in 128..2047 -> 2 [] n \in 2048..65535 -> 3
    [] n \in 65536..2097151 -> 4 [] n \in 2097152..67108863 -> 5 [] OTHER -> 6

(* The bytes a lead byte announces, and what it gives to the code point.   *)
Announced(c) ==
  CASE c \in 192..223 -> 2 [] c \in 224..239 -> 3 [] c \in 240..247 -> 4
    [] c \in 248..251 -> 5 [] c \in 252..253 -> 6 [] OTHER -> 1
Lead(c) == CASE Announced(c) = 2 -> c - 192 [] Announced(c) = 3 -> c - 224
             [] Announced(c) = 4 -> c - 240 [] Announced(c) = 5 -> c - 248
             [] Announced(c) = 6 -> c - 252 [] OTHER -> Invalid

Continues(c) == c \in 128..191

(* The key of the first n bytes, which are a sequence: of a code point     *)
(* that is one and could not have been shorter, or an invalid one.         *)
Utf8Key(b, n) ==
  LET code == FoldLeft(LAMBDA cp, c : cp * 64 + c - 128, Lead(b[1]),
                       SubSeq(b, 2, n))
      good == SeqLen(code) >= n /\ code \notin 55296..57343 \cup {65534, 65535}
  IN  Emit(IF good THEN code ELSE Invalid)

(* parse_utf8, of bytes that begin with one of 160..255.                   *)
PeekUtf8(b, force) ==
  LET n    == Announced(b[1])
      bad  == {i \in 2..n : i <= Len(b) /\ ~Continues(b[i])}
  IN  CASE bad # {} -> Plain(Emit(Invalid), Min(bad) - 1)
        [] bad = {} /\ Len(b) < n /\ ~force -> Again
        [] bad = {} /\ Len(b) < n /\ force -> Plain(Emit(Invalid), Len(b))
        [] OTHER -> Plain(Utf8Key(b, n), n)

(* A key after ESC: Alt.                                                   *)
Meta(r) ==
  IF r.res # "KEY" THEN r
  ELSE Result("KEY", Adding(r.key, {Alt}), r.len + 1, r.tide,
              IF r.at = -1 THEN -1 ELSE r.at + 1)

(* peekkey_simple, on bytes of which behind is found after the first one.  *)
PeekSimple(b, force, behind) ==
  CASE b = <<27>> -> IF force THEN Plain(Emit(27), 1) ELSE Again
    [] b[1] = 27 /\ Len(b) > 1 -> Meta(behind)
    [] b[1] \in 160..255 ->
         IF Utf8 THEN PeekUtf8(b, force) ELSE Plain(Unicode(b[1], {}), 1)
    [] OTHER -> Plain(Emit(b[1]), 1)

(* peekkey of termkey.c: the drivers in turn, until one finds a key.       *)
PeekKey(b, force, junk, behind) ==
  LET terminfo == PeekTerminfo(b, force)
      csi      == PeekSequence(b, force, junk)
  IN  IF b = <<>> THEN None
      ELSE IF terminfo.res = "KEY" THEN terminfo
      ELSE IF csi.res = "KEY" THEN csi
      ELSE IF ~force /\ "AGAIN" \in {terminfo.res, csi.res} THEN Again
      ELSE PeekSimple(b, force, behind)

(* Through the bytes of the buffer: after ESC, peekkey looks again.        *)
Peek(bytes, force, junk) ==
  LET from[i \in 1..(Len(bytes) + 1)] ==
        PeekKey(SubSeq(bytes, i, Len(bytes)), force, junk, from[i + 1])
  IN  from[1]

-----------------------------------------------------------------------------
(* Events.                                                                 *)
NoEvent == [ev |-> "none", code |-> <<>>, mods |-> {}]

(* termkey_interpret_mouse, and the wheel: the kind of the event and its   *)
(* button.                                                                 *)
MouseEvent(key) ==
  LET bits   == key.code[1]
      button == (bits % 4) + 64 * (bits \div 64)
      kind   == CASE key.code[4] \/ button = 3 -> "release"
                  [] ~key.code[4] /\ button \in {0, 1, 2, 64, 65} ->
                       IF (bits \div 32) % 2 = 1 THEN "drag"
                       ELSE IF button >= 64 THEN "wheel" ELSE "press"
                  [] OTHER -> "unknown"
  IN  [ev |-> kind, mods |-> key.mods,
       code |-> <<CASE kind = "wheel" -> button - 63
                    [] kind # "wheel" /\ button \in {0, 1, 2} -> button + 1
                    [] kind # "wheel" /\ button \in {64, 65} -> button - 60
                    [] OTHER -> 0,
                  key.code[2] - 1, key.code[3] - 1>>]

(* got_key, once the driver has not taken the key for itself.              *)
EventOf(key) ==
  CASE key.type = "mouse" -> MouseEvent(key)
    [] key.type = "unicode" /\ key.mods = {} ->
         [ev |-> "text", code |-> key.code, mods |-> {}]
    [] key.type \in {"unicode", "function", "keysym"}
         /\ ~(key.type = "unicode" /\ key.mods = {}) ->
         [ev |-> "key", code |-> key.code, mods |-> key.mods]
    [] OTHER -> NoEvent
=============================================================================
