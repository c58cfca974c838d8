----------------------------- MODULE MCTermInput -----------------------------
(***************************************************************************)
(* A small buffer, an xterm's keys, and streams that reach each of the     *)
(* peek functions.                                                         *)
(***************************************************************************)
EXTENDS TermInput

ESC == 27
Lb  == 91
O   == 79
A   == 65
M   == 77
a   == 97

MCCapabilities ==
  <<[seq |-> <<ESC, O, A>>, key |-> KeySym("Up", {})],
    [seq |-> <<ESC, Lb, M>>, key |-> NoKey],
    [seq |-> <<ESC, Lb, 51, 126>>, key |-> KeySym("Delete", {})],
    [seq |-> <<127>>, key |-> KeySym("Backspace", {})]>>

Stream(bytes, n) == [bytes |-> bytes, resizes |-> n]

MCStreams ==
  {Stream(<<ESC, ESC, Lb, A>>, 2),                     \* Alt-Up
   Stream(<<ESC, O, A, ESC>>, 1),                      \* Up, Escape or more
   Stream(<<ESC, Lb, M, 32, 34, 33>>, 0),              \* X10 mouse
   Stream(<<155, 49, 59, 53, A>>, 0),                  \* Ctrl-Up
   Stream(<<155, 36, 122, a>>, 0),                     \* unknown
   Stream(<<155, 126, a>>, 2),                         \* no argument
   Stream(<<195, 169, 226, a>>, 0),                    \* two bytes, and a cut
   Stream(<<a, a, a, a, 127, 13>>, 0),                 \* past the middle
   Stream(<<155, 49, 49, 49, 49, 49, A>>, 0),          \* longer than the buffer
   Stream(<<a, a, ESC, ESC, ESC, Lb>>, 0)}             \* out of the buffer

MCSizes == {"small", "large"}
=============================================================================
