----------------------------- MODULE XTermDriver -----------------------------
(***************************************************************************)
(* The modes of the terminal as the xterm driver caches them               *)
(* (terminal/libtickit/termdriver-xterm.c 291-617), the queries of its     *)
(* start, the answers to them, which come as keys, and the wait for them   *)
(* (terminal/libtickit/term.c 444-487).                                    *)
(*                                                                         *)
(* The terminal itself is external: it carries out commands in order and   *)
(* answers the queries it knows, when it gets to them.  Bytes are cut into *)
(* commands one way, and into the keys that libtermkey makes of them the   *)
(* other; neither way loses or reorders any.                               *)
(***************************************************************************)
EXTENDS Integers, Sequences

CONSTANTS
  Ctls,          \* the controls the application sets
  MouseModes,    \* the mouse modes it uses, of 0..3
  Silences,      \* external: the queries a terminal may leave unanswered
  Unknowns,      \* external: the modes a terminal may answer not to know
  NoDcs,         \* dcs_offset = -1
  DcsSize,       \* pieces the DCS buffer holds
  MaxKeys,       \* keys the user types
  MaxWaiting     \* the application waits while this much is on its way out

AllCtls == {"altscreen", "cursorvis", "cursorblink", "mouse", "cursorshape",
            "keypad"}
Queries == {"slrm", "cursorvis", "cursorblink", "cursorshape"}

ASSUME DriverAssumption ==
  /\ Ctls \subseteq AllCtls
  /\ MouseModes \subseteq 0..3
  /\ Silences \subseteq SUBSET Queries
  /\ Unknowns \subseteq SUBSET (Queries \ {"cursorvis"})
  /\ NoDcs # <<>> /\ DcsSize \in Nat /\ DcsSize >= 1
  /\ MaxKeys \in Nat /\ MaxWaiting \in Nat

VARIABLES
  state,         \* tt->state, and "FREED" after tickit_term_free
  mode,          \* xd->mode
  cap,           \* xd->cap
  initialised,   \* xd->initialised, as the set of the queries answered
  dcs,           \* the first dcs_offset pieces of xd->dcs_buffer
  term,          \* external: the terminal's own modes and what it answers
  toTerm,        \* external: commands the terminal has not read yet
  fromTerm,      \* external: keys the program has not read yet
  typed,         \* ghost: how many keys the user has typed
  heard,         \* ghost: the keys passed on to the application
  opened,        \* ghost: Alt-P from the user began the open DCS
  early          \* ghost: the cursor was set before its report came in

driver   == <<state, mode, cap, initialised, dcs>>
channels == <<toTerm, fromTerm>>
ghosts   == <<typed, heard, opened, early>>
vars     == <<driver, term, channels, ghosts>>

-----------------------------------------------------------------------------
(* The values a control is set to.                                         *)
Values(ctl) == CASE ctl = "mouse" -> MouseModes
                 [] ctl = "cursorshape" -> 1..3
                 [] OTHER -> 0..1

Set(ctl, value)    == [op |-> "set", ctl |-> ctl, value |-> value]
Clear(ctl, value)  == [op |-> "clear", ctl |-> ctl, value |-> value]
Query(ctl)         == [op |-> "query", ctl |-> ctl, value |-> 0]

(* Keys: mode reports, the pieces of a DCS reply, and what a user types.   *)
(* A reply to DECRQSS is Alt-P, its body and Alt-\.                        *)
Key(kind)           == [kind |-> kind, ctl |-> "none", value |-> 0]
Report(ctl, value)  == [kind |-> "report", ctl |-> ctl, value |-> value]
Body(value)         == [kind |-> "body", ctl |-> "cursorshape", value |-> value]

UserKeys  == {Key(kind) : kind \in {"text", "altP", "altBackslash", "function"}}
ReplyKeys == {Report(ctl, value) : ctl \in Queries \ {"cursorshape"}, value \in 0..2}
               \cup {Body(value) : value \in 0..6}
Keys      == UserKeys \cup ReplyKeys
Commands  == {Set(ctl, value) : ctl \in AllCtls \ {"mouse", "cursorshape"},
                                value \in 0..1}
               \cup {Set("mouse", value) : value \in 1..3}
               \cup {Clear("mouse", value) : value \in 1..3}
               \cup {Set("cursorshape", value) : value \in 1..6}
               \cup {Query(ctl) : ctl \in Queries}

(* A terminal before the program starts: not in application modes.         *)
Terminals ==
  [altscreen : {0}, cursorvis : 0..1, cursorblink : 0..1, mouse : {0},
   cursorshape : 1..3, keypad : {0}, silent : Silences, unknown : Unknowns,
   hiddenBefore : BOOLEAN]

Init ==
  /\ state = "UNSTARTED"
  /\ mode = [altscreen |-> 0, cursorvis |-> 1, cursorblink |-> 0,
             mouse |-> 0, cursorshape |-> 0, keypad |-> 0]
  /\ cap = [cursorshape |-> FALSE, slrm |-> FALSE]
  /\ initialised = {}
  /\ dcs = NoDcs
  /\ term \in {t \in Terminals : t.hiddenBefore = (t.cursorvis = 0)}
  /\ toTerm = <<>> /\ fromTerm = <<>>
  /\ typed = 0 /\ heard = <<>> /\ opened = FALSE /\ early = FALSE

-----------------------------------------------------------------------------
(* Output.                                                                 *)

(* set_output_fd and set_output_func start the driver: all queries at once. *)
Start ==
  /\ state = "UNSTARTED"
  /\ state' = "STARTING"
  /\ toTerm' = toTerm \o <<Query("slrm"), Query("cursorvis"),
                           Query("cursorblink"), Query("cursorshape")>>
  /\ UNCHANGED <<mode, cap, initialised, dcs, term, fromTerm, ghosts>>

(* tickit_term_await_started reads keys meanwhile (Receive); it ends when  *)
(* the driver has started, or with its timeout.                            *)
Await ==
  /\ state = "STARTING"
  /\ state' = "STARTED"
  /\ UNCHANGED <<mode, cap, initialised, dcs, term, channels, ghosts>>

(* A bug for the mutant runs: off names no mode, as on does.               *)
MouseOffAll(value) == <<Clear("mouse", value)>>

MouseSequence(value) ==
  IF value = 0 THEN <<Clear("mouse", mode.mouse)>> ELSE <<Set("mouse", value)>>

ShapeSequence(value) ==
  IF cap.cursorshape
  THEN <<Set("cursorshape", value * 2 - mode.cursorblink)>>
  ELSE <<>>

(* The early returns of setctl_int: the terminal has the value already.    *)
Cached(ctl, value) ==
  /\ mode[ctl] = value
  /\ ctl \in {"cursorblink", "cursorshape"} => ctl \in initialised

(* A bug for the mutant runs: the screen's mode is not assigned either.    *)
ModeAfterFewer(ctl, value) ==
  IF ctl \in {"keypad", "altscreen"} THEN mode ELSE [mode EXCEPT ![ctl] = value]

(* What setctl_int leaves in mode; keypad has no assignment.               *)
ModeAfter(ctl, value) ==
  IF ctl = "keypad" THEN mode ELSE [mode EXCEPT ![ctl] = value]

(* What setctl_int writes.                                                 *)
Sequence(ctl, value) ==
  CASE ctl = "mouse"       -> MouseSequence(value)
    [] ctl = "cursorshape" -> ShapeSequence(value)
    [] OTHER               -> <<Set(ctl, value)>>

SetCtl(ctl, value) ==
  /\ state \in {"STARTING", "STARTED"}
  /\ Len(toTerm) < MaxWaiting
  /\ IF Cached(ctl, value)
     THEN UNCHANGED <<mode, toTerm>>
     ELSE /\ mode' = ModeAfter(ctl, value)
          /\ toTerm' = toTerm \o Sequence(ctl, value)
  /\ early' = (early \/ (ctl = "cursorvis" /\ ctl \notin initialised))
  /\ UNCHANGED <<state, cap, initialised, dcs, term, fromTerm, typed, heard, opened>>

GetCtl(ctl) == mode[ctl]

(* tickit_term_free calls stop.  The reset of the pen that ends it is left *)
(* out; the keypad is never in the cache.                                  *)
Stop ==
  LET when(test, s) == IF test THEN s ELSE <<>>
  IN  /\ state \in {"STARTING", "STARTED"}
      /\ state' = "FREED"
      /\ mode' = [mode EXCEPT !.mouse = 0, !.cursorvis = 1, !.altscreen = 0]
      /\ toTerm' = toTerm \o when(mode.mouse # 0, MouseSequence(0))
                          \o when(mode.cursorvis = 0, <<Set("cursorvis", 1)>>)
                          \o when(mode.altscreen = 1, <<Set("altscreen", 0)>>)
                          \o when(mode.keypad = 1, <<Set("keypad", 0)>>)
      /\ UNCHANGED <<cap, initialised, dcs, term, fromTerm, ghosts>>

-----------------------------------------------------------------------------
(* Input: tickit_term_input_* hand every key to gotkey; got_key passes on   *)
(* what gotkey does not consume.                                           *)

(* A bug for the mutant runs: a report of the cursor is believed both ways. *)
BelievedMode(ctl, value) ==
  IF ctl \in {"cursorvis", "cursorblink"} /\ value \in 1..2
  THEN [mode EXCEPT ![ctl] = 2 - value] ELSE mode

(* gotkey_modereport: 1 is set, 2 is reset, 0 stands for the other values. *)
ReportedMode(ctl, value) ==
  IF ctl \in {"cursorvis", "cursorblink"} /\ value = 1
  THEN [mode EXCEPT ![ctl] = 1] ELSE mode

ModeReport(key) ==
  /\ key.kind = "report"
  /\ mode' = ReportedMode(key.ctl, key.value)
  /\ cap' = [cap EXCEPT !.slrm = @ \/ (key.ctl = "slrm" /\ key.value \in 1..2)]
  /\ initialised' = initialised \cup {key.ctl}
  /\ UNCHANGED <<dcs, heard, opened>>

(* A bug for the mutant runs: Alt-P closes an open DCS.                    *)
DcsToggle(key) ==
  /\ key.kind = "altP"
  /\ dcs' = IF dcs = NoDcs THEN <<>> ELSE NoDcs
  /\ opened' = ~(Len(fromTerm) > 1 /\ fromTerm[2].kind = "body")
  /\ UNCHANGED <<mode, cap, initialised, heard>>

(* Alt-P: a DCS begins, whoever sent it.                                   *)
DcsBegin(key) ==
  /\ key.kind = "altP"
  /\ dcs' = <<>>
  /\ opened' = ~(Len(fromTerm) > 1 /\ fromTerm[2].kind = "body")
  /\ UNCHANGED <<mode, cap, initialised, heard>>

(* A plain character while a DCS is open.                                  *)
DcsPiece(key) ==
  /\ key.kind \in {"text", "body"}
  /\ dcs # NoDcs
  /\ dcs' = IF Len(dcs) < DcsSize THEN Append(dcs, key) ELSE dcs
  /\ UNCHANGED <<mode, cap, initialised, heard, opened>>

(* gotkey_decrqss: of status 0 nothing is taken but that it came.  (If it  *)
(* came without an argument, not even that: the terminal might be silent.) *)
ShapeReport(value) ==
  /\ initialised' = initialised \cup {"cursorshape"}
  /\ IF value = 0 THEN UNCHANGED <<mode, cap>>
     ELSE /\ mode' = [mode EXCEPT !.cursorshape = (value + 1) \div 2]
          /\ cap' = [cap EXCEPT !.cursorshape = TRUE]

(* A bug for the mutant runs: the DCS stays open.                          *)
DcsKept(key) ==
  /\ key.kind = "altBackslash"
  /\ opened' = FALSE
  /\ IF dcs # NoDcs /\ dcs # <<>> /\ dcs[1].kind = "body"
     THEN ShapeReport(dcs[1].value)
     ELSE UNCHANGED <<mode, cap, initialised>>
  /\ UNCHANGED <<dcs, heard>>

(* Alt-\: the DCS ends, if one was open; only a reply to DECRQSS counts.   *)
DcsEnd(key) ==
  /\ key.kind = "altBackslash"
  /\ dcs' = NoDcs
  /\ opened' = FALSE
  /\ IF dcs # NoDcs /\ dcs # <<>> /\ dcs[1].kind = "body"
     THEN ShapeReport(dcs[1].value)
     ELSE UNCHANGED <<mode, cap, initialised>>
  /\ UNCHANGED heard

(* Everything else is passed on.                                           *)
PassOn(key) ==
  /\ \/ key.kind = "function"
     \/ key.kind \in {"text", "body"} /\ dcs = NoDcs
  /\ heard' = Append(heard, key)
  /\ UNCHANGED <<mode, cap, initialised, dcs, opened>>

Receive ==
  /\ state \in {"STARTING", "STARTED"}
  /\ fromTerm # <<>>
  /\ fromTerm' = Tail(fromTerm)
  /\ LET key == Head(fromTerm)
     IN  ModeReport(key) \/ DcsBegin(key) \/ DcsPiece(key) \/ DcsEnd(key)
           \/ PassOn(key)
  /\ UNCHANGED <<state, term, toTerm, typed, early>>

-----------------------------------------------------------------------------
(* The terminal and its user.                                              *)

(* What a command makes of the terminal.  DECSCUSR sets shape and blink;   *)
(* switching a mouse mode off has no effect on another.                    *)
Obey(cmd) ==
  CASE cmd.ctl = "cursorshape" ->
         [term EXCEPT !.cursorshape = (cmd.value + 1) \div 2,
                      !.cursorblink = cmd.value % 2]
    [] cmd.op = "clear" ->
         [term EXCEPT !.mouse = IF @ = cmd.value THEN 0 ELSE @]
    [] OTHER -> [term EXCEPT ![cmd.ctl] = cmd.value]

Answer(ctl) ==
  IF ctl \in term.silent THEN <<>>
  ELSE CASE ctl = "cursorshape" ->
              <<Key("altP"),
                Body(IF ctl \in term.unknown THEN 0
                     ELSE term.cursorshape * 2 - term.cursorblink),
                Key("altBackslash")>>
         [] ctl = "slrm" -> <<Report(ctl, IF ctl \in term.unknown THEN 0 ELSE 1)>>
         [] OTHER -> <<Report(ctl, IF ctl \in term.unknown THEN 0
                                   ELSE 2 - term[ctl])>>

Terminal ==
  /\ toTerm # <<>>
  /\ toTerm' = Tail(toTerm)
  /\ LET cmd == Head(toTerm)
     IN  IF cmd.op = "query"
         THEN fromTerm' = fromTerm \o Answer(cmd.ctl) /\ UNCHANGED term
         ELSE term' = Obey(cmd) /\ UNCHANGED fromTerm
  /\ UNCHANGED <<driver, ghosts>>

Type ==
  /\ typed < MaxKeys
  /\ typed' = typed + 1
  /\ \E key \in UserKeys : fromTerm' = Append(fromTerm, key)
  /\ UNCHANGED <<driver, term, toTerm, heard, opened, early>>

Next ==
  \/ Start \/ Await \/ Stop \/ Receive \/ Terminal \/ Type
  \/ \E ctl \in Ctls : \E value \in Values(ctl) : SetCtl(ctl, value)

Spec == Init /\ [][Next]_vars

-----------------------------------------------------------------------------
(* Once the terminal has read all commands, it has the alternate screen,   *)
(* the mouse mode and, if it answered for it, the cursor shape that the    *)
(* driver compares new requests with: skipping a request is harmless,      *)
(* whenever the answers arrive.                                            *)
ModesMirrored ==
  toTerm = <<>> =>
    /\ mode.altscreen = term.altscreen
    /\ mode.mouse = term.mouse
    /\ cap.cursorshape => mode.cursorshape = term.cursorshape

(* The driver may think a cursor visible, or blinking, that is not (a late *)
(* report can make it so), never the other way: a request to switch one    *)
(* off is never skipped wrongly.  Blinking needs a terminal that knows the *)
(* mode.                                                                   *)
OffIsOff ==
  toTerm = <<>> =>
    /\ mode.cursorvis = 0 => term.cursorvis = 0
    /\ mode.cursorblink = 0 /\ "cursorblink" \in initialised \ term.unknown
         => term.cursorblink = 0

(* What tickit_term_free leaves behind: the normal screen, no mouse mode,  *)
(* and a cursor one can see - unless it was hidden before, or hidden       *)
(* before the driver had the report of it.                                 *)
Restored ==
  state = "FREED" /\ toTerm = <<>> =>
    /\ term.altscreen = 0
    /\ term.mouse = 0
    /\ term.cursorvis = 1 \/ term.hiddenBefore \/ early

(* The application never sees a part of an answer, whatever the user types *)
(* in between.                                                             *)
AnswersHidden == \A i \in DOMAIN heard : heard[i] \in UserKeys

(* The answers never swallow what the user types: a character is passed on *)
(* unless the user pressed Alt-P before it.                                *)
TypingHeard ==
  [][Receive /\ Head(fromTerm) = Key("text") /\ ~opened
       => heard' = Append(heard, Key("text"))]_vars

(* "Also query the current cursor visibility, blink status, and shape"     *)
(* (line 442): once that is answered, and nothing is on its way, the       *)
(* driver knows whether the cursor is visible.                             *)
CursorKnown ==
  "cursorvis" \in initialised /\ toTerm = <<>> /\ fromTerm = <<>>
    => GetCtl("cursorvis") = term.cursorvis
=============================================================================
