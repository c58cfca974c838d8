-------------------------- MODULE XTermDriverProofs --------------------------
(***************************************************************************)
(* What the xterm driver caches and what it leaves behind, for any         *)
(* controls, any terminal that answers what it likes and any typing.       *)
(***************************************************************************)
EXTENDS XTermDriver, SequenceTheorems, TLAPS

Modes ==
  [altscreen : 0..1, cursorvis : 0..1, cursorblink : 0..1, mouse : 0..3,
   cursorshape : 0..3, keypad : {0}]

TerminalStates ==
  [altscreen : 0..1, cursorvis : 0..1, cursorblink : 0..1, mouse : 0..3,
   cursorshape : 1..3, keypad : 0..1, silent : SUBSET Queries,
   unknown : SUBSET (Queries \ {"cursorvis"}), hiddenBefore : BOOLEAN]

TypeOK ==
  /\ state \in {"UNSTARTED", "STARTING", "STARTED", "FREED"}
  /\ mode \in Modes
  /\ cap \in [cursorshape : BOOLEAN, slrm : BOOLEAN]
  /\ initialised \in SUBSET Queries
  /\ dcs = NoDcs \/ dcs \in Seq(Keys)
  /\ term \in TerminalStates
  /\ toTerm \in Seq(Commands) /\ fromTerm \in Seq(Keys)
  /\ typed \in Nat /\ heard \in Seq(Keys)
  /\ opened \in BOOLEAN /\ early \in BOOLEAN

-----------------------------------------------------------------------------
(* Every query is in one place at most: still to be sent, on its way, its  *)
(* answer on its way, held in the DCS buffer, or taken.                    *)
Asks(cmd, ctl)  == cmd.op = "query" /\ cmd.ctl = ctl
Tells(key, ctl) == key.kind \in {"report", "body"} /\ key.ctl = ctl

AskedIn(s, ctl) == \E i \in DOMAIN s : Asks(s[i], ctl)
ToldIn(s, ctl)  == \E i \in DOMAIN s : Tells(s[i], ctl)
Held(ctl)       == dcs # NoDcs /\ ToldIn(dcs, ctl)

OneAsks(s, ctl) ==
  \A i, j \in DOMAIN s : Asks(s[i], ctl) /\ Asks(s[j], ctl) => i = j
OneTells(s, ctl) ==
  \A i, j \in DOMAIN s : Tells(s[i], ctl) /\ Tells(s[j], ctl) => i = j

AskedOnce(ctl) ==
  /\ OneAsks(toTerm, ctl) /\ OneTells(fromTerm, ctl)
  /\ AskedIn(toTerm, ctl) => ~ToldIn(fromTerm, ctl)
  /\ AskedIn(toTerm, ctl) \/ ToldIn(fromTerm, ctl) => ~Held(ctl)
  /\ AskedIn(toTerm, ctl) \/ ToldIn(fromTerm, ctl) \/ Held(ctl)
       => ctl \notin initialised

Quiet ==
  state = "UNSTARTED" =>
    /\ toTerm = <<>> /\ initialised = {} /\ dcs = NoDcs
    /\ \A ctl \in Queries : ~ToldIn(fromTerm, ctl)

(* A reply stays in one piece, and the DCS it opens is not the user's.     *)
Whole(s, open) ==
  \A i \in DOMAIN s : s[i].kind = "body" =>
    /\ i = 1 => open
    /\ i # 1 => s[i - 1].kind = "altP"
    /\ i + 1 \in DOMAIN s /\ s[i + 1].kind = "altBackslash"

RepliesWhole ==
  /\ Whole(fromTerm, dcs # NoDcs)
  /\ dcs # NoDcs /\ ~opened =>
       fromTerm # <<>> /\ fromTerm[1].kind \in {"body", "altBackslash"}

-----------------------------------------------------------------------------
(* What commands make of a control of the terminal.                        *)
Touches(cmd, ctl) ==
  /\ cmd.op # "query"
  /\ cmd.ctl = ctl \/ (ctl = "cursorblink" /\ cmd.ctl = "cursorshape")

Leaves(cmd, ctl) ==
  IF cmd.op = "clear" THEN 0
  ELSE IF cmd.ctl # "cursorshape" THEN cmd.value
  ELSE IF ctl = "cursorshape" THEN (cmd.value + 1) \div 2
  ELSE cmd.value % 2

(* From was, the first n commands of s make v of ctl; all of s make v of   *)
(* the control of a terminal t.                                            *)
Becomes(was, s, n, ctl, v) ==
  \/ was = v /\ \A i \in 1..n : ~Touches(s[i], ctl)
  \/ \E i \in 1..n :
       /\ Touches(s[i], ctl) /\ Leaves(s[i], ctl) = v
       /\ \A j \in i + 1..n : ~Touches(s[j], ctl)

Ends(t, s, ctl, v) == Becomes(t[ctl], s, Len(s), ctl, v)

TouchedIn(s, ctl) == \E i \in DOMAIN s : Touches(s[i], ctl)

(* A mode that is switched off is the one that is on by then. *)
OffNamesOn(t, s) ==
  \A i \in DOMAIN s : s[i].op = "clear" =>
    Becomes(t.mouse, s, i - 1, "mouse", s[i].value)

WillBe(ctl, v) == Ends(term, toTerm, ctl, v)

(* The cached screen and mouse mode are what the terminal will come to. *)
Mirrored ==
  /\ OffNamesOn(term, toTerm)
  /\ WillBe("altscreen", mode.altscreen) /\ WillBe("mouse", mode.mouse)

(* As long as no shape was reported none is set, so the report is current. *)
ShapeOf(value) == (value + 1) \div 2

Reports(s, shape) ==
  \A i \in DOMAIN s :
    s[i].kind = "body" /\ s[i].value # 0 => ShapeOf(s[i].value) = shape

ShapeMirrored ==
  IF cap.cursorshape
  THEN "cursorshape" \in initialised /\ WillBe("cursorshape", mode.cursorshape)
  ELSE /\ ~TouchedIn(toTerm, "cursorshape")
       /\ Reports(fromTerm, term.cursorshape)
       /\ dcs # NoDcs => Reports(dcs, term.cursorshape)

(* A cursor thought hidden will be; one whose blinking is thought off will *)
(* not blink, once a report of it that is not yes is on its way or came.   *)
HiddenWillBe == mode.cursorvis = 0 => WillBe("cursorvis", 0)

NotSaidOn(s) ==
  \E i \in DOMAIN s : Tells(s[i], "cursorblink") /\ s[i].value # 1

BlinkWillBe ==
  mode.cursorblink = 0 =>
    /\ TouchedIn(toTerm, "cursorblink") => WillBe("cursorblink", 0)
    /\ ("cursorblink" \in initialised \/ NotSaidOn(fromTerm))
         /\ "cursorblink" \notin term.unknown
         => WillBe("cursorblink", 0)

(* A cursor that was visible, and not set too early, is what is cached.    *)
CursorMirrored ==
  ~term.hiddenBefore /\ ~early =>
    /\ WillBe("cursorvis", mode.cursorvis)
    /\ "cursorvis" \notin initialised => mode.cursorvis = 1

FreedModes ==
  state = "FREED" => mode.altscreen = 0 /\ mode.mouse = 0 /\ mode.cursorvis = 1

IInv ==
  /\ TypeOK /\ Quiet /\ \A ctl \in Queries : AskedOnce(ctl)
  /\ RepliesWhole /\ AnswersHidden
  /\ Mirrored /\ ShapeMirrored
  /\ HiddenWillBe /\ BlinkWillBe /\ CursorMirrored /\ FreedModes

-----------------------------------------------------------------------------
(* What the commands and the keys are. *)
LEMMA CommandFacts ==
  ASSUME NEW c \in Commands
  PROVE  /\ c.op \in {"set", "clear", "query"}
         /\ c.op = "query" => c.ctl \in Queries
         /\ c.op = "clear" => c.ctl = "mouse" /\ c.value \in 1..3
         /\ c.op = "set" =>
              \/ c.ctl = "mouse" /\ c.value \in 1..3
              \/ c.ctl = "cursorshape" /\ c.value \in 1..6
              \/ /\ c.ctl \in {"altscreen", "cursorvis", "cursorblink", "keypad"}
                 /\ c.value \in 0..1
BY DEF Commands, Set, Clear, Query, AllCtls

LEMMA KeyFacts ==
  ASSUME NEW key \in Keys
  PROVE  \/ key.kind = "report" /\ key.ctl \in Queries \ {"cursorshape"} /\ key.value \in 0..2
         \/ key.kind = "body" /\ key.ctl = "cursorshape" /\ key.value \in 0..6
         \/ /\ key.kind \in {"text", "altP", "altBackslash", "function"}
            /\ key \in UserKeys /\ key = Key(key.kind)
BY DEF Keys, UserKeys, ReplyKeys, Key, Report, Body

(* A command after those on their way. *)
LEMMA SentOne ==
  ASSUME NEW t, NEW s \in Seq(Commands), NEW c \in Commands, c.op # "query",
         OffNamesOn(t, s), c.op = "clear" => Ends(t, s, "mouse", c.value)
  PROVE  /\ s \o <<c>> \in Seq(Commands) /\ OffNamesOn(t, s \o <<c>>)
         /\ \A ctl : /\ AskedIn(s \o <<c>>, ctl) <=> AskedIn(s, ctl)
                     /\ OneAsks(s, ctl) => OneAsks(s \o <<c>>, ctl)
                     /\ TouchedIn(s \o <<c>>, ctl)
                          <=> TouchedIn(s, ctl) \/ Touches(c, ctl)
         /\ \A ctl, v : Ends(t, s \o <<c>>, ctl, v) <=>
              IF Touches(c, ctl) THEN Leaves(c, ctl) = v ELSE Ends(t, s, ctl, v)
<1> DEFINE r == s \o <<c>>
           n == Len(s)
<1>1. /\ r \in Seq(Commands) /\ n \in Nat /\ Len(r) = n + 1
      /\ \A i \in 1..n : r[i] = s[i]
      /\ r[n + 1] = c /\ DOMAIN r = 1..n + 1 /\ DOMAIN s = 1..n
  OBVIOUS
<1> HIDE DEF r, n
<1>2. ASSUME NEW was, NEW ctl, NEW v, NEW k \in 0..n
      PROVE  Becomes(was, r, k, ctl, v) <=> Becomes(was, s, k, ctl, v)
  BY <1>1 DEF Becomes
<1>3. ASSUME NEW was, NEW ctl, NEW v
      PROVE  Becomes(was, r, n + 1, ctl, v) <=>
               IF Touches(c, ctl) THEN Leaves(c, ctl) = v
               ELSE Becomes(was, s, n, ctl, v)
  <2>1. CASE Touches(c, ctl)
    BY <1>1, <2>1 DEF Becomes
  <2>2. CASE ~Touches(c, ctl)
    BY <1>1, <2>2 DEF Becomes
  <2> QED BY <2>1, <2>2
<1>4. \A ctl, v : Ends(t, r, ctl, v) <=>
        IF Touches(c, ctl) THEN Leaves(c, ctl) = v ELSE Ends(t, s, ctl, v)
  BY <1>1, <1>3 DEF Ends, n
<1>5. OffNamesOn(t, r)
  <2> SUFFICES ASSUME NEW i \in 1..n + 1, r[i].op = "clear"
               PROVE  Becomes(t.mouse, r, i - 1, "mouse", r[i].value)
    BY <1>1 DEF OffNamesOn
  <2>1. CASE i = n + 1
    <3>1. Becomes(t["mouse"], s, n, "mouse", c.value)
      BY <1>1, <2>1 DEF Ends, n
    <3> QED BY <1>1, <1>2, <2>1, <3>1
  <2>2. CASE i # n + 1
    <3>1. i \in 1..n /\ i - 1 \in 0..n
      BY <1>1, <2>2
    <3> QED BY <1>1, <1>2, <3>1 DEF OffNamesOn
  <2> QED BY <2>1, <2>2
<1>6. \A ctl : /\ AskedIn(r, ctl) <=> AskedIn(s, ctl)
               /\ OneAsks(s, ctl) => OneAsks(r, ctl)
  BY <1>1 DEF AskedIn, OneAsks, Asks
<1>7. \A ctl : TouchedIn(r, ctl) <=> TouchedIn(s, ctl) \/ Touches(c, ctl)
  BY <1>1 DEF TouchedIn
<1> QED BY <1>1, <1>4, <1>5, <1>6, <1>7 DEF r

(* The first command is read and carried out. *)
LEMMA ReadOne ==
  ASSUME NEW s \in Seq(Commands), s # <<>>
  PROVE  LET c == Head(s)
             r == Tail(s)
             Now(was, ctl) == IF Touches(c, ctl) THEN Leaves(c, ctl) ELSE was
         IN  /\ c \in Commands /\ r \in Seq(Commands) /\ c = s[1]
             /\ Len(r) \in Nat /\ Len(s) = Len(r) + 1
             /\ DOMAIN r = 1..Len(r) /\ \A i \in 1..Len(r) : r[i] = s[i + 1]
             /\ \A was, ctl, v : \A n \in 0..Len(r) :
                  Becomes(was, s, n + 1, ctl, v) => Becomes(Now(was, ctl), r, n, ctl, v)
<1> DEFINE c == Head(s)
           r == Tail(s)
           Now(was, ctl) == IF Touches(c, ctl) THEN Leaves(c, ctl) ELSE was
           m == Len(r)
<1>1. /\ c \in Commands /\ r \in Seq(Commands) /\ c = s[1]
      /\ m \in Nat /\ Len(s) = m + 1
      /\ DOMAIN r = 1..m /\ \A i \in 1..m : r[i] = s[i + 1]
  OBVIOUS
<1> HIDE DEF c, r, m
<1>2. ASSUME NEW was, NEW ctl, NEW v, NEW n \in 0..m,
             Becomes(was, s, n + 1, ctl, v)
      PROVE  Becomes(Now(was, ctl), r, n, ctl, v)
  <2>1. CASE was = v /\ \A i \in 1..n + 1 : ~Touches(s[i], ctl)
    BY <1>1, <2>1 DEF Becomes
  <2>2. ASSUME NEW i \in 1..n + 1, Touches(s[i], ctl), Leaves(s[i], ctl) = v,
               \A j \in i + 1..n + 1 : ~Touches(s[j], ctl)
        PROVE  Becomes(Now(was, ctl), r, n, ctl, v)
    <3>1. CASE i = 1
      <4>1. Now(was, ctl) = v
        BY <1>1, <2>2, <3>1
      <4>2. \A j \in 1..n : ~Touches(r[j], ctl)
        BY <1>1, <2>2, <3>1
      <4> QED BY <4>1, <4>2 DEF Becomes
    <3>2. CASE i # 1
      <4>1. i - 1 \in 1..n /\ r[i - 1] = s[i]
        BY <1>1, <3>2
      <4>2. \A j \in i - 1 + 1..n : ~Touches(r[j], ctl)
        BY <1>1, <2>2, <3>2
      <4> QED BY <2>2, <4>1, <4>2 DEF Becomes
    <3> QED BY <3>1, <3>2
  <2> QED BY <1>2, <2>1, <2>2 DEF Becomes
<1> QED BY <1>1, <1>2 DEF c, r, m

LEMMA EmptyFacts ==
  /\ <<>> \in Seq(Commands) /\ <<>> \in Seq(Keys) /\ Len(<<>>) = 0
  /\ \A ctl : /\ ~AskedIn(<<>>, ctl) /\ ~ToldIn(<<>>, ctl)
              /\ OneAsks(<<>>, ctl) /\ OneTells(<<>>, ctl)
              /\ ~TouchedIn(<<>>, ctl)
  /\ ~NotSaidOn(<<>>) /\ \A shape : Reports(<<>>, shape)
  /\ \A t : OffNamesOn(t, <<>>)
  /\ \A t, ctl, v : Ends(t, <<>>, ctl, v) <=> t[ctl] = v
<1>1. <<>> \in Seq(Commands) /\ <<>> \in Seq(Keys) /\ Len(<<>>) = 0
      /\ DOMAIN <<>> = {}
  OBVIOUS
<1> QED BY <1>1 DEF AskedIn, ToldIn, OneAsks, OneTells, TouchedIn, NotSaidOn,
               Reports, OffNamesOn, Ends, Becomes

LEMMA InitInv == Init => IInv
<1> SUFFICES ASSUME Init PROVE IInv
  OBVIOUS
<1>1. term \in TerminalStates
  <2>1. term \in Terminals
    BY DEF Init
  <2> QED BY <2>1, DriverAssumption DEF Terminals, TerminalStates
<1>2. TypeOK
  <2>1. mode \in Modes /\ cap \in [cursorshape : BOOLEAN, slrm : BOOLEAN]
    BY DEF Init, Modes
  <2> QED BY <1>1, <2>1, EmptyFacts DEF Init, TypeOK
<1>3. Quiet /\ (\A ctl \in Queries : AskedOnce(ctl)) /\ RepliesWhole /\ AnswersHidden
  BY EmptyFacts DEF Init, Quiet, AskedOnce, Held, RepliesWhole, Whole, AnswersHidden
<1>4. /\ term.altscreen = 0 /\ term.mouse = 0
      /\ ~term.hiddenBefore => term.cursorvis = 1
  BY DEF Init, Terminals
<1>5. Mirrored /\ ShapeMirrored
  BY <1>4, EmptyFacts DEF Init, Mirrored, ShapeMirrored, WillBe
<1>6. HiddenWillBe /\ BlinkWillBe /\ CursorMirrored /\ FreedModes
  <2>1. HiddenWillBe /\ FreedModes
    BY DEF Init, HiddenWillBe, FreedModes
  <2>2. BlinkWillBe
    <3>1. /\ ~TouchedIn(toTerm, "cursorblink") /\ ~NotSaidOn(fromTerm)
          /\ "cursorblink" \notin initialised
      BY EmptyFacts DEF Init
    <3> QED BY <3>1 DEF BlinkWillBe
  <2>3. CursorMirrored
    <3>1. mode.cursorvis = 1 /\ toTerm = <<>>
      BY DEF Init
    <3>2. ~term.hiddenBefore => WillBe("cursorvis", mode.cursorvis)
      BY <1>4, <3>1, EmptyFacts DEF WillBe
    <3> QED BY <3>1, <3>2 DEF CursorMirrored
  <2> QED BY <2>1, <2>2, <2>3
<1> QED BY <1>2, <1>3, <1>5, <1>6 DEF IInv

-----------------------------------------------------------------------------
LEMMA StartStep ==
  ASSUME IInv, Start
  PROVE  IInv'
<1> DEFINE qs == <<Query("slrm"), Query("cursorvis"), Query("cursorblink"),
                   Query("cursorshape")>>
<1>1. /\ state = "UNSTARTED" /\ state' = "STARTING" /\ toTerm' = toTerm \o qs
      /\ UNCHANGED <<mode, cap, initialised, dcs, term, fromTerm, typed, heard,
                     opened, early>>
  BY DEF Start, ghosts
<1>2. /\ toTerm = <<>> /\ initialised = {} /\ dcs = NoDcs
      /\ \A ctl \in Queries : ~ToldIn(fromTerm, ctl)
  BY <1>1 DEF IInv, Quiet
<1>3. toTerm' = qs
  BY <1>1, <1>2
<1>4. /\ qs \in Seq(Commands) /\ Len(qs) = 4 /\ DOMAIN qs = 1..4
      /\ qs[1] = Query("slrm") /\ qs[2] = Query("cursorvis")
      /\ qs[3] = Query("cursorblink") /\ qs[4] = Query("cursorshape")
  BY DEF Commands, Queries
<1> HIDE DEF qs
<1>5. /\ \A i \in 1..4 : qs[i].op = "query"
      /\ qs[1].ctl = "slrm" /\ qs[2].ctl = "cursorvis"
      /\ qs[3].ctl = "cursorblink" /\ qs[4].ctl = "cursorshape"
  BY <1>4 DEF Query
<1>6. \A ctl : OneAsks(qs, ctl) /\ ~TouchedIn(qs, ctl)
  BY <1>4, <1>5 DEF OneAsks, Asks, TouchedIn, Touches
<1>7. OffNamesOn(term, qs)
  BY <1>4, <1>5 DEF OffNamesOn
<1>8. \A t, ctl, v : Ends(t, qs, ctl, v) <=> Ends(t, toTerm, ctl, v)
  <2>1. \A t, ctl, v : Ends(t, qs, ctl, v) <=> t[ctl] = v
    BY <1>4, <1>6 DEF Ends, Becomes, TouchedIn
  <2> QED BY <1>2, <2>1, EmptyFacts
<1>9. TypeOK'
  BY <1>1, <1>3, <1>4 DEF IInv, TypeOK
<1>10. Quiet' /\ \A ctl \in Queries : AskedOnce(ctl)'
  BY <1>1, <1>2, <1>3, <1>6 DEF IInv, Quiet, AskedOnce, Held
<1>11. RepliesWhole' /\ AnswersHidden'
  BY <1>1 DEF IInv, RepliesWhole, AnswersHidden
<1>12. Mirrored' /\ ShapeMirrored'
  BY <1>1, <1>3, <1>6, <1>7, <1>8 DEF IInv, Mirrored, ShapeMirrored, WillBe
<1>13. HiddenWillBe' /\ BlinkWillBe' /\ CursorMirrored' /\ FreedModes'
  BY <1>1, <1>3, <1>6, <1>8 DEF IInv, HiddenWillBe, BlinkWillBe, CursorMirrored,
     FreedModes, WillBe
<1> QED BY <1>9, <1>10, <1>11, <1>12, <1>13 DEF IInv

LEMMA AwaitStep ==
  ASSUME IInv, Await
  PROVE  IInv'
<1>1. /\ state' = "STARTED"
      /\ UNCHANGED <<mode, cap, initialised, dcs, term, toTerm, fromTerm, typed,
                     heard, opened, early>>
  BY DEF Await, channels, ghosts
<1>2. TypeOK' /\ Quiet' /\ \A ctl \in Queries : AskedOnce(ctl)'
  BY <1>1 DEF IInv, TypeOK, Quiet, AskedOnce, Held
<1>3. RepliesWhole' /\ AnswersHidden' /\ Mirrored' /\ ShapeMirrored'
  BY <1>1 DEF IInv, RepliesWhole, AnswersHidden, Mirrored, ShapeMirrored, WillBe
<1>4. HiddenWillBe' /\ BlinkWillBe' /\ CursorMirrored' /\ FreedModes'
  BY <1>1 DEF IInv, HiddenWillBe, BlinkWillBe, CursorMirrored, FreedModes, WillBe
<1> QED BY <1>2, <1>3, <1>4 DEF IInv

(* What the user types is no answer. *)
LEMMA TypeStep ==
  ASSUME IInv, Type
  PROVE  IInv'
<1>1. PICK key \in UserKeys : fromTerm' = Append(fromTerm, key)
  BY DEF Type
<1>2. /\ typed' = typed + 1
      /\ UNCHANGED <<state, mode, cap, initialised, dcs, term, toTerm, heard,
                     opened, early>>
  BY DEF Type, driver
<1> DEFINE n == Len(fromTerm)
           r == Append(fromTerm, key)
<1>3. key \in Keys /\ key.kind \in {"text", "altP", "altBackslash", "function"}
  BY DEF Keys, UserKeys, Key
<1>4. fromTerm \in Seq(Keys)
  BY DEF IInv, TypeOK
<1>5. /\ r \in Seq(Keys) /\ n \in Nat /\ DOMAIN r = 1..n + 1
      /\ DOMAIN fromTerm = 1..n
      /\ \A i \in 1..n : r[i] = fromTerm[i]
      /\ r[n + 1] = key /\ r # <<>>
  BY <1>3, <1>4
<1> HIDE DEF n, r
<1>6. \A ctl : /\ ToldIn(r, ctl) <=> ToldIn(fromTerm, ctl)
               /\ OneTells(fromTerm, ctl) => OneTells(r, ctl)
  BY <1>3, <1>5 DEF ToldIn, OneTells, Tells
<1>7. fromTerm' = r
  BY <1>1 DEF r
<1>8. Whole(r, dcs # NoDcs)
  BY <1>3, <1>5 DEF IInv, RepliesWhole, Whole
<1>9. /\ NotSaidOn(r) <=> NotSaidOn(fromTerm)
      /\ \A shape : Reports(fromTerm, shape) => Reports(r, shape)
  BY <1>3, <1>5 DEF NotSaidOn, Tells, Reports
<1>10. TypeOK' /\ Quiet' /\ \A ctl \in Queries : AskedOnce(ctl)'
  BY <1>2, <1>5, <1>6, <1>7 DEF IInv, TypeOK, Quiet, AskedOnce, Held
<1>11. RepliesWhole'
  <2>1. fromTerm # <<>> => r[1] = fromTerm[1]
    BY <1>4, <1>5
  <2> QED BY <1>2, <1>5, <1>7, <1>8, <2>1 DEF IInv, RepliesWhole
<1>12. AnswersHidden' /\ Mirrored' /\ ShapeMirrored'
  BY <1>2, <1>7, <1>9 DEF IInv, AnswersHidden, Mirrored, ShapeMirrored, WillBe
<1>13. HiddenWillBe' /\ BlinkWillBe' /\ CursorMirrored' /\ FreedModes'
  BY <1>2, <1>7, <1>9 DEF IInv, HiddenWillBe, BlinkWillBe, CursorMirrored,
     FreedModes, WillBe
<1> QED BY <1>10, <1>11, <1>12, <1>13 DEF IInv

-----------------------------------------------------------------------------
(* Setting a control sends at most one command. *)
LEMMA SentCommand ==
  ASSUME TypeOK, NEW ctl \in Ctls, NEW value \in Values(ctl), ~Cached(ctl, value)
  PROVE  \/ Sequence(ctl, value) = <<>> /\ ctl = "cursorshape" /\ ~cap.cursorshape
         \/ \E c \in Commands :
              /\ Sequence(ctl, value) = <<c>> /\ c.op # "query"
              /\ c.op = "clear" => ctl = "mouse" /\ c.value = mode.mouse
              /\ \A k \in AllCtls :
                   IF k = ctl THEN Touches(c, k) /\ Leaves(c, k) = value
                   ELSE Touches(c, k) =>
                          /\ k = "cursorblink" /\ ctl = "cursorshape"
                          /\ Leaves(c, k) = mode.cursorblink
              /\ ctl = "cursorshape" => cap.cursorshape
<1>1. /\ mode.mouse \in 0..3 /\ mode.cursorblink \in 0..1
      /\ ctl \in AllCtls /\ MouseModes \subseteq 0..3
      /\ cap.cursorshape \in BOOLEAN
  BY DriverAssumption DEF TypeOK, Modes
<1>2. CASE ctl = "mouse" /\ value = 0
  <2> DEFINE c == Clear("mouse", mode.mouse)
  <2>1. Sequence(ctl, value) = <<c>>
    BY <1>2 DEF Sequence, MouseSequence
  <2>2. mode.mouse \in 1..3
    BY <1>1, <1>2 DEF Cached
  <2>3. c \in Commands
    BY <2>2 DEF Commands
  <2>4. c.op = "clear" /\ c.ctl = "mouse" /\ c.value = mode.mouse
    BY DEF Clear
  <2> QED BY <1>2, <2>1, <2>3, <2>4 DEF Touches, Leaves
<1>3. CASE ctl = "mouse" /\ value # 0
  <2> DEFINE c == Set("mouse", value)
  <2>1. Sequence(ctl, value) = <<c>>
    BY <1>3 DEF Sequence, MouseSequence
  <2>2. value \in 1..3
    BY <1>1, <1>3 DEF Values
  <2>3. c \in Commands
    BY <2>2 DEF Commands
  <2>4. c.op = "set" /\ c.ctl = "mouse" /\ c.value = value
    BY DEF Set
  <2> QED BY <1>3, <2>1, <2>3, <2>4 DEF Touches, Leaves
<1>4. CASE ctl = "cursorshape" /\ cap.cursorshape
  <2> DEFINE c == Set("cursorshape", value * 2 - mode.cursorblink)
  <2>1. Sequence(ctl, value) = <<c>>
    BY <1>4 DEF Sequence, ShapeSequence
  <2>2. value \in 1..3
    BY <1>4 DEF Values
  <2>3. /\ value * 2 - mode.cursorblink \in 1..6
        /\ (value * 2 - mode.cursorblink + 1) \div 2 = value
        /\ (value * 2 - mode.cursorblink) % 2 = mode.cursorblink
    BY <1>1, <2>2
  <2>4. c \in Commands
    BY <2>3 DEF Commands
  <2>5. c.op = "set" /\ c.ctl = "cursorshape" /\ c.value = value * 2 - mode.cursorblink
    BY DEF Set
  <2> HIDE DEF c
  <2>6. \A k \in AllCtls :
          IF k = ctl THEN Touches(c, k) /\ Leaves(c, k) = value
          ELSE Touches(c, k) =>
                 /\ k = "cursorblink" /\ ctl = "cursorshape"
                 /\ Leaves(c, k) = mode.cursorblink
    BY <1>4, <2>3, <2>5 DEF Touches, Leaves
  <2> QED BY <1>4, <2>1, <2>4, <2>5, <2>6
<1>5. CASE ctl = "cursorshape" /\ ~cap.cursorshape
  BY <1>5 DEF Sequence, ShapeSequence
<1>6. CASE ctl \notin {"mouse", "cursorshape"}
  <2> DEFINE c == Set(ctl, value)
  <2>1. Sequence(ctl, value) = <<c>>
    BY <1>6 DEF Sequence
  <2>2. value \in 0..1
    BY <1>6 DEF Values
  <2>3. c \in Commands
    BY <1>1, <1>6, <2>2 DEF Commands
  <2>4. c.op = "set" /\ c.ctl = ctl /\ c.value = value
    BY DEF Set
  <2> HIDE DEF c
  <2> QED BY <1>6, <2>1, <2>3, <2>4 DEF Touches, Leaves
<1> QED BY <1>1, <1>2, <1>3, <1>4, <1>5, <1>6

LEMMA SetCtlStep ==
  ASSUME IInv, NEW ctl \in Ctls, NEW value \in Values(ctl), SetCtl(ctl, value)
  PROVE  IInv'
<1>1. /\ state \in {"STARTING", "STARTED"}
      /\ early' = (early \/ (ctl = "cursorvis" /\ ctl \notin initialised))
      /\ UNCHANGED <<state, cap, initialised, dcs, term, fromTerm, typed, heard,
                     opened>>
  BY DEF SetCtl
<1>2. early \in BOOLEAN /\ early' \in BOOLEAN /\ (~early' => ~early)
  BY <1>1, Zenon DEF IInv, TypeOK
<1>3. Quiet' /\ RepliesWhole' /\ AnswersHidden' /\ FreedModes'
  BY <1>1 DEF IInv, Quiet, RepliesWhole, AnswersHidden, FreedModes
<1>4. ASSUME UNCHANGED toTerm
      PROVE  /\ toTerm' \in Seq(Commands) /\ \A k \in Queries : AskedOnce(k)'
             /\ OffNamesOn(term', toTerm')
             /\ TouchedIn(toTerm, "cursorshape") <=> TouchedIn(toTerm', "cursorshape")
             /\ \A k, v : WillBe(k, v)' <=> WillBe(k, v)
  BY <1>1, <1>4 DEF IInv, TypeOK, AskedOnce, Held, Mirrored, WillBe
<1>5. CASE Cached(ctl, value)
  <2>1. UNCHANGED <<mode, toTerm>>
    BY <1>5 DEF SetCtl
  <2>2. TypeOK'
    BY <1>1, <1>2, <2>1 DEF IInv, TypeOK
  <2>3. Mirrored' /\ ShapeMirrored' /\ HiddenWillBe' /\ BlinkWillBe'
    BY <1>1, <2>1 DEF IInv, Mirrored, ShapeMirrored, HiddenWillBe, BlinkWillBe, WillBe
  <2>4. CursorMirrored'
    BY <1>1, <1>2, <2>1 DEF IInv, CursorMirrored, WillBe
  <2> QED BY <1>3, <1>4, <2>1, <2>2, <2>3, <2>4 DEF IInv
<1>6. CASE ~Cached(ctl, value)
  <2>1. /\ mode' = ModeAfter(ctl, value)
        /\ toTerm' = toTerm \o Sequence(ctl, value)
    BY <1>6 DEF SetCtl
  <2>2. ctl \in AllCtls /\ mode \in Modes /\ toTerm \in Seq(Commands)
    BY DriverAssumption DEF IInv, TypeOK
  <2>3. mode' \in Modes
    BY <2>1, <2>2, DriverAssumption DEF ModeAfter, Values, Modes, AllCtls
  <2>4. \A k \in AllCtls \ {"keypad"} : mode'[k] = IF k = ctl THEN value ELSE mode[k]
    BY <2>1, <2>2 DEF ModeAfter, Modes, AllCtls
  <2>5. CASE Sequence(ctl, value) = <<>> /\ ctl = "cursorshape" /\ ~cap.cursorshape
    <3>1. toTerm' = toTerm
      BY <2>1, <2>2, <2>5
    <3>2. /\ mode'.altscreen = mode.altscreen /\ mode'.mouse = mode.mouse
          /\ mode'.cursorvis = mode.cursorvis /\ mode'.cursorblink = mode.cursorblink
      BY <2>4, <2>5 DEF AllCtls
    <3>3. TypeOK'
      BY <1>1, <1>2, <2>3, <3>1 DEF IInv, TypeOK
    <3>4. Mirrored' /\ ShapeMirrored' /\ HiddenWillBe' /\ BlinkWillBe'
      BY <1>1, <2>5, <3>1, <3>2
         DEF IInv, Mirrored, ShapeMirrored, HiddenWillBe, BlinkWillBe, WillBe
    <3>5. CursorMirrored'
      BY <1>1, <1>2, <3>1, <3>2 DEF IInv, CursorMirrored, WillBe
    <3> QED BY <1>3, <1>4, <3>1, <3>3, <3>4, <3>5 DEF IInv
  <2>6. ASSUME NEW c \in Commands, Sequence(ctl, value) = <<c>>, c.op # "query",
               c.op = "clear" => ctl = "mouse" /\ c.value = mode.mouse,
               \A k \in AllCtls :
                 IF k = ctl THEN Touches(c, k) /\ Leaves(c, k) = value
                 ELSE Touches(c, k) =>
                        /\ k = "cursorblink" /\ ctl = "cursorshape"
                        /\ Leaves(c, k) = mode.cursorblink,
               ctl = "cursorshape" => cap.cursorshape
        PROVE  IInv'
    <3>1. toTerm' = toTerm \o <<c>>
      BY <2>1, <2>6
    <3>2. OffNamesOn(term, toTerm) /\ (c.op = "clear" => Ends(term, toTerm, "mouse", c.value))
      BY <2>6 DEF IInv, Mirrored, WillBe
    <3>3. /\ toTerm' \in Seq(Commands) /\ OffNamesOn(term, toTerm')
          /\ \A k : /\ AskedIn(toTerm', k) <=> AskedIn(toTerm, k)
                    /\ OneAsks(toTerm, k) => OneAsks(toTerm', k)
                    /\ TouchedIn(toTerm', k) <=> TouchedIn(toTerm, k) \/ Touches(c, k)
          /\ \A k, v : Ends(term, toTerm', k, v) <=>
               IF Touches(c, k) THEN Leaves(c, k) = v ELSE Ends(term, toTerm, k, v)
      BY <2>2, <2>6, <3>1, <3>2, SentOne
    <3>4. \A k \in AllCtls \ {"cursorblink", "keypad"} :
            \A v : WillBe(k, v)' <=> IF k = ctl THEN v = value ELSE WillBe(k, v)
      BY <1>1, <2>6, <3>3 DEF WillBe
    <3>5. TypeOK' /\ \A k \in Queries : AskedOnce(k)'
      BY <1>1, <1>2, <2>3, <3>3 DEF IInv, TypeOK, AskedOnce, Held
    <3>6. Mirrored'
      <4>1. WillBe("altscreen", mode.altscreen)'
        BY <2>4, <3>4 DEF IInv, Mirrored, AllCtls
      <4>2. WillBe("mouse", mode.mouse)'
        BY <2>4, <3>4 DEF IInv, Mirrored, AllCtls
      <4> QED BY <1>1, <3>3, <4>1, <4>2 DEF Mirrored
    <3>7. ShapeMirrored'
      <4>1. CASE cap.cursorshape
        <5>1. "cursorshape" \in initialised /\ WillBe("cursorshape", mode.cursorshape)
          BY <4>1 DEF IInv, ShapeMirrored
        <5>2. WillBe("cursorshape", mode.cursorshape)'
          BY <2>4, <3>4, <5>1 DEF AllCtls
        <5> QED BY <1>1, <4>1, <5>1, <5>2 DEF ShapeMirrored
      <4>2. CASE ~cap.cursorshape
        <5>1. ~TouchedIn(toTerm', "cursorshape")
          BY <2>6, <3>3, <4>2 DEF IInv, ShapeMirrored, AllCtls
        <5> QED BY <1>1, <4>2, <5>1 DEF IInv, ShapeMirrored
      <4> QED BY <4>1, <4>2
    <3>8. HiddenWillBe'
      BY <2>4, <3>4 DEF IInv, HiddenWillBe, AllCtls
    <3>9. BlinkWillBe'
      <4> SUFFICES ASSUME mode'.cursorblink = 0
                   PROVE  \/ WillBe("cursorblink", 0)'
                          \/ /\ ~TouchedIn(toTerm', "cursorblink")
                             /\ ~("cursorblink" \in initialised \/ NotSaidOn(fromTerm))
                                  \/ "cursorblink" \in term.unknown
        BY <1>1 DEF BlinkWillBe
      <4>1. CASE Touches(c, "cursorblink")
        <5>1. Leaves(c, "cursorblink") = 0
          BY <2>4, <2>6, <4>1 DEF AllCtls
        <5> QED BY <1>1, <3>3, <4>1, <5>1 DEF WillBe
      <4>2. CASE ~Touches(c, "cursorblink")
        <5>1. mode.cursorblink = 0
          BY <2>4, <2>6, <4>2 DEF AllCtls
        <5>2. /\ WillBe("cursorblink", 0)' <=> WillBe("cursorblink", 0)
              /\ TouchedIn(toTerm', "cursorblink") <=> TouchedIn(toTerm, "cursorblink")
          BY <1>1, <3>3, <4>2 DEF WillBe
        <5> QED BY <5>1, <5>2 DEF IInv, BlinkWillBe
      <4> QED BY <4>1, <4>2
    <3>10. CursorMirrored'
      <4> SUFFICES ASSUME ~term.hiddenBefore, ~early'
                   PROVE  /\ WillBe("cursorvis", mode.cursorvis)'
                          /\ "cursorvis" \notin initialised => mode'.cursorvis = 1
        BY <1>1 DEF CursorMirrored
      <4>1. /\ WillBe("cursorvis", mode.cursorvis)
            /\ "cursorvis" \notin initialised => mode.cursorvis = 1
        BY <1>2 DEF IInv, CursorMirrored
      <4>2. WillBe("cursorvis", mode.cursorvis)'
        BY <2>4, <3>4, <4>1 DEF AllCtls
      <4>3. ctl = "cursorvis" => ctl \in initialised
        BY <1>1
      <4> QED BY <2>4, <4>1, <4>2, <4>3 DEF AllCtls
    <3> QED BY <1>3, <3>5, <3>6, <3>7, <3>8, <3>9, <3>10 DEF IInv
  <2>7. TypeOK
    BY DEF IInv
  <2> QED BY <1>6, <2>5, <2>6, <2>7, SentCommand
<1> QED BY <1>5, <1>6

LEMMA SentWhen ==
  ASSUME NEW t, NEW s \in Seq(Commands), NEW c, NEW test \in BOOLEAN,
         test => /\ c \in Commands /\ c.op # "query"
                 /\ c.op = "clear" => Ends(t, s, "mouse", c.value),
         OffNamesOn(t, s)
  PROVE  LET r == s \o (IF test THEN <<c>> ELSE <<>>) IN
         /\ r \in Seq(Commands) /\ OffNamesOn(t, r)
         /\ \A ctl : /\ AskedIn(r, ctl) <=> AskedIn(s, ctl)
                     /\ OneAsks(s, ctl) => OneAsks(r, ctl)
                     /\ TouchedIn(r, ctl) => TouchedIn(s, ctl) \/ (test /\ Touches(c, ctl))
         /\ \A ctl, v : Ends(t, r, ctl, v) <=>
              IF test /\ Touches(c, ctl) THEN Leaves(c, ctl) = v ELSE Ends(t, s, ctl, v)
<1>1. CASE test
  BY <1>1, SentOne
<1>2. CASE ~test
  <2>1. s \o <<>> = s
    OBVIOUS
  <2> QED BY <1>2, <2>1
<1> QED BY <1>1, <1>2

(* The commands of stop put every mode back that they find set.            *)
LEMMA StopStep ==
  ASSUME IInv, Stop
  PROVE  IInv'
<1> DEFINE c1 == Clear("mouse", mode.mouse)
           c2 == Set("cursorvis", 1)
           c3 == Set("altscreen", 0)
           When(test, c) == IF test THEN <<c>> ELSE <<>>
           s1 == toTerm \o When(mode.mouse # 0, c1)
           s2 == s1 \o When(mode.cursorvis = 0, c2)
           s3 == s2 \o When(mode.altscreen = 1, c3)
<1>1. /\ state' = "FREED"
      /\ mode' = [mode EXCEPT !.mouse = 0, !.cursorvis = 1, !.altscreen = 0]
      /\ UNCHANGED <<cap, initialised, dcs, term, fromTerm, typed, heard, opened, early>>
  BY DEF Stop, ghosts
<1>2. mode \in Modes /\ toTerm \in Seq(Commands)
  BY DEF IInv, TypeOK
<1>3. /\ mode.altscreen \in 0..1 /\ mode.cursorvis \in 0..1 /\ mode.mouse \in 0..3
      /\ mode.keypad = 0
  BY <1>2 DEF Modes
<1>4. /\ c1.op = "clear" /\ c1.ctl = "mouse" /\ c1.value = mode.mouse
      /\ c2.op = "set" /\ c2.ctl = "cursorvis" /\ c2.value = 1 /\ c2 \in Commands
      /\ c3.op = "set" /\ c3.ctl = "altscreen" /\ c3.value = 0 /\ c3 \in Commands
      /\ mode.mouse # 0 => c1 \in Commands
  BY <1>3 DEF Commands, Clear, Set, AllCtls
<1>5. toTerm' = s3
  <2>1. MouseSequence(0) = <<c1>>
    BY DEF MouseSequence
  <2>2. toTerm' = toTerm \o (IF mode.mouse # 0 THEN MouseSequence(0) ELSE <<>>)
                         \o When(mode.cursorvis = 0, c2)
                         \o When(mode.altscreen = 1, c3)
                         \o When(mode.keypad = 1, Set("keypad", 0))
    BY DEF Stop
  <2>3. (IF mode.mouse # 0 THEN MouseSequence(0) ELSE <<>>) = When(mode.mouse # 0, c1)
    BY <2>1
  <2>4. When(mode.keypad = 1, Set("keypad", 0)) = <<>>
    BY <1>3
  <2> HIDE DEF When
  <2>5. toTerm' = s3 \o <<>>
    BY <2>2, <2>3, <2>4
  <2>6. s3 \in Seq(Commands)
    BY <1>2, <1>4 DEF When
  <2> QED BY <2>5, <2>6
<1> HIDE DEF c1, c2, c3
<1>6. /\ OffNamesOn(term, toTerm) /\ Ends(term, toTerm, "mouse", c1.value)
      /\ Ends(term, toTerm, "altscreen", mode.altscreen)
  BY <1>4 DEF IInv, Mirrored, WillBe
<1>7. /\ s1 \in Seq(Commands) /\ OffNamesOn(term, s1)
      /\ \A ctl : /\ AskedIn(s1, ctl) <=> AskedIn(toTerm, ctl)
                  /\ OneAsks(toTerm, ctl) => OneAsks(s1, ctl)
                  /\ TouchedIn(s1, ctl) =>
                       TouchedIn(toTerm, ctl) \/ (mode.mouse # 0 /\ Touches(c1, ctl))
      /\ \A ctl, v : Ends(term, s1, ctl, v) <=>
           IF mode.mouse # 0 /\ Touches(c1, ctl) THEN Leaves(c1, ctl) = v
           ELSE Ends(term, toTerm, ctl, v)
  BY <1>2, <1>4, <1>6, SentWhen
<1> HIDE DEF s1
<1>8. /\ s2 \in Seq(Commands) /\ OffNamesOn(term, s2)
      /\ \A ctl : /\ AskedIn(s2, ctl) <=> AskedIn(s1, ctl)
                  /\ OneAsks(s1, ctl) => OneAsks(s2, ctl)
                  /\ TouchedIn(s2, ctl) =>
                       TouchedIn(s1, ctl) \/ (mode.cursorvis = 0 /\ Touches(c2, ctl))
      /\ \A ctl, v : Ends(term, s2, ctl, v) <=>
           IF mode.cursorvis = 0 /\ Touches(c2, ctl) THEN Leaves(c2, ctl) = v
           ELSE Ends(term, s1, ctl, v)
  BY <1>4, <1>7, SentWhen
<1> HIDE DEF s2
<1>9. /\ s3 \in Seq(Commands) /\ OffNamesOn(term, s3)
      /\ \A ctl : /\ AskedIn(s3, ctl) <=> AskedIn(s2, ctl)
                  /\ OneAsks(s2, ctl) => OneAsks(s3, ctl)
                  /\ TouchedIn(s3, ctl) =>
                       TouchedIn(s2, ctl) \/ (mode.altscreen = 1 /\ Touches(c3, ctl))
      /\ \A ctl, v : Ends(term, s3, ctl, v) <=>
           IF mode.altscreen = 1 /\ Touches(c3, ctl) THEN Leaves(c3, ctl) = v
           ELSE Ends(term, s2, ctl, v)
  BY <1>4, <1>8, SentWhen
<1> HIDE DEF s3
<1>10. /\ \A k : Touches(c1, k) <=> k = "mouse"
       /\ \A k : Touches(c2, k) <=> k = "cursorvis"
       /\ \A k : Touches(c3, k) <=> k = "altscreen"
       /\ Leaves(c1, "mouse") = 0 /\ Leaves(c2, "cursorvis") = 1
       /\ Leaves(c3, "altscreen") = 0
  BY <1>4 DEF Touches, Leaves
<1>11. /\ mode'.mouse = 0 /\ mode'.cursorvis = 1 /\ mode'.altscreen = 0
       /\ mode'.cursorblink = mode.cursorblink
       /\ mode'.cursorshape = mode.cursorshape /\ mode' \in Modes
  <2>1. mode' = [altscreen |-> 0, cursorvis |-> 1, cursorblink |-> mode.cursorblink,
                 mouse |-> 0, cursorshape |-> mode.cursorshape, keypad |-> mode.keypad]
    BY <1>1, <1>2 DEF Modes
  <2>2. mode' \in Modes
    BY <1>2, <2>1 DEF Modes
  <2> QED BY <2>1, <2>2
<1>12. \A k, v : k \notin {"mouse", "cursorvis", "altscreen"} =>
         /\ WillBe(k, v)' <=> WillBe(k, v)
         /\ TouchedIn(toTerm', k) => TouchedIn(toTerm, k)
  BY <1>1, <1>5, <1>7, <1>8, <1>9, <1>10 DEF WillBe
<1>13. TypeOK' /\ Quiet' /\ \A ctl \in Queries : AskedOnce(ctl)'
  BY <1>1, <1>5, <1>7, <1>8, <1>9, <1>11 DEF IInv, TypeOK, Quiet, AskedOnce, Held
<1>14. RepliesWhole' /\ AnswersHidden'
  BY <1>1 DEF IInv, RepliesWhole, AnswersHidden
<1>15. Mirrored'
  <2>1. WillBe("mouse", 0)'
    BY <1>1, <1>4, <1>5, <1>6, <1>7, <1>8, <1>9, <1>10 DEF WillBe
  <2>2. WillBe("altscreen", 0)'
    BY <1>1, <1>3, <1>5, <1>6, <1>7, <1>8, <1>9, <1>10 DEF WillBe
  <2> QED BY <1>1, <1>5, <1>9, <1>11, <2>1, <2>2 DEF Mirrored
<1>16. ShapeMirrored'
  BY <1>1, <1>11, <1>12 DEF IInv, ShapeMirrored
<1>17. HiddenWillBe' /\ FreedModes'
  BY <1>11 DEF HiddenWillBe, FreedModes
<1>18. BlinkWillBe'
  BY <1>1, <1>11, <1>12 DEF IInv, BlinkWillBe
<1>19. CursorMirrored'
  <2> SUFFICES ASSUME ~term.hiddenBefore, ~early
               PROVE  WillBe("cursorvis", 1)'
    BY <1>1, <1>11 DEF CursorMirrored
  <2>1. Ends(term, toTerm, "cursorvis", mode.cursorvis)
    BY DEF IInv, CursorMirrored, WillBe
  <2> QED BY <1>1, <1>3, <1>5, <1>7, <1>8, <1>9, <1>10, <2>1 DEF WillBe
<1> QED BY <1>13, <1>14, <1>15, <1>16, <1>17, <1>18, <1>19 DEF IInv

-----------------------------------------------------------------------------
(* A key is taken from those on their way. *)
LEMMA TakenOne ==
  ASSUME NEW s \in Seq(Keys), s # <<>>
  PROVE  LET key == Head(s)
             r == Tail(s)
         IN  /\ key \in Keys /\ key = s[1] /\ r \in Seq(Keys)
             /\ Len(s) > 1 => r # <<>> /\ r[1] = s[2]
             /\ \A ctl : /\ ToldIn(s, ctl) <=> Tells(key, ctl) \/ ToldIn(r, ctl)
                         /\ OneTells(s, ctl) =>
                              OneTells(r, ctl) /\ (Tells(key, ctl) => ~ToldIn(r, ctl))
             /\ \A shape : Reports(s, shape) =>
                  /\ Reports(r, shape)
                  /\ key.kind = "body" /\ key.value # 0 => ShapeOf(key.value) = shape
             /\ NotSaidOn(s) <=>
                  (Tells(key, "cursorblink") /\ key.value # 1) \/ NotSaidOn(r)
             /\ \A open, next : Whole(s, open) =>
                  /\ (key.kind = "altP" => next) => Whole(r, next)
                  /\ key.kind = "body" =>
                       open /\ r # <<>> /\ r[1].kind = "altBackslash"
<1> DEFINE key == Head(s)
           r == Tail(s)
           m == Len(r)
<1>1. /\ key \in Keys /\ r \in Seq(Keys) /\ key = s[1]
      /\ m \in Nat /\ Len(s) = m + 1 /\ DOMAIN s = 1..m + 1
      /\ DOMAIN r = 1..m /\ \A i \in 1..m : r[i] = s[i + 1]
  OBVIOUS
<1>8. m # 0 => r # <<>>
  <2>1. Len(<<>>) = 0
    OBVIOUS
  <2> QED BY <2>1
<1> HIDE DEF key, r, m
<1>2. /\ 1 \in DOMAIN s /\ \A i \in DOMAIN r : i + 1 \in DOMAIN s /\ s[i + 1] = r[i]
      /\ \A i \in DOMAIN s : i = 1 \/ (i - 1 \in DOMAIN r /\ s[i] = r[i - 1])
      /\ DOMAIN r \subseteq Int
  BY <1>1
<1>3. ASSUME NEW ctl
      PROVE  /\ ToldIn(s, ctl) <=> Tells(key, ctl) \/ ToldIn(r, ctl)
             /\ OneTells(s, ctl) =>
                  OneTells(r, ctl) /\ (Tells(key, ctl) => ~ToldIn(r, ctl))
  <2>1. ToldIn(s, ctl) => Tells(key, ctl) \/ ToldIn(r, ctl)
    BY <1>1, <1>2 DEF ToldIn
  <2>2. Tells(key, ctl) \/ ToldIn(r, ctl) => ToldIn(s, ctl)
    BY <1>1, <1>2 DEF ToldIn
  <2>3. ASSUME OneTells(s, ctl)
        PROVE  OneTells(r, ctl)
    <3> SUFFICES ASSUME NEW i \in DOMAIN r, NEW j \in DOMAIN r,
                        Tells(r[i], ctl), Tells(r[j], ctl)
                 PROVE  i = j
      BY DEF OneTells
    <3>1. i + 1 = j + 1
      BY <1>2, <2>3 DEF OneTells
    <3> QED BY <1>2, <3>1
  <2>4. ASSUME OneTells(s, ctl), Tells(key, ctl), NEW i \in DOMAIN r, Tells(r[i], ctl)
        PROVE  FALSE
    <3>1. i + 1 = 1
      BY <1>1, <1>2, <2>4 DEF OneTells
    <3> QED BY <1>1, <3>1
  <2> QED BY <2>1, <2>2, <2>3, <2>4 DEF ToldIn
<1>4. ASSUME NEW shape, Reports(s, shape)
      PROVE  /\ Reports(r, shape)
             /\ key.kind = "body" /\ key.value # 0 => ShapeOf(key.value) = shape
  <2>1. ASSUME NEW i \in DOMAIN r, r[i].kind = "body", r[i].value # 0
        PROVE  ShapeOf(r[i].value) = shape
    <3>1. i + 1 \in DOMAIN s /\ s[i + 1] = r[i]
      BY <1>2
    <3> QED BY <1>4, <2>1, <3>1 DEF Reports
  <2>2. key.kind = "body" /\ key.value # 0 => ShapeOf(key.value) = shape
    BY <1>1, <1>2, <1>4 DEF Reports
  <2> QED BY <2>1, <2>2 DEF Reports
<1>5. NotSaidOn(s) <=> (Tells(key, "cursorblink") /\ key.value # 1) \/ NotSaidOn(r)
  <2>1. NotSaidOn(s) => (Tells(key, "cursorblink") /\ key.value # 1) \/ NotSaidOn(r)
    BY <1>1, <1>2 DEF NotSaidOn
  <2>2. (Tells(key, "cursorblink") /\ key.value # 1) \/ NotSaidOn(r) => NotSaidOn(s)
    BY <1>1, <1>2 DEF NotSaidOn
  <2> QED BY <2>1, <2>2
<1>6. ASSUME NEW open, NEW next, Whole(s, open)
      PROVE  /\ (key.kind = "altP" => next) => Whole(r, next)
             /\ key.kind = "body" =>
                  open /\ r # <<>> /\ r[1].kind = "altBackslash"
  <2>1. ASSUME key.kind = "altP" => next
        PROVE  Whole(r, next)
    <3> SUFFICES ASSUME NEW i \in 1..m, r[i].kind = "body"
                 PROVE  /\ i = 1 => next
                        /\ i # 1 => r[i - 1].kind = "altP"
                        /\ i + 1 \in 1..m /\ r[i + 1].kind = "altBackslash"
      BY <1>1 DEF Whole
    <3>1. s[i + 1] = r[i] /\ i + 1 \in 1..m + 1 /\ i + 1 # 1 /\ (i + 1) - 1 = i
      <4>1. i \in Int /\ i >= 1 /\ i <= m /\ m \in Nat
        BY <1>1
      <4>2. i + 1 \in 1..m + 1 /\ i + 1 # 1 /\ (i + 1) - 1 = i
        BY ONLY <4>1
      <4>3. s[i + 1] = r[i]
        BY <1>1, Zenon
      <4> QED BY <4>2, <4>3
    <3>2. /\ s[i].kind = "altP" /\ (i + 1) + 1 \in 1..m + 1
          /\ s[(i + 1) + 1].kind = "altBackslash"
      <4>1. s[i + 1].kind = "body" /\ i + 1 \in DOMAIN s
        BY <1>1, <3>1
      <4>2. /\ (i + 1) + 1 \in DOMAIN s /\ s[(i + 1) + 1].kind = "altBackslash"
            /\ s[(i + 1) - 1].kind = "altP"
        BY <1>6, <3>1, <4>1, Zenon DEF Whole
      <4> QED BY <1>1, <3>1, <4>2
    <3>3. i + 1 \in 1..m /\ r[i + 1].kind = "altBackslash"
      BY <1>1, <3>2
    <3>4. CASE i = 1
      BY <1>1, <2>1, <3>2, <3>3, <3>4
    <3>5. CASE i # 1
      BY <1>1, <1>2, <3>2, <3>3, <3>5
    <3> QED BY <3>4, <3>5
  <2>2. ASSUME key.kind = "body"
        PROVE  open /\ r # <<>> /\ r[1].kind = "altBackslash"
    <3>1. open /\ 1 + 1 \in 1..m + 1 /\ s[1 + 1].kind = "altBackslash"
      BY <1>1, <1>6, <2>2 DEF Whole
    <3> QED BY <1>1, <1>8, <3>1
  <2> QED BY <2>1, <2>2
<1>7. Len(s) > 1 => r # <<>> /\ r[1] = s[2]
  BY <1>1, <1>8
<1> QED BY <1>1, <1>3, <1>4, <1>5, <1>6, <1>7 DEF key, r

(* The answer to a query tells of its control once, and tells the truth.   *)
LEMMA AnswerFacts ==
  ASSUME TypeOK, NEW ctl \in Queries
  PROVE  LET a == Answer(ctl) IN
         /\ a \in Seq(Keys)
         /\ \A k : (ToldIn(a, k) => k = ctl) /\ OneTells(a, k)
         /\ Whole(a, FALSE) /\ Reports(a, term.cursorshape)
         /\ NotSaidOn(a) /\ "cursorblink" \notin term.unknown => term.cursorblink = 0
<1> DEFINE a == Answer(ctl)
<1>1. /\ term.cursorshape \in 1..3 /\ term.cursorblink \in 0..1
      /\ term.cursorvis \in 0..1
  BY DEF TypeOK, TerminalStates
<1>2. CASE ctl \in term.silent
  <2>1. a = <<>>
    BY <1>2 DEF Answer
  <2>2. DOMAIN <<>> = {}
    OBVIOUS
  <2> QED BY <2>1, <2>2, EmptyFacts DEF Whole
<1>3. CASE ctl \notin term.silent /\ ctl = "cursorshape"
  <2> DEFINE value == IF ctl \in term.unknown THEN 0
                      ELSE term.cursorshape * 2 - term.cursorblink
             b == Body(value)
  <2>1. a = <<Key("altP"), b, Key("altBackslash")>>
    BY <1>3 DEF Answer
  <2>2. value \in 0..6 /\ (value # 0 => (value + 1) \div 2 = term.cursorshape)
    BY <1>1
  <2> HIDE DEF value
  <2>3. b \in Keys /\ Key("altP") \in Keys /\ Key("altBackslash") \in Keys
    BY <2>2 DEF Keys, UserKeys, ReplyKeys
  <2>4. /\ b.kind = "body" /\ b.ctl = "cursorshape" /\ b.value = value
        /\ Key("altP").kind = "altP" /\ Key("altBackslash").kind = "altBackslash"
    BY DEF Body, Key
  <2> HIDE DEF b, a
  <2>5. /\ a \in Seq(Keys) /\ DOMAIN a = 1..3 /\ a[2] = b
        /\ a[1] = Key("altP") /\ a[3] = Key("altBackslash")
    BY <2>1, <2>3
  <2>6. \A k : (ToldIn(a, k) => k = ctl) /\ OneTells(a, k)
    BY <1>3, <2>4, <2>5 DEF ToldIn, OneTells, Tells
  <2>7. Whole(a, FALSE) /\ ~NotSaidOn(a)
    BY <2>4, <2>5 DEF Whole, NotSaidOn, Tells
  <2>8. Reports(a, term.cursorshape)
    BY <2>2, <2>4, <2>5 DEF Reports, ShapeOf
  <2> QED BY <2>5, <2>6, <2>7, <2>8 DEF a
<1>4. CASE ctl \notin term.silent /\ ctl # "cursorshape"
  <2>1. PICK v \in 0..2 : /\ a = <<Report(ctl, v)>>
                          /\ ctl = "cursorblink" /\ v # 1 /\ ctl \notin term.unknown
                               => term.cursorblink = 0
    <3>1. CASE ctl = "slrm"
      BY <1>4, <3>1 DEF Answer
    <3>2. CASE ctl # "slrm"
      <4>1. ctl \in {"cursorvis", "cursorblink"}
        BY <1>4, <3>2 DEF Queries
      <4>2. 2 - term[ctl] \in 0..2
        BY <1>1, <4>1
      <4>3. a = <<Report(ctl, IF ctl \in term.unknown THEN 0 ELSE 2 - term[ctl])>>
        BY <1>4, <3>2 DEF Answer
      <4> QED BY <1>1, <4>1, <4>2, <4>3
    <3> QED BY <3>1, <3>2
  <2> DEFINE key == Report(ctl, v)
  <2>2. key \in Keys
    BY <1>4 DEF Keys, ReplyKeys
  <2>3. key.kind = "report" /\ key.ctl = ctl /\ key.value = v
    BY DEF Report
  <2> HIDE DEF key, a
  <2>4. a \in Seq(Keys) /\ DOMAIN a = 1..1 /\ a[1] = key
    BY <2>1, <2>2 DEF key
  <2>5. \A k : (ToldIn(a, k) => k = ctl) /\ OneTells(a, k)
    BY <2>3, <2>4 DEF ToldIn, OneTells, Tells
  <2>6. Whole(a, FALSE) /\ Reports(a, term.cursorshape)
    BY <2>3, <2>4 DEF Whole, Reports
  <2>7. NotSaidOn(a) /\ "cursorblink" \notin term.unknown => term.cursorblink = 0
    BY <2>1, <2>3, <2>4 DEF NotSaidOn, Tells
  <2> QED BY <2>4, <2>5, <2>6, <2>7 DEF a
<1> QED BY <1>2, <1>3, <1>4

(* Keys that are whole come after those on their way. *)
LEMMA Joined ==
  ASSUME NEW s \in Seq(Keys), NEW a \in Seq(Keys), Whole(a, FALSE)
  PROVE  /\ s \o a \in Seq(Keys)
         /\ \A ctl : /\ ToldIn(s \o a, ctl) <=> ToldIn(s, ctl) \/ ToldIn(a, ctl)
                     /\ ~(ToldIn(s, ctl) /\ ToldIn(a, ctl))
                          /\ OneTells(s, ctl) /\ OneTells(a, ctl)
                          => OneTells(s \o a, ctl)
         /\ \A shape : Reports(s, shape) /\ Reports(a, shape) => Reports(s \o a, shape)
         /\ NotSaidOn(s \o a) <=> NotSaidOn(s) \/ NotSaidOn(a)
         /\ \A open : Whole(s, open) => Whole(s \o a, open)
         /\ s # <<>> => s \o a # <<>> /\ (s \o a)[1] = s[1]
<1> DEFINE r == s \o a
           n == Len(s)
           m == Len(a)
<1>1. /\ r \in Seq(Keys) /\ n \in Nat /\ m \in Nat
      /\ DOMAIN r = 1..n + m /\ DOMAIN s = 1..n /\ DOMAIN a = 1..m
      /\ \A i \in 1..n : r[i] = s[i]
      /\ \A i \in 1..m : r[n + i] = a[i]
  OBVIOUS
<1>10. s # <<>> => 1 \in 1..n /\ r # <<>>
  OBVIOUS
<1> HIDE DEF r, n, m
<1>2. /\ \A i \in DOMAIN s : i \in DOMAIN r /\ r[i] = s[i]
      /\ \A i \in DOMAIN a : n + i \in DOMAIN r /\ r[n + i] = a[i]
      /\ \A i \in DOMAIN r : \/ i \in DOMAIN s /\ r[i] = s[i]
                             \/ i - n \in DOMAIN a /\ r[i] = a[i - n]
      /\ DOMAIN r \subseteq Int
  <2>1. \A i \in DOMAIN s : i \in DOMAIN r /\ r[i] = s[i]
    BY <1>1
  <2>2. \A i \in DOMAIN a : n + i \in DOMAIN r /\ r[n + i] = a[i]
    BY <1>1
  <2>3. ASSUME NEW i \in DOMAIN r, i \notin DOMAIN s
        PROVE  i - n \in DOMAIN a /\ r[i] = a[i - n]
    <3>1. i - n \in 1..m /\ n + (i - n) = i
      BY <1>1, <2>3
    <3> QED BY <1>1, <3>1
  <2>4. \A i \in DOMAIN r : \/ i \in DOMAIN s /\ r[i] = s[i]
                            \/ i - n \in DOMAIN a /\ r[i] = a[i - n]
    BY <2>1, <2>3
  <2>5. DOMAIN r \subseteq Int
    BY <1>1
  <2> QED BY <2>1, <2>2, <2>4, <2>5
<1>4. ASSUME NEW ctl
      PROVE  ToldIn(r, ctl) <=> ToldIn(s, ctl) \/ ToldIn(a, ctl)
  <2>1. ToldIn(r, ctl) => ToldIn(s, ctl) \/ ToldIn(a, ctl)
    BY <1>2 DEF ToldIn
  <2>2. ToldIn(s, ctl) => ToldIn(r, ctl)
    BY <1>2 DEF ToldIn
  <2>3. ToldIn(a, ctl) => ToldIn(r, ctl)
    BY <1>2 DEF ToldIn
  <2> QED BY <2>1, <2>2, <2>3
<1>5. ASSUME NEW ctl, ~(ToldIn(s, ctl) /\ ToldIn(a, ctl)),
             OneTells(s, ctl), OneTells(a, ctl)
      PROVE  OneTells(r, ctl)
  <2> SUFFICES ASSUME NEW i \in DOMAIN r, NEW j \in DOMAIN r,
                      Tells(r[i], ctl), Tells(r[j], ctl)
               PROVE  i = j
    BY DEF OneTells
  <2>1. CASE i \in DOMAIN s /\ r[i] = s[i]
    <3>1. ToldIn(s, ctl)
      BY <2>1 DEF ToldIn
    <3>2. j \in DOMAIN s /\ r[j] = s[j]
      BY <1>2, <1>5, <3>1 DEF ToldIn
    <3> QED BY <1>5, <2>1, <3>2 DEF OneTells
  <2>2. CASE i - n \in DOMAIN a /\ r[i] = a[i - n]
    <3>1. ToldIn(a, ctl)
      BY <2>2 DEF ToldIn
    <3>2. j - n \in DOMAIN a /\ r[j] = a[j - n]
      BY <1>2, <1>5, <3>1 DEF ToldIn
    <3>3. i - n = j - n
      BY <1>5, <2>2, <3>2 DEF OneTells
    <3> QED BY <1>1, <1>2, <3>3
  <2> QED BY <1>2, <2>1, <2>2
<1>6. ASSUME NEW shape, Reports(s, shape), Reports(a, shape)
      PROVE  Reports(r, shape)
  <2> SUFFICES ASSUME NEW i \in DOMAIN r, r[i].kind = "body", r[i].value # 0
               PROVE  ShapeOf(r[i].value) = shape
    BY DEF Reports
  <2> QED BY <1>2, <1>6 DEF Reports
<1>7. NotSaidOn(r) <=> NotSaidOn(s) \/ NotSaidOn(a)
  <2>1. NotSaidOn(r) => NotSaidOn(s) \/ NotSaidOn(a)
    BY <1>2 DEF NotSaidOn
  <2>2. NotSaidOn(s) => NotSaidOn(r)
    BY <1>2 DEF NotSaidOn
  <2>3. NotSaidOn(a) => NotSaidOn(r)
    BY <1>2 DEF NotSaidOn
  <2> QED BY <2>1, <2>2, <2>3
<1>8. ASSUME NEW open, Whole(s, open)
      PROVE  Whole(r, open)
  <2> SUFFICES ASSUME NEW i \in 1..n + m, r[i].kind = "body"
               PROVE  /\ i = 1 => open
                      /\ i # 1 => r[i - 1].kind = "altP"
                      /\ i + 1 \in 1..n + m /\ r[i + 1].kind = "altBackslash"
    BY <1>1 DEF Whole
  <2>1. CASE i \in 1..n
    <3>1. /\ i = 1 => open
          /\ i # 1 => s[i - 1].kind = "altP"
          /\ i + 1 \in 1..n /\ s[i + 1].kind = "altBackslash"
      BY <1>1, <1>8, <2>1 DEF Whole
    <3>2. i # 1 => i - 1 \in 1..n
      BY <1>1, <2>1
    <3> QED BY <1>1, <3>1, <3>2
  <2>2. CASE i \notin 1..n
    <3>1. i - n \in 1..m /\ a[i - n].kind = "body"
      BY <1>1, <1>2, <2>2
    <3>2. /\ i - n # 1 /\ a[(i - n) - 1].kind = "altP"
          /\ (i - n) + 1 \in 1..m /\ a[(i - n) + 1].kind = "altBackslash"
      BY <1>1, <3>1 DEF Whole
    <3>3. /\ i # 1 /\ (i - n) - 1 \in 1..m /\ n + ((i - n) - 1) = i - 1
          /\ n + ((i - n) + 1) = i + 1 /\ i + 1 \in 1..n + m
      BY <1>1, <3>1, <3>2
    <3> QED BY <1>1, <3>2, <3>3
  <2> QED BY <2>1, <2>2
<1>9. s # <<>> => r # <<>> /\ r[1] = s[1]
  BY <1>1, <1>10
<1> QED BY <1>1, <1>4, <1>5, <1>6, <1>7, <1>8, <1>9 DEF r

-----------------------------------------------------------------------------
(* What the terminal is after a command. *)
LEMMA ObeyFacts ==
  ASSUME TypeOK, NEW c \in Commands, c.op # "query",
         c.op = "clear" => term.mouse = c.value
  PROVE  /\ Obey(c) \in TerminalStates
         /\ \A k \in {"altscreen", "mouse", "cursorvis", "cursorblink", "cursorshape"} :
              Obey(c)[k] = IF Touches(c, k) THEN Leaves(c, k) ELSE term[k]
         /\ Obey(c).unknown = term.unknown
         /\ Obey(c).hiddenBefore = term.hiddenBefore
<1>1. term \in TerminalStates
  BY DEF TypeOK
<1>2. CASE c.op = "set" /\ c.ctl = "mouse" /\ c.value \in 1..3
  <2>1. Obey(c) = [term EXCEPT !.mouse = c.value]
    BY <1>2 DEF Obey
  <2> QED BY <1>1, <1>2, <2>1 DEF TerminalStates, Touches, Leaves
<1>3. CASE c.op = "set" /\ c.ctl = "cursorshape" /\ c.value \in 1..6
  <2>1. Obey(c) = [term EXCEPT !.cursorshape = (c.value + 1) \div 2,
                               !.cursorblink = c.value % 2]
    BY <1>3 DEF Obey
  <2>2. (c.value + 1) \div 2 \in 1..3 /\ c.value % 2 \in 0..1
    BY <1>3
  <2> QED BY <1>1, <1>3, <2>1, <2>2 DEF TerminalStates, Touches, Leaves
<1>4. CASE c.op = "clear" /\ c.ctl = "mouse" /\ c.value \in 1..3
  <2>1. Obey(c) = [term EXCEPT !.mouse = 0]
    BY <1>4 DEF Obey
  <2> QED BY <1>1, <1>4, <2>1 DEF TerminalStates, Touches, Leaves
<1>5. ASSUME NEW ctl \in {"altscreen", "cursorvis", "cursorblink", "keypad"},
             c.op = "set", c.ctl = ctl, c.value \in 0..1
      PROVE  /\ Obey(c) \in TerminalStates
             /\ \A k \in {"altscreen", "mouse", "cursorvis", "cursorblink",
                          "cursorshape"} :
                  Obey(c)[k] = IF Touches(c, k) THEN Leaves(c, k) ELSE term[k]
             /\ Obey(c).unknown = term.unknown
             /\ Obey(c).hiddenBefore = term.hiddenBefore
  <2>1. Obey(c) = [term EXCEPT ![ctl] = c.value]
    BY <1>5 DEF Obey
  <2>2. Obey(c) \in TerminalStates
    BY <1>1, <1>5, <2>1 DEF TerminalStates
  <2>3. \A k \in {"altscreen", "mouse", "cursorvis", "cursorblink", "cursorshape",
                  "unknown", "hiddenBefore"} :
          Obey(c)[k] = IF k = ctl THEN c.value ELSE term[k]
    BY <1>1, <1>5, <2>1 DEF TerminalStates
  <2> QED BY <1>5, <2>2, <2>3 DEF Touches, Leaves
<1> QED BY <1>2, <1>3, <1>4, <1>5, CommandFacts

LEMMA TerminalStep ==
  ASSUME IInv, Terminal
  PROVE  IInv'
<1> DEFINE c == Head(toTerm)
           r == Tail(toTerm)
           Now(was, k) == IF Touches(c, k) THEN Leaves(c, k) ELSE was
<1>1. /\ toTerm # <<>> /\ toTerm' = r
      /\ UNCHANGED <<state, mode, cap, initialised, dcs, typed, heard, opened, early>>
  BY DEF Terminal, driver, ghosts
<1>2. TypeOK /\ toTerm \in Seq(Commands) /\ fromTerm \in Seq(Keys)
  BY DEF IInv, TypeOK
<1>3. /\ c \in Commands /\ r \in Seq(Commands) /\ c = toTerm[1]
      /\ Len(r) \in Nat /\ Len(toTerm) = Len(r) + 1
      /\ DOMAIN r = 1..Len(r) /\ \A i \in 1..Len(r) : r[i] = toTerm[i + 1]
      /\ \A was, k, v : \A n \in 0..Len(r) :
           Becomes(was, toTerm, n + 1, k, v) => Becomes(Now(was, k), r, n, k, v)
  BY <1>1, <1>2, ReadOne
<1>4. DOMAIN toTerm = 1..Len(r) + 1
  BY <1>2, <1>3
<1>5. IF c.op = "query"
      THEN fromTerm' = fromTerm \o Answer(c.ctl) /\ term' = term
      ELSE term' = Obey(c) /\ fromTerm' = fromTerm
  BY DEF Terminal
<1> HIDE DEF c, r
<1>6. /\ \A i \in DOMAIN r : i + 1 \in DOMAIN toTerm /\ toTerm[i + 1] = r[i]
      /\ DOMAIN r \subseteq Int /\ 1 \in DOMAIN toTerm
  BY <1>3, <1>4
<1>7. \A k : AskedIn(r, k) => AskedIn(toTerm, k)
  BY <1>6 DEF AskedIn
<1>8. ASSUME NEW k, OneAsks(toTerm, k)
      PROVE  OneAsks(r, k) /\ (Asks(c, k) => ~AskedIn(r, k))
  <2>1. ASSUME NEW i \in DOMAIN r, NEW j \in DOMAIN r, Asks(r[i], k), Asks(r[j], k)
        PROVE  i = j
    <3>1. i + 1 = j + 1
      BY <1>6, <1>8, <2>1 DEF OneAsks
    <3> QED BY <1>6, <3>1
  <2>2. ASSUME NEW i \in DOMAIN r, Asks(r[i], k), Asks(c, k)
        PROVE  FALSE
    <3>1. i + 1 = 1
      BY <1>3, <1>6, <1>8, <2>2 DEF OneAsks
    <3> QED BY <1>3, <3>1
  <2> QED BY <2>1, <2>2 DEF OneAsks, AskedIn
<1>9. \A k : TouchedIn(r, k) => TouchedIn(toTerm, k)
  BY <1>6 DEF TouchedIn
<1>10. \A k : Touches(c, k) => TouchedIn(toTerm, k)
  BY <1>3, <1>6 DEF TouchedIn
<1>11. \A k : Asks(c, k) => AskedIn(toTerm, k)
  BY <1>3, <1>6 DEF AskedIn
<1>12. AnswersHidden' /\ FreedModes'
  BY <1>1 DEF IInv, AnswersHidden, FreedModes
<1>13. Quiet'
  BY <1>1 DEF IInv, Quiet
<1>14. ASSUME \A k \in {"altscreen", "mouse", "cursorvis", "cursorblink",
                         "cursorshape"} : term'[k] = Now(term[k], k)
       PROVE  /\ OffNamesOn(term', r)
              /\ \A k \in {"altscreen", "mouse", "cursorvis", "cursorblink",
                           "cursorshape"} : \A v : WillBe(k, v) => WillBe(k, v)'
  <2>1. ASSUME NEW i \in DOMAIN r, r[i].op = "clear"
        PROVE  Becomes(term'.mouse, r, i - 1, "mouse", r[i].value)
    <3>1. Becomes(term.mouse, toTerm, (i + 1) - 1, "mouse", r[i].value)
      BY <1>6, <2>1 DEF IInv, Mirrored, OffNamesOn
    <3>2. i - 1 \in 0..Len(r) /\ (i + 1) - 1 = (i - 1) + 1
      BY <1>3
    <3>3. Becomes(Now(term.mouse, "mouse"), r, i - 1, "mouse", r[i].value)
      BY <1>3, <3>1, <3>2
    <3>4. term'.mouse = Now(term["mouse"], "mouse")
      BY <1>14
    <3> HIDE DEF Now
    <3> QED BY <3>3, <3>4
  <2>2. ASSUME NEW k \in {"altscreen", "mouse", "cursorvis", "cursorblink",
                          "cursorshape"}, NEW v, WillBe(k, v)
        PROVE  WillBe(k, v)'
    <3>1. Becomes(term[k], toTerm, Len(r) + 1, k, v)
      BY <1>3, <2>2 DEF WillBe, Ends
    <3>2. Becomes(Now(term[k], k), r, Len(r), k, v)
      BY <1>3, <3>1
    <3>3. term'[k] = Now(term[k], k)
      BY <1>14
    <3> HIDE DEF Now
    <3> QED BY <1>1, <3>2, <3>3 DEF WillBe, Ends
  <2> QED BY <2>1, <2>2 DEF OffNamesOn
<1>15. CASE c.op = "query"
  <2> DEFINE a == Answer(c.ctl)
  <2>1. term' = term /\ fromTerm' = fromTerm \o a
    BY <1>5, <1>15
  <2>2. c.ctl \in Queries
    BY <1>3, <1>15, CommandFacts
  <2>3. /\ a \in Seq(Keys) /\ Whole(a, FALSE) /\ Reports(a, term.cursorshape)
        /\ \A k : (ToldIn(a, k) => k = c.ctl) /\ OneTells(a, k)
        /\ NotSaidOn(a) /\ "cursorblink" \notin term.unknown => term.cursorblink = 0
    BY <1>2, <2>2, AnswerFacts
  <2> HIDE DEF a
  <2>4. /\ fromTerm' \in Seq(Keys)
        /\ \A k : /\ ToldIn(fromTerm', k) <=> ToldIn(fromTerm, k) \/ ToldIn(a, k)
                  /\ ~(ToldIn(fromTerm, k) /\ ToldIn(a, k))
                       /\ OneTells(fromTerm, k) /\ OneTells(a, k)
                       => OneTells(fromTerm', k)
        /\ \A shape : Reports(fromTerm, shape) /\ Reports(a, shape)
             => Reports(fromTerm', shape)
        /\ NotSaidOn(fromTerm') <=> NotSaidOn(fromTerm) \/ NotSaidOn(a)
        /\ \A open : Whole(fromTerm, open) => Whole(fromTerm', open)
        /\ fromTerm # <<>> => fromTerm' # <<>> /\ fromTerm'[1] = fromTerm[1]
    BY <1>2, <2>1, <2>3, Joined
  <2>5. \A k : ~Touches(c, k)
    BY <1>15 DEF Touches
  <2>6. \A k \in {"altscreen", "mouse", "cursorvis", "cursorblink", "cursorshape"} :
          term'[k] = Now(term[k], k)
    BY <2>1, <2>5
  <2>7. TypeOK'
    BY <1>1, <1>2, <1>3, <2>1, <2>4 DEF TypeOK
  <2>8. ASSUME NEW k \in Queries
        PROVE  AskedOnce(k)'
    <3>1. AskedOnce(k)
      BY DEF IInv
    <3>2. CASE k = c.ctl
      <4>1. Asks(c, k)
        BY <1>15, <3>2 DEF Asks
      <4>2. /\ ~AskedIn(r, k) /\ ~ToldIn(fromTerm, k) /\ ~Held(k)
            /\ k \notin initialised
        BY <1>8, <1>11, <3>1, <4>1 DEF AskedOnce
      <4>3. OneAsks(r, k) /\ OneTells(fromTerm', k)
        BY <1>8, <2>3, <2>4, <3>1, <4>2 DEF AskedOnce
      <4> QED BY <1>1, <4>2, <4>3 DEF AskedOnce, Held
    <3>3. CASE k # c.ctl
      <4>1. ToldIn(fromTerm', k) <=> ToldIn(fromTerm, k)
        BY <2>3, <2>4, <3>3
      <4>2. OneAsks(r, k) /\ OneTells(fromTerm', k)
        BY <1>8, <2>3, <2>4, <3>1, <3>3 DEF AskedOnce
      <4> QED BY <1>1, <1>7, <3>1, <4>1, <4>2 DEF AskedOnce, Held
    <3> QED BY <3>2, <3>3
  <2>9. RepliesWhole'
    BY <1>1, <2>4 DEF IInv, RepliesWhole
  <2>10. Mirrored'
    BY <1>1, <1>14, <2>6 DEF IInv, Mirrored
  <2>11. ShapeMirrored'
    BY <1>1, <1>9, <1>14, <2>1, <2>3, <2>4, <2>6 DEF IInv, ShapeMirrored
  <2>12. HiddenWillBe' /\ CursorMirrored'
    BY <1>1, <1>14, <2>1, <2>6 DEF IInv, HiddenWillBe, CursorMirrored
  <2>13. BlinkWillBe'
    <3> SUFFICES ASSUME mode.cursorblink = 0,
                        \/ TouchedIn(r, "cursorblink")
                        \/ /\ "cursorblink" \in initialised \/ NotSaidOn(fromTerm')
                           /\ "cursorblink" \notin term.unknown
                 PROVE  WillBe("cursorblink", 0)'
      BY <1>1, <2>1 DEF BlinkWillBe
    <3>1. CASE TouchedIn(toTerm, "cursorblink")
      BY <1>14, <2>6, <3>1 DEF IInv, BlinkWillBe
    <3>2. CASE "cursorblink" \in initialised \/ NotSaidOn(fromTerm)
      BY <1>9, <1>14, <2>6, <3>2 DEF IInv, BlinkWillBe
    <3>3. CASE /\ ~TouchedIn(toTerm, "cursorblink")
               /\ ~("cursorblink" \in initialised \/ NotSaidOn(fromTerm))
      <4>1. term.cursorblink = 0
        BY <1>9, <2>3, <2>4, <3>3
      <4>2. WillBe("cursorblink", 0)
        BY <1>3, <1>4, <3>3, <4>1 DEF WillBe, Ends, Becomes, TouchedIn
      <4> QED BY <1>14, <2>6, <4>2
    <3> QED BY <3>1, <3>2, <3>3
  <2> QED BY <1>12, <1>13, <2>7, <2>8, <2>9, <2>10, <2>11, <2>12, <2>13 DEF IInv
<1>16. CASE c.op # "query"
  <2>1. term' = Obey(c) /\ fromTerm' = fromTerm
    BY <1>5, <1>16
  <2>2. c.op = "clear" => term.mouse = c.value
    <3>1. c.op = "clear" => Becomes(term.mouse, toTerm, 1 - 1, "mouse", c.value)
      BY <1>3, <1>6 DEF IInv, Mirrored, OffNamesOn
    <3> QED BY <3>1 DEF Becomes
  <2>3. /\ term' \in TerminalStates
        /\ \A k \in {"altscreen", "mouse", "cursorvis", "cursorblink",
                     "cursorshape"} : term'[k] = Now(term[k], k)
        /\ term'.unknown = term.unknown /\ term'.hiddenBefore = term.hiddenBefore
    BY <1>2, <1>3, <1>16, <2>1, <2>2, ObeyFacts
  <2>4. TypeOK'
    BY <1>1, <1>2, <1>3, <2>1, <2>3 DEF TypeOK
  <2>5. \A k \in Queries : AskedOnce(k)'
    BY <1>1, <1>7, <1>8, <2>1 DEF IInv, AskedOnce, Held
  <2>6. RepliesWhole'
    BY <1>1, <2>1 DEF IInv, RepliesWhole
  <2>7. Mirrored'
    BY <1>1, <1>14, <2>3 DEF IInv, Mirrored
  <2>8. ShapeMirrored'
    <3>1. CASE cap.cursorshape
      BY <1>1, <1>14, <2>3, <3>1 DEF IInv, ShapeMirrored
    <3>2. CASE ~cap.cursorshape
      <4>1. ~TouchedIn(toTerm, "cursorshape")
        BY <3>2 DEF IInv, ShapeMirrored
      <4>2. term'.cursorshape = term.cursorshape
        BY <1>10, <2>3, <4>1
      <4> QED BY <1>1, <1>9, <2>1, <3>2, <4>1, <4>2 DEF IInv, ShapeMirrored
    <3> QED BY <3>1, <3>2
  <2>9. HiddenWillBe' /\ CursorMirrored'
    BY <1>1, <1>14, <2>3 DEF IInv, HiddenWillBe, CursorMirrored
  <2>10. BlinkWillBe'
    BY <1>1, <1>9, <1>14, <2>1, <2>3 DEF IInv, BlinkWillBe
  <2> QED BY <1>12, <1>13, <2>4, <2>5, <2>6, <2>7, <2>8, <2>9, <2>10 DEF IInv
<1> QED BY <1>15, <1>16
-----------------------------------------------------------------------------
(* A key is read: what gotkey does with it. *)
LEMMA ReceiveStep ==
  ASSUME IInv, Receive
  PROVE  IInv'
<1> DEFINE key == Head(fromTerm)
           r == Tail(fromTerm)
<1>1. /\ fromTerm # <<>> /\ fromTerm' = r
      /\ ModeReport(key) \/ DcsBegin(key) \/ DcsPiece(key) \/ DcsEnd(key) \/ PassOn(key)
      /\ UNCHANGED <<state, term, toTerm, typed, early>>
      /\ state \in {"STARTING", "STARTED"}
  BY DEF Receive
<1>2. /\ TypeOK /\ fromTerm \in Seq(Keys) /\ mode \in Modes
      /\ cap \in [cursorshape : BOOLEAN, slrm : BOOLEAN]
      /\ initialised \subseteq Queries
      /\ dcs = NoDcs \/ dcs \in Seq(Keys)
  BY DEF IInv, TypeOK
<1>3. /\ key \in Keys /\ key = fromTerm[1] /\ r \in Seq(Keys)
      /\ Len(fromTerm) > 1 => r # <<>> /\ r[1] = fromTerm[2]
      /\ \A k : /\ ToldIn(fromTerm, k) <=> Tells(key, k) \/ ToldIn(r, k)
                /\ OneTells(fromTerm, k) =>
                     OneTells(r, k) /\ (Tells(key, k) => ~ToldIn(r, k))
      /\ \A shape : Reports(fromTerm, shape) =>
           /\ Reports(r, shape)
           /\ key.kind = "body" /\ key.value # 0 => ShapeOf(key.value) = shape
      /\ NotSaidOn(fromTerm) <=>
           (Tells(key, "cursorblink") /\ key.value # 1) \/ NotSaidOn(r)
      /\ \A open, next : Whole(fromTerm, open) =>
           /\ (key.kind = "altP" => next) => Whole(r, next)
           /\ key.kind = "body" => open /\ r # <<>> /\ r[1].kind = "altBackslash"
  BY <1>1, <1>2, TakenOne
<1> HIDE DEF key, r
<1>4. \/ key.kind = "report" /\ key.ctl \in Queries \ {"cursorshape"} /\ key.value \in 0..2
      \/ key.kind = "body" /\ key.ctl = "cursorshape" /\ key.value \in 0..6
      \/ /\ key.kind \in {"text", "altP", "altBackslash", "function"}
         /\ key \in UserKeys /\ key = Key(key.kind)
  BY <1>3, KeyFacts
<1>5. /\ Whole(fromTerm, dcs # NoDcs)
      /\ dcs # NoDcs /\ ~opened => key.kind \in {"body", "altBackslash"}
  BY <1>3 DEF IInv, RepliesWhole
<1>6. \A next : (key.kind = "altP" => next) => Whole(r, next)
  BY <1>3, <1>5
<1>7. ASSUME NEW k \in Queries,
             Held(k)' => Held(k) \/ Tells(key, k),
             k \in initialised' =>
               k \in initialised \/ ((Tells(key, k) \/ Held(k)) /\ ~Held(k)')
      PROVE  AskedOnce(k)'
  <2>1. AskedOnce(k)
    BY DEF IInv
  <2>2. /\ ToldIn(fromTerm, k) <=> Tells(key, k) \/ ToldIn(r, k)
        /\ OneTells(r, k) /\ (Tells(key, k) => ~ToldIn(r, k))
    BY <1>3, <2>1 DEF AskedOnce
  <2>3. UNCHANGED toTerm /\ fromTerm' = r
    BY <1>1
  <2> QED BY <1>7, <2>1, <2>2, <2>3 DEF AskedOnce
<1>8. ASSUME /\ mode' \in Modes /\ cap' \in [cursorshape : BOOLEAN, slrm : BOOLEAN]
             /\ initialised' \subseteq Queries /\ initialised \subseteq initialised'
             /\ dcs' = NoDcs \/ dcs' \in Seq(Keys)
             /\ heard' \in Seq(Keys) /\ opened' \in BOOLEAN,
             mode'.altscreen = mode.altscreen, mode'.mouse = mode.mouse,
             mode'.cursorvis # mode.cursorvis =>
               mode'.cursorvis = 1 /\ "cursorvis" \notin initialised,
             mode'.cursorblink # mode.cursorblink => mode'.cursorblink = 1,
             "cursorblink" \in initialised' =>
               \/ "cursorblink" \in initialised \/ mode'.cursorblink = 1
               \/ NotSaidOn(fromTerm),
             \A k \in Queries : AskedOnce(k)',
             RepliesWhole', ShapeMirrored', AnswersHidden'
      PROVE  IInv'
  <2>1. TypeOK'
    BY <1>1, <1>2, <1>3, <1>8 DEF TypeOK
  <2>2. Quiet' /\ FreedModes'
    BY <1>1 DEF Quiet, FreedModes
  <2>3. \A k, v : WillBe(k, v)' <=> WillBe(k, v)
    BY <1>1 DEF WillBe
  <2>4. Mirrored' /\ HiddenWillBe'
    BY <1>1, <1>8, <2>3 DEF IInv, Mirrored, HiddenWillBe
  <2>5. BlinkWillBe'
    BY <1>1, <1>3, <1>8, <2>3 DEF IInv, BlinkWillBe
  <2>6. CursorMirrored'
    BY <1>1, <1>8, <2>3 DEF IInv, CursorMirrored
  <2> QED BY <1>8, <2>1, <2>2, <2>4, <2>5, <2>6 DEF IInv
<1>9. heard \in Seq(Keys) /\ opened \in BOOLEAN
  BY <1>2 DEF TypeOK
<1>10. ASSUME UNCHANGED <<mode, cap, initialised>>,
              dcs' # NoDcs => Reports(dcs', term.cursorshape) \/ cap.cursorshape
       PROVE  ShapeMirrored'
  <2>1. \A v : WillBe("cursorshape", v)' <=> WillBe("cursorshape", v)
    BY <1>1 DEF WillBe
  <2> QED BY <1>1, <1>3, <1>10, <2>1 DEF IInv, ShapeMirrored
<1>11. CASE ModeReport(key)
  <2>1. /\ key.kind = "report" /\ key.ctl \in Queries \ {"cursorshape"}
        /\ mode' = ReportedMode(key.ctl, key.value)
        /\ cap' = [cap EXCEPT !.slrm = @ \/ (key.ctl = "slrm" /\ key.value \in 1..2)]
        /\ initialised' = initialised \cup {key.ctl}
        /\ UNCHANGED <<dcs, heard, opened>>
    BY <1>4, <1>11 DEF ModeReport
  <2>2. /\ cap' \in [cursorshape : BOOLEAN, slrm : BOOLEAN]
        /\ cap'.cursorshape = cap.cursorshape
    BY <1>2, <2>1
  <2>3. /\ mode' \in Modes
        /\ mode'.altscreen = mode.altscreen /\ mode'.mouse = mode.mouse
        /\ mode'.cursorshape = mode.cursorshape
        /\ mode'.cursorvis # mode.cursorvis =>
             mode'.cursorvis = 1 /\ key.ctl = "cursorvis"
        /\ mode'.cursorblink # mode.cursorblink => mode'.cursorblink = 1
        /\ key.ctl = "cursorblink" /\ key.value = 1 => mode'.cursorblink = 1
    BY <1>2, <2>1 DEF ReportedMode, Modes
  <2>4. \A k : Tells(key, k) <=> k = key.ctl
    BY <2>1 DEF Tells
  <2>5. ASSUME NEW k \in Queries PROVE AskedOnce(k)' /\ (k = key.ctl => k \notin initialised)
    <3>1. AskedOnce(k)
      BY DEF IInv
    <3>2. k = key.ctl => ~Held(k) /\ k \notin initialised
      BY <1>3, <2>4, <3>1 DEF AskedOnce
    <3>3. Held(k)' <=> Held(k)
      BY <2>1 DEF Held
    <3> QED BY <1>7, <2>1, <2>4, <3>2, <3>3
  <2>6. RepliesWhole'
    BY <1>1, <1>5, <1>6, <2>1 DEF RepliesWhole
  <2>7. ShapeMirrored'
    <3>1. \A v : WillBe("cursorshape", v)' <=> WillBe("cursorshape", v)
      BY <1>1 DEF WillBe
    <3> QED BY <1>1, <1>3, <2>1, <2>2, <2>3, <3>1 DEF IInv, ShapeMirrored
  <2>8. AnswersHidden'
    BY <2>1 DEF IInv, AnswersHidden
  <2>9. "cursorblink" \in initialised' =>
          \/ "cursorblink" \in initialised \/ mode'.cursorblink = 1
          \/ NotSaidOn(fromTerm)
    BY <1>3, <2>1, <2>3, <2>4
  <2>10. opened' \in BOOLEAN
    BY <1>9, <2>1, Zenon
  <2>11. /\ mode' \in Modes /\ cap' \in [cursorshape : BOOLEAN, slrm : BOOLEAN]
         /\ initialised' \subseteq Queries /\ initialised \subseteq initialised'
         /\ dcs' = NoDcs \/ dcs' \in Seq(Keys)
         /\ heard' \in Seq(Keys) /\ opened' \in BOOLEAN
      BY <1>2, <1>9, <2>1, <2>2, <2>3, <2>10
  <2>12. mode'.cursorvis # mode.cursorvis =>
           mode'.cursorvis = 1 /\ "cursorvis" \notin initialised
    <3>1. "cursorvis" \in Queries
      BY DEF Queries
    <3> QED BY <2>3, <2>5, <3>1
  <2> QED BY <1>8, <2>3, <2>5, <2>6, <2>7, <2>8, <2>9, <2>11, <2>12
<1>12. CASE DcsBegin(key)
  <2>1. /\ key.kind = "altP" /\ dcs' = <<>>
        /\ opened' = ~(Len(fromTerm) > 1 /\ fromTerm[2].kind = "body")
        /\ UNCHANGED <<mode, cap, initialised, heard>>
    BY <1>12 DEF DcsBegin
  <2>2. dcs' # NoDcs /\ dcs' \in Seq(Keys)
    BY <2>1, DriverAssumption, EmptyFacts
  <2>3. \A k : ~Held(k)'
    BY <2>1, EmptyFacts DEF Held
  <2>4. RepliesWhole'
    <3>1. ~opened' => Len(fromTerm) > 1 /\ fromTerm[2].kind = "body"
      BY <2>1
    <3> QED BY <1>1, <1>3, <1>6, <2>2, <3>1 DEF RepliesWhole
  <2>5. ShapeMirrored'
    BY <1>10, <2>1, EmptyFacts
  <2>6. AnswersHidden'
    BY <2>1 DEF IInv, AnswersHidden
  <2>7. opened' \in BOOLEAN
    BY <2>1, Zenon
  <2>8. /\ mode' \in Modes /\ cap' \in [cursorshape : BOOLEAN, slrm : BOOLEAN]
        /\ initialised' \subseteq Queries /\ initialised \subseteq initialised'
        /\ dcs' = NoDcs \/ dcs' \in Seq(Keys)
        /\ heard' \in Seq(Keys) /\ opened' \in BOOLEAN
      BY <1>2, <1>9, <2>1, <2>2, <2>7
  <2>9. \A k \in Queries : AskedOnce(k)'
    BY <1>7, <2>1, <2>3
  <2> QED BY <1>8, <2>1, <2>4, <2>5, <2>6, <2>8, <2>9
<1>13. CASE DcsPiece(key)
  <2>1. /\ key.kind \in {"text", "body"} /\ dcs # NoDcs
        /\ dcs' = Append(dcs, key) \/ dcs' = dcs
        /\ UNCHANGED <<mode, cap, initialised, heard, opened>>
    BY <1>13 DEF DcsPiece
  <2> DEFINE s == Append(dcs, key)
             n == Len(dcs)
  <2>2. /\ dcs \in Seq(Keys) /\ s \in Seq(Keys) /\ n \in Nat
        /\ DOMAIN dcs = 1..n /\ DOMAIN s = 1..n + 1
        /\ \A i \in 1..n : s[i] = dcs[i]
        /\ s[n + 1] = key
    BY <1>2, <1>3, <2>1
  <2>3. dcs' = s \/ dcs' = dcs
    BY <2>1
  <2> HIDE DEF s, n
  <2>4. \A k : Held(k)' => Held(k) \/ Tells(key, k)
    <3>1. \A k : ToldIn(s, k) => ToldIn(dcs, k) \/ Tells(key, k)
      BY <2>2 DEF ToldIn
    <3> QED BY <2>1, <2>3, <3>1 DEF Held
  <2>5. RepliesWhole'
    <3>1. ~opened => key.kind = "body"
      BY <1>5, <2>1
    <3>2. ~opened => r # <<>> /\ r[1].kind = "altBackslash"
      BY <1>3, <1>5, <3>1
    <3> QED BY <1>1, <1>6, <2>1, <3>2 DEF RepliesWhole
  <2>6. ShapeMirrored'
    <3>1. ~cap.cursorshape => /\ Reports(dcs, term.cursorshape)
                              /\ Reports(fromTerm, term.cursorshape)
      BY <2>1 DEF IInv, ShapeMirrored
    <3>2. Reports(dcs, term.cursorshape) /\ Reports(fromTerm, term.cursorshape)
            => Reports(s, term.cursorshape)
      <4> SUFFICES ASSUME Reports(dcs, term.cursorshape),
                          Reports(fromTerm, term.cursorshape),
                          NEW i \in 1..n + 1, s[i].kind = "body", s[i].value # 0
                   PROVE  ShapeOf(s[i].value) = term.cursorshape
        BY <2>2 DEF Reports
      <4>1. CASE i = n + 1
        BY <1>3, <2>2, <4>1
      <4>2. CASE i # n + 1
        <5>1. i \in 1..n /\ s[i] = dcs[i]
          BY <2>2, <4>2
        <5> QED BY <2>2, <5>1 DEF Reports
      <4> QED BY <4>1, <4>2
    <3> QED BY <1>10, <2>1, <2>3, <3>1, <3>2
  <2>7. AnswersHidden'
    BY <2>1 DEF IInv, AnswersHidden
  <2>8. opened' \in BOOLEAN
    BY <1>9, <2>1, Zenon
  <2>9. /\ mode' \in Modes /\ cap' \in [cursorshape : BOOLEAN, slrm : BOOLEAN]
        /\ initialised' \subseteq Queries /\ initialised \subseteq initialised'
        /\ dcs' = NoDcs \/ dcs' \in Seq(Keys)
        /\ heard' \in Seq(Keys) /\ opened' \in BOOLEAN
      BY <1>2, <1>9, <2>1, <2>2, <2>3, <2>8
  <2>10. \A k \in Queries : AskedOnce(k)'
    BY <1>7, <2>1, <2>4
  <2> QED BY <1>8, <2>1, <2>5, <2>6, <2>7, <2>9, <2>10
<1>14. CASE DcsEnd(key)
  <2>1. /\ key.kind = "altBackslash" /\ dcs' = NoDcs /\ opened' = FALSE
        /\ IF dcs # NoDcs /\ dcs # <<>> /\ dcs[1].kind = "body"
           THEN ShapeReport(dcs[1].value)
           ELSE UNCHANGED <<mode, cap, initialised>>
        /\ UNCHANGED heard
    BY <1>14 DEF DcsEnd
  <2>2. \A k : ~Held(k)'
    BY <2>1 DEF Held
  <2>3. RepliesWhole'
    BY <1>1, <1>6, <2>1 DEF RepliesWhole
  <2>4. AnswersHidden'
    BY <2>1 DEF IInv, AnswersHidden
  <2>5. CASE dcs # NoDcs /\ dcs # <<>> /\ dcs[1].kind = "body"
    <3> DEFINE value == dcs[1].value
    <3>1. ShapeReport(value)
      BY <2>1, <2>5
    <3>2. 1 \in DOMAIN dcs /\ dcs[1] \in Keys
      BY <1>2, <2>5
    <3>3. dcs[1].ctl = "cursorshape" /\ value \in 0..6
      BY <2>5, <3>2, KeyFacts
    <3> HIDE DEF value
    <3>4. Held("cursorshape")
      BY <2>5, <3>2, <3>3 DEF Held, ToldIn, Tells
    <3>5. "cursorshape" \in Queries
      BY DEF Queries
    <3>6. "cursorshape" \notin initialised /\ ~cap.cursorshape
      BY <3>4, <3>5 DEF IInv, AskedOnce, ShapeMirrored
    <3>7. /\ ~TouchedIn(toTerm, "cursorshape") /\ Reports(dcs, term.cursorshape)
          /\ value # 0 => ShapeOf(value) = term.cursorshape
      BY <2>5, <3>2, <3>6 DEF IInv, ShapeMirrored, Reports, value
    <3>8. WillBe("cursorshape", term.cursorshape)
      <4>1. toTerm \in Seq(Commands)
        BY <1>2 DEF TypeOK
      <4>2. DOMAIN toTerm = 1..Len(toTerm)
        BY <4>1
      <4> QED BY <3>7, <4>2 DEF WillBe, Ends, Becomes, TouchedIn
    <3>9. initialised' = initialised \cup {"cursorshape"}
      BY <3>1 DEF ShapeReport
    <3>10. CASE value = 0
      <4>1. UNCHANGED <<mode, cap>>
        BY <3>1, <3>10 DEF ShapeReport
      <4>2. ShapeMirrored'
        BY <1>1, <1>3, <2>1, <3>6, <4>1 DEF IInv, ShapeMirrored
      <4>3. /\ mode' \in Modes /\ cap' \in [cursorshape : BOOLEAN, slrm : BOOLEAN]
            /\ initialised' \subseteq Queries /\ initialised \subseteq initialised'
            /\ dcs' = NoDcs \/ dcs' \in Seq(Keys)
            /\ heard' \in Seq(Keys) /\ opened' \in BOOLEAN
          BY <1>2, <1>9, <2>1, <3>5, <3>9, <4>1
      <4>4. \A k \in Queries : AskedOnce(k)'
        BY <1>7, <2>2, <3>4, <3>9
      <4> QED BY <1>8, <2>3, <2>4, <3>9, <4>1, <4>2, <4>3, <4>4
    <3>11. CASE value # 0
      <4>1. /\ mode' = [mode EXCEPT !.cursorshape = ShapeOf(value)]
            /\ cap' = [cap EXCEPT !.cursorshape = TRUE]
        BY <3>1, <3>11 DEF ShapeReport, ShapeOf
      <4>2. ShapeOf(value) \in 0..3
        BY <3>3 DEF ShapeOf
      <4>3. /\ mode' \in Modes /\ mode'.cursorshape = ShapeOf(value)
            /\ mode'.altscreen = mode.altscreen /\ mode'.mouse = mode.mouse
            /\ mode'.cursorvis = mode.cursorvis
            /\ mode'.cursorblink = mode.cursorblink
        BY <1>2, <4>1, <4>2 DEF Modes
      <4>4. cap' \in [cursorshape : BOOLEAN, slrm : BOOLEAN] /\ cap'.cursorshape
        BY <1>2, <4>1
      <4>5. ShapeMirrored'
        <5>1. WillBe("cursorshape", mode'.cursorshape)
          BY <3>7, <3>8, <3>11, <4>3
        <5>2. WillBe("cursorshape", mode.cursorshape)'
          BY <1>1, <5>1 DEF WillBe
        <5> QED BY <3>9, <4>4, <5>2 DEF ShapeMirrored
      <4>6. /\ mode' \in Modes /\ cap' \in [cursorshape : BOOLEAN, slrm : BOOLEAN]
            /\ initialised' \subseteq Queries /\ initialised \subseteq initialised'
            /\ dcs' = NoDcs \/ dcs' \in Seq(Keys)
            /\ heard' \in Seq(Keys) /\ opened' \in BOOLEAN
          BY <1>2, <1>9, <2>1, <3>5, <3>9, <4>3, <4>4
      <4>7. \A k \in Queries : AskedOnce(k)'
        BY <1>7, <2>2, <3>4, <3>9
      <4> QED BY <1>8, <2>3, <2>4, <3>9, <4>3, <4>5, <4>6, <4>7
    <3> QED BY <3>10, <3>11
  <2>6. CASE ~(dcs # NoDcs /\ dcs # <<>> /\ dcs[1].kind = "body")
    <3>1. UNCHANGED <<mode, cap, initialised>>
      BY <2>1, <2>6
    <3>2. ShapeMirrored'
      BY <1>10, <2>1, <3>1
    <3>3. /\ mode' \in Modes /\ cap' \in [cursorshape : BOOLEAN, slrm : BOOLEAN]
          /\ initialised' \subseteq Queries /\ initialised \subseteq initialised'
          /\ dcs' = NoDcs \/ dcs' \in Seq(Keys)
          /\ heard' \in Seq(Keys) /\ opened' \in BOOLEAN
        BY <1>2, <1>9, <2>1, <3>1
    <3>4. \A k \in Queries : AskedOnce(k)'
      BY <1>7, <2>2, <3>1
    <3> QED BY <1>8, <2>3, <2>4, <3>1, <3>2, <3>3, <3>4
  <2> QED BY <2>5, <2>6
<1>15. CASE PassOn(key)
  <2>1. /\ key.kind = "function" \/ (key.kind \in {"text", "body"} /\ dcs = NoDcs)
        /\ heard' = Append(heard, key)
        /\ UNCHANGED <<mode, cap, initialised, dcs, opened>>
    BY <1>15 DEF PassOn
  <2>2. \A k : Held(k)' <=> Held(k)
    BY <2>1 DEF Held
  <2>3. key \in UserKeys
    <3>1. key.kind # "body"
      BY <1>3, <1>5, <2>1
    <3> QED BY <1>4, <2>1, <3>1
  <2>4. RepliesWhole'
    BY <1>1, <1>5, <1>6, <2>1 DEF RepliesWhole
  <2>5. ShapeMirrored'
    BY <1>10, <2>1 DEF IInv, ShapeMirrored
  <2>6. heard' \in Seq(Keys) /\ AnswersHidden'
    BY <1>3, <1>9, <2>1, <2>3 DEF IInv, AnswersHidden
  <2>7. opened' \in BOOLEAN
    BY <1>9, <2>1, Zenon
  <2>8. /\ mode' \in Modes /\ cap' \in [cursorshape : BOOLEAN, slrm : BOOLEAN]
        /\ initialised' \subseteq Queries /\ initialised \subseteq initialised'
        /\ dcs' = NoDcs \/ dcs' \in Seq(Keys)
        /\ heard' \in Seq(Keys) /\ opened' \in BOOLEAN
      BY <1>2, <1>9, <2>1, <2>6, <2>7
  <2>9. \A k \in Queries : AskedOnce(k)'
    BY <1>7, <2>1, <2>2
  <2> QED BY <1>8, <2>1, <2>4, <2>5, <2>6, <2>8, <2>9
<1> QED BY <1>1, <1>11, <1>12, <1>13, <1>14, <1>15
-----------------------------------------------------------------------------
LEMMA NextStep == IInv /\ [Next]_vars => IInv'
<1>1. ASSUME IInv, UNCHANGED vars
      PROVE  IInv'
  <2>1. UNCHANGED <<state, mode, cap, initialised, dcs, term, toTerm, fromTerm,
                    typed, heard, opened, early>>
    BY <1>1 DEF vars, driver, channels, ghosts
  <2>2. TypeOK' /\ Quiet' /\ \A ctl \in Queries : AskedOnce(ctl)'
    BY <1>1, <2>1 DEF IInv, TypeOK, Quiet, AskedOnce, Held
  <2>3. RepliesWhole' /\ AnswersHidden' /\ Mirrored' /\ ShapeMirrored'
    BY <1>1, <2>1 DEF IInv, RepliesWhole, AnswersHidden, Mirrored, ShapeMirrored, WillBe
  <2>4. HiddenWillBe' /\ BlinkWillBe' /\ CursorMirrored' /\ FreedModes'
    BY <1>1, <2>1 DEF IInv, HiddenWillBe, BlinkWillBe, CursorMirrored, FreedModes, WillBe
  <2> QED BY <2>2, <2>3, <2>4 DEF IInv
<1> QED BY <1>1, StartStep, AwaitStep, StopStep, ReceiveStep, TerminalStep, TypeStep,
           SetCtlStep DEF Next

(* In every behaviour: each query is asked and answered at most once, a    *)
(* reply stays in one piece, and what is on its way to the terminal makes  *)
(* of its modes what the driver has cached (termdriver-xterm.c 291-617).   *)
THEOREM Invariance == Spec => []IInv
<1>1. Init => IInv
  BY InitInv
<1>2. IInv /\ [Next]_vars => IInv'
  BY NextStep
<1> QED BY <1>1, <1>2, PTL DEF Spec

(* Every variable has its type: no report takes a mode out of the range    *)
(* its bit-field of struct XTermDriver holds.                              *)
THEOREM TypeCorrect == Spec => []TypeOK
<1>1. IInv => TypeOK
  BY DEF IInv
<1> QED BY <1>1, Invariance, PTL

LEMMA NothingOnItsWay ==
  ASSUME toTerm = <<>>
  PROVE  \A k, v : WillBe(k, v) <=> term[k] = v
BY EmptyFacts DEF WillBe

(* setctl_int may skip what it skips: screen, mouse mode and a reported    *)
(* cursor shape of the cache are the terminal's once it has read all.      *)
THEOREM CacheIsTrue == Spec => []ModesMirrored
<1>1. IInv => ModesMirrored
  <2> SUFFICES ASSUME IInv, toTerm = <<>>
               PROVE  /\ mode.altscreen = term.altscreen /\ mode.mouse = term.mouse
                      /\ cap.cursorshape => mode.cursorshape = term.cursorshape
    BY DEF ModesMirrored
  <2>1. WillBe("altscreen", mode.altscreen) /\ WillBe("mouse", mode.mouse)
    BY DEF IInv, Mirrored
  <2>2. cap.cursorshape => WillBe("cursorshape", mode.cursorshape)
    BY DEF IInv, ShapeMirrored
  <2> QED BY <2>1, <2>2, NothingOnItsWay
<1> QED BY <1>1, Invariance, PTL

(* A cursor the driver thinks off is off, whenever the reports come in: no *)
(* request of setctl_int to switch it off is skipped wrongly.              *)
THEOREM OffIsNeverWrong == Spec => []OffIsOff
<1>1. IInv => OffIsOff
  <2> SUFFICES ASSUME IInv, toTerm = <<>>
               PROVE  /\ mode.cursorvis = 0 => term.cursorvis = 0
                      /\ mode.cursorblink = 0 /\ "cursorblink" \in initialised \ term.unknown
                           => term.cursorblink = 0
    BY DEF OffIsOff
  <2>1. mode.cursorvis = 0 => WillBe("cursorvis", 0)
    BY DEF IInv, HiddenWillBe
  <2>2. mode.cursorblink = 0 /\ "cursorblink" \in initialised \ term.unknown
          => WillBe("cursorblink", 0)
    BY DEF IInv, BlinkWillBe
  <2> QED BY <2>1, <2>2, NothingOnItsWay
<1> QED BY <1>1, Invariance, PTL

(* What stop leaves behind, whatever was set and whatever was answered:    *)
(* the normal screen, no mouse mode, and the cursor, unless it was hidden  *)
(* before the driver could know.                                           *)
THEOREM StopRestores == Spec => []Restored
<1>1. IInv => Restored
  <2> SUFFICES ASSUME IInv, state = "FREED", toTerm = <<>>
               PROVE  /\ term.altscreen = 0 /\ term.mouse = 0
                      /\ term.cursorvis = 1 \/ term.hiddenBefore \/ early
    BY DEF Restored
  <2>1. mode.altscreen = 0 /\ mode.mouse = 0 /\ mode.cursorvis = 1
    BY DEF IInv, FreedModes
  <2>2. WillBe("altscreen", mode.altscreen) /\ WillBe("mouse", mode.mouse)
    BY DEF IInv, Mirrored
  <2>3. ~term.hiddenBefore /\ ~early => WillBe("cursorvis", mode.cursorvis)
    BY DEF IInv, CursorMirrored
  <2> QED BY <2>1, <2>2, <2>3, NothingOnItsWay
<1> QED BY <1>1, Invariance, PTL

(* No part of a reply is passed on to the application by got_key, for any  *)
(* typing between the replies and any size of the DCS buffer.              *)
THEOREM RepliesNotHeard == Spec => []AnswersHidden
<1>1. IInv => AnswersHidden
  BY DEF IInv
<1> QED BY <1>1, Invariance, PTL

(* A character typed is passed on at once, unless the user opened a DCS:   *)
(* the replies the terminal sends in between do not swallow it.            *)
THEOREM TypingPassedOn == Spec => TypingHeard
<1> DEFINE Passed == Receive /\ Head(fromTerm) = Key("text") /\ ~opened
                       => heard' = Append(heard, Key("text"))
<1>1. ASSUME IInv, Receive, Head(fromTerm) = Key("text"), ~opened
      PROVE  heard' = Append(heard, Key("text"))
  <2> DEFINE key == Head(fromTerm)
  <2>1. /\ fromTerm # <<>> /\ fromTerm \in Seq(Keys)
        /\ ModeReport(key) \/ DcsBegin(key) \/ DcsPiece(key) \/ DcsEnd(key) \/ PassOn(key)
    BY <1>1 DEF Receive, IInv, TypeOK
  <2>2. key = fromTerm[1] /\ key = Key("text")
    BY <1>1, <2>1
  <2> HIDE DEF key
  <2>3. key.kind = "text"
    BY <2>2 DEF Key
  <2>4. dcs = NoDcs
    BY <1>1, <2>2, <2>3 DEF IInv, RepliesWhole
  <2> QED BY <2>1, <2>2, <2>3, <2>4 DEF ModeReport, DcsBegin, DcsPiece, DcsEnd, PassOn
<1>2. IInv /\ [Next]_vars => [Passed]_vars
  BY <1>1
<1>3. Spec => [][Passed]_vars
  BY <1>2, Invariance, PTL DEF Spec
<1> QED BY <1>3 DEF TypingHeard
=============================================================================
