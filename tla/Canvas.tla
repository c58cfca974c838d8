------------------------------- MODULE Canvas --------------------------------
(***************************************************************************)
(* What a render buffer promises those who draw into it, without spans:    *)
(* each cell of the screen has at most one pending content, a call that    *)
(* draws changes the visible cells only, a saved context comes back as it  *)
(* was, and a flush puts what is pending over what the terminal shows.     *)
(***************************************************************************)
EXTENDS Integers, Sequences, SequencesExt

CONSTANTS
  Figures,       \* what calls draw: functions from cells to contents
  Strips,        \* what calls draw from the cursor on: sequences of contents
  Areas,         \* what calls clip to and mask: sets of cells
  Moves,         \* how far calls move the origin or scroll: pairs
  Pens,          \* the pens calls set
  Plain,         \* the pen of a fresh context
  Layered(_, _), \* a pen with its gaps filled from another
  Joined(_, _),  \* a glyph drawn over another
  IsHalf(_, _),  \* a glyph is (1) or follows (2) the first half of a wide one
  Blank, Nothing

VARIABLES
  pending,       \* the content each cell waits to show, or Nothing
  shown,         \* what the terminal shows in each cell
  masks,         \* for each level of saving, the cells masked at it
  view,          \* the context: clip, origin and pen
  cursor,        \* where the relative calls draw: at a place, if set
  saved          \* the contexts to come back to

vars == <<pending, shown, masks, view, cursor, saved>>

Cells   == DOMAIN pending
Hidden  == UNION {masks[i] : i \in DOMAIN masks}
Visible == view.clip \ Hidden

Shift(x, by) == <<x[1] + by[1], x[2] + by[2]>>
Back(x, by)  == <<x[1] - by[1], x[2] - by[2]>>

Empty(p) == \A x \in DOMAIN p : p[x] = Nothing

(* A context nothing was done to: the whole screen, in the plain pen. *)
Fresh(p, m, v, s) ==
  /\ Empty(p) /\ m = <<{}>> /\ s = <<>>
  /\ v = [clip |-> DOMAIN p, origin |-> <<0, 0>>, pen |-> Plain]

Init == Fresh(pending, masks, view, saved) /\ ~cursor.set

-----------------------------------------------------------------------------
(* A figure is drawn in the current pen, except where its own pen differs; *)
(* now is pending and open the visible cells.                              *)
Painted(now, open, x, fig) ==
  LET y == Back(x, view.origin) IN
  IF x \notin open \/ y \notin DOMAIN fig THEN now[x]
  ELSE IF fig[y] = Nothing THEN Nothing
  ELSE [ch  |-> IF now[x] = Nothing THEN fig[y].ch
                ELSE Joined(fig[y].ch, now[x].ch),
        pen |-> Layered(fig[y].pen, view.pen)]

(* One of some figures is drawn. *)
Paint(figures) ==
  /\ UNCHANGED <<shown, masks, view, saved>>
  /\ LET now  == pending
         next == pending'
         open == Visible
     IN  \E fig \in figures :
           \A x \in DOMAIN now : next[x] = Painted(now, open, x, fig)

StripAt(at, strip) ==
  [y \in {at[1]} \X (at[2]..at[2] + Len(strip) - 1) |-> strip[y[2] - at[2] + 1]]

DrawAt == UNCHANGED cursor /\ Paint(Figures)

DrawOn ==
  /\ cursor.set /\ cursor'.set
  /\ LET way == cursor'.at[2] - cursor.at[2] IN
     /\ cursor'.at[1] = cursor.at[1]
     /\ Paint({StripAt(cursor.at, s) : s \in {t \in Strips : Len(t) = way}})

MoveCursor == UNCHANGED <<pending, shown, masks, view, saved>>

-----------------------------------------------------------------------------
Moved(area) == {Shift(x, view.origin) : x \in area}

Narrow ==
  /\ UNCHANGED <<pending, shown, masks, cursor, saved>>
  /\ \E area \in Areas : view' = [view EXCEPT !.clip = @ \cap Moved(area)]

Mask ==
  /\ UNCHANGED <<pending, shown, view, cursor, saved>>
  /\ \E area \in Areas :
       masks' = [masks EXCEPT ![Len(masks)] =
                   @ \cup ((Moved(area) \cap Cells) \ Hidden)]

Displace ==
  /\ UNCHANGED <<pending, shown, masks, cursor, saved>>
  /\ \E by \in Moves : view' = [view EXCEPT !.origin = Shift(@, by)]

(* A saved pen shines through the gaps of those set over it. *)
TakePen ==
  /\ UNCHANGED <<pending, shown, masks, cursor, saved>>
  /\ \E pen \in Pens :
       view' = [view EXCEPT !.pen = IF saved = <<>> THEN pen
                                    ELSE Layered(pen, Last(saved).pen)]

Whole == [penOnly |-> FALSE, pen |-> view.pen, clip |-> view.clip,
          origin |-> view.origin, at |-> cursor.at]
PenOnly == [penOnly |-> TRUE, pen |-> view.pen, clip |-> {},
            origin |-> <<0, 0>>, at |-> <<0, 0>>]

Save ==
  /\ UNCHANGED <<pending, shown, view, cursor>>
  /\ masks' = Append(masks, {})
  /\ \E frame \in {Whole, PenOnly} : saved' = Append(saved, frame)

(* What was masked since goes with the context; that the cursor is set at  *)
(* all is no part of it.                                                   *)
Restore ==
  /\ saved # <<>>
  /\ saved' = Front(saved) /\ masks' = Front(masks)
  /\ UNCHANGED <<pending, shown>>
  /\ LET frame == Last(saved) IN
     IF frame.penOnly
     THEN view' = [view EXCEPT !.pen = frame.pen] /\ UNCHANGED cursor
     ELSE /\ view' = [clip |-> frame.clip, origin |-> frame.origin,
                      pen |-> frame.pen]
          /\ cursor' = [cursor EXCEPT !.at = frame.at]

Forget ==
  /\ Fresh(pending', masks', view', saved')
  /\ cursor' = [cursor EXCEPT !.set = FALSE]

Reset == UNCHANGED shown /\ Forget

-----------------------------------------------------------------------------
(* Every wide glyph has both its halves, side by side and in one pen.      *)
NoneCut ==
  \A x \in Cells : pending[x] # Nothing =>
    /\ IsHalf(pending[x].ch, 1) =>
         LET y == Shift(x, <<0, 1>>) IN
         /\ y \in Cells /\ pending[y] # Nothing
         /\ pending[y].pen = pending[x].pen
         /\ pending[y].ch = <<pending[x].ch[1], 2>>
    /\ IsHalf(pending[x].ch, 2) =>
         LET y == Back(x, <<0, 1>>) IN
         /\ y \in Cells /\ pending[y] # Nothing
         /\ IsHalf(pending[y].ch, 1)

(* Cut glyphs are the one thing that flushing does not promise to show.    *)
Flush ==
  /\ Forget
  /\ NoneCut =>
       \A x \in Cells :
         shown'[x] = IF pending[x] = Nothing THEN shown[x]
                     ELSE pending[x]

IsBlank(content) == content.ch = <<Blank, 1>>

Keep == UNCHANGED <<pending, masks, view, cursor, saved>>

(* Scrolling moves the cells of an area and blanks those that come in.     *)
Scroll ==
  /\ Keep
  /\ \E by \in Moves, area \in {a \cap Cells : a \in Areas} :
       \A x \in Cells :
         IF x \notin area THEN shown'[x] = shown[x]
         ELSE IF Shift(x, by) \in area THEN shown'[x] = shown[Shift(x, by)]
         ELSE IsBlank(shown'[x])

Wipe == Keep /\ \A x \in Cells : IsBlank(shown'[x])

(* The terminal gets another size, and those who draw a fresh canvas.      *)
Resize ==
  /\ DOMAIN shown' = DOMAIN pending'
  /\ Fresh(pending', masks', view', saved') /\ ~cursor'.set
  /\ \A x \in DOMAIN shown' :
       IF x \in Cells THEN shown'[x] = shown[x] ELSE IsBlank(shown'[x])

Next ==
  \/ /\ DOMAIN pending' = Cells
     /\ \/ MoveCursor \/ DrawAt \/ DrawOn
        \/ Narrow \/ Mask \/ Displace \/ TakePen
        \/ Save \/ Restore \/ Reset \/ Flush
        \/ Scroll \/ Wipe
  \/ Resize

Spec == Init /\ [][Next]_vars
=============================================================================
