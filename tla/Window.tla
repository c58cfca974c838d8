------------------------------- MODULE Window -------------------------------
(***************************************************************************)
(* The window tree of libtickit (terminal/libtickit/window.c): windows     *)
(* stacked under one root window, the restacking requests and the damage   *)
(* the root collects, the flush that turns them into what the terminal     *)
(* shows, and the input focus with the cursor that follows it.             *)
(*                                                                         *)
(* The code is single threaded.  The application calls the API between     *)
(* two flushes and, from the EXPOSE handler of a window, in the middle of  *)
(* one; so a flush is one step for every point where a handler can run.    *)
(*                                                                         *)
(* Damage is the array of the root's rectangle set, and is added to as     *)
(* tickit_rectset_add does (RectArray), which can drop cells that were in  *)
(* the set.  Each window has one EXPOSE handler, which paints all of the   *)
(* rectangle it is given.                                                  *)
(***************************************************************************)
EXTENDS RectArray

CONSTANTS Windows,      \* the addresses windows are allocated at
          Root,         \* the one of the root window
          None,         \* NULL
          Dangling,     \* stands for the address of any freed window
          Old,          \* a cell whose content is no longer any window's
          Grid,         \* the cells of the largest terminal
          Sizes,        \* the rectangles the terminal can have
          Under,        \* Under[w]: the windows w can be created in
          Places,       \* Places[w]: the rectangles w can be created with
          Spots,        \* the cells of a window a cursor can be put on
          FocusTargets, \* the windows the application gives the focus to,
          HideTargets,  \*   those it creates hidden, hides and shows,
          DrawTargets,  \*   and those it changes the content of
          Restacks,     \* the kinds of restacking requests it makes
          MaxChanges,   \* bound on the restacking requests that wait
          MaxCalls,     \* bound on the API calls of one EXPOSE handler
          MaxTurns      \* bound on the turns of one tickit_rectset_add

ASSUME WindowAssumption ==
  /\ Root \in Windows /\ None \notin Windows
  /\ Dangling \in Windows \ {Root}
  /\ Old \notin Windows \cup {None}
  /\ Grid \subseteq Int \X Int
  /\ Sizes \subseteq RectType /\ Sizes # {}
  /\ \A r \in Sizes : r.top = 0 /\ r.left = 0 /\ NonEmpty(r)
  /\ \A r \in Sizes : CellsIn(r) \subseteq Grid
  /\ Under \in [Windows -> SUBSET Windows] /\ Under[Root] = {}
  /\ Places \in [Windows -> SUBSET RectType]
  /\ Spots \subseteq Int \X Int /\ <<0, 0>> \in Spots
  /\ FocusTargets \cup HideTargets \cup DrawTargets \subseteq Windows
  /\ MaxChanges \in Nat /\ MaxCalls \in Nat /\ MaxTurns \in Nat

VARIABLES
  live,          \* the windows allocated
  parent,        \* win->parent
  children,      \* win->first_child and the next of each: front first
  visible,       \* win->is_visible
  rect,          \* win->rect, relative to the parent
  focusedChild,  \* win->focused_child
  isFocused,     \* win->is_focused
  cursor,        \* win->cursor: its cell in the window, and whether it shows
  changes,       \* root->hierarchy_changes
  damage,        \* root->damage
  lost,          \* ghost: the cells it dropped, and was not given again
  needsExpose, needsRestore, needsLater,
  phase,         \* where tickit_window_flush stands
  todo,          \* the rectangles of damage it has yet to pass over
  stack,         \* the calls of _do_expose under way
  drawn,         \* the EXPOSE handler of the innermost one is running
  calls,         \* the API calls it may still make
  rb,            \* the render buffer: what is painted on each cell
  screen,        \* what the terminal shows on each cell
  termCursor     \* the terminal's cursor: whose it is and where in it

tree    == <<live, parent, children, visible, rect>>
focus   == <<focusedChild, isFocused, cursor>>
damages == <<damage, lost>>
needs   == <<needsExpose, needsRestore, needsLater>>
flush   == <<phase, todo, stack, drawn>>
term    == <<screen, termCursor>>
vars    == <<tree, focus, changes, damages, needs, flush, calls, rb, term>>

Kinds   == {"raise", "raise_front", "lower", "lower_back"}
Change  == [change : Kinds, parent : Windows, win : Windows]
Frame   == [win : Windows, at : Windows \cup {None},
            area : SUBSET (Int \X Int), open : SUBSET Grid]
Cursor  == [at : Spots, visible : BOOLEAN]

-----------------------------------------------------------------------------
(* Geometry.                                                               *)

(* win and the windows above it, up to the root *)
Lineage(w) ==
  LET up[x \in Windows] ==
        {x} \cup (IF parent[x] = None THEN {} ELSE up[parent[x]])
  IN  up[w]

(* tickit_window_get_abs_geometry *)
AbsRect(w) ==
  LET abs[x \in Windows] ==
        IF parent[x] = None THEN rect[x]
        ELSE Translate(rect[x], abs[parent[x]].top, abs[parent[x]].left)
  IN  abs[w]

Cells(w)  == CellsIn(AbsRect(w))
RootCells == CellsIn(rect[Root])

(* The part of w that lies inside every window above it. *)
Clip(w) ==
  LET above == {AbsRect(a) : a \in Lineage(w)} IN
  InitBounded(Max({r.top : r \in above}), Max({r.left : r \in above}),
              Min({Bottom(r) : r \in above}), Min({Right(r) : r \in above}))

(* A visible child of a holds cell c, counting only the children in front  *)
(* of upto (all of them when upto is not one of them).                     *)
Covered(a, upto, c) ==
  \E i \in DOMAIN children[a] :
    /\ \A j \in 1..i : children[a][j] # upto
    /\ visible[children[a][i]] /\ c \in Cells(children[a][i])

(* Reference: w is the window a viewer sees on cell c. *)
Shown(w, c) ==
  /\ \A a \in Lineage(w) :
       /\ visible[a] /\ c \in Cells(a)
       /\ parent[a] # None => ~Covered(parent[a], a, c)
  /\ ~Covered(w, None, c)

(* Every window above w is allocated.  Nothing can be said of a call on a  *)
(* window whose parent was freed, or of a request that waits for one.      *)
Attached(w) == (Lineage(w) \cup {parent[w]}) \ {None} \subseteq live

-----------------------------------------------------------------------------
(* Requests to the root window.                                            *)

RequestLater == needsLater' = TRUE

(* Bugs for the mutant runs: the request does not have itself processed;   *)
(* the damage does not.                                                    *)
RequestRestoreOnly == needsRestore' = TRUE /\ UNCHANGED needsLater

RequestExposeOnly(x) ==
  /\ damage' = x.damage /\ lost' = x.lost
  /\ needsExpose' = (needsExpose \/ x.asks)
  /\ UNCHANGED needsLater

RequestRestore == needsRestore' = TRUE /\ RequestLater

(* The damage, what it has lost, and whether a call added to it. *)
DamageState == [damage : Seq(RectType), lost : SUBSET (Int \X Int), asks : BOOLEAN]

Now == [damage |-> damage, lost |-> lost, asks |-> FALSE]

(* tickit_window_expose at the root: nothing to do for cells the damage    *)
(* already holds.                                                          *)
Damaged[x \in DamageState] == [r \in RectType |->
  LET after == Added(x.damage, r, MaxTurns) IN
  IF CellsIn(r) \subseteq CellsOf(x.damage) THEN x
  ELSE [damage |-> after, asks |-> TRUE,
        lost |-> (x.lost \cup CellsOf(x.damage) \cup CellsIn(r)) \ CellsOf(after)]]

(* tickit_window_expose(w, r), r given relative to the root: clips to each *)
(* window on the way up and stops at one that does not show.               *)
Expose(x, w, r) ==
  IF \A a \in Lineage(w) : visible[a] THEN Damaged[x][Intersection(Clip(w), r)]
  ELSE x

(* What the exposures of a call change of the root window. *)
Request(x) ==
  /\ damage' = x.damage /\ lost' = x.lost
  /\ needsExpose' = (needsExpose \/ x.asks)
  /\ needsLater' = (needsLater \/ x.asks)

(* The application is running: between flushes, or in an EXPOSE handler.   *)
CanCall(w) ==
  /\ w \in live /\ Attached(w)
  /\ phase = "idle" \/ (drawn /\ calls > 0)
  /\ calls' = IF drawn THEN calls - 1 ELSE calls

-----------------------------------------------------------------------------
Init ==
  /\ live = {Root}
  /\ parent = [w \in Windows |-> None]
  /\ children = [w \in Windows |-> <<>>]
  /\ visible = [w \in Windows |-> TRUE]
  /\ \E r \in Sizes : rect = [w \in Windows |-> r]
  /\ focusedChild = [w \in Windows |-> None]
  /\ isFocused = [w \in Windows |-> FALSE]
  /\ cursor = [w \in Windows |-> [at |-> <<0, 0>>, visible |-> TRUE]]
  /\ changes = <<>>
  /\ damage = <<rect[Root]>> /\ lost = {}
  /\ needsExpose = TRUE /\ needsLater = TRUE
  /\ needsRestore = FALSE
  /\ phase = "idle" /\ todo = <<>> /\ stack = <<>> /\ drawn = FALSE
  /\ calls = 0
  /\ rb = [c \in Grid |-> None]
  /\ screen = [c \in Grid |-> Old]
  /\ termCursor = None

-----------------------------------------------------------------------------
(* The calls of the application that change the tree.                      *)

Index(s, x) == CHOOSE i \in DOMAIN s : s[i] = x

(* _do_hierarchy_insert_first, _do_hierarchy_insert_last *)
InsertFirst(s, w) == <<w>> \o s

(* A bug for the mutant runs: the walk stops one window early. *)
InsertOverLast(s, w) == IF s = <<>> THEN <<w>> ELSE Append(Front(s), w)

InsertLast(s, w) == Append(s, w)

(* _do_hierarchy_remove *)
Without(s, w) == RemoveAt(s, Index(s, w))

New(w, p, r, hidden, lowest) ==
  /\ w \notin live \cup {Dangling}
  /\ hidden => w \in HideTargets
  /\ CanCall(p)
  /\ live' = live \cup {w}
  /\ parent' = [parent EXCEPT ![w] = p]
  /\ visible' = [visible EXCEPT ![w] = ~hidden]
  /\ rect' = [rect EXCEPT ![w] = r]
  /\ focusedChild' = [focusedChild EXCEPT ![w] = None]
  /\ isFocused' = [isFocused EXCEPT ![w] = FALSE]
  /\ cursor' = [cursor EXCEPT ![w] = [at |-> <<0, 0>>, visible |-> TRUE]]
  /\ children' = [children EXCEPT
       ![w] = <<>>,
       ![p] = IF lowest THEN InsertLast(@, w) ELSE InsertFirst(@, w)]
  /\ Request(Expose(Now, p, Translate(r, AbsRect(p).top, AbsRect(p).left)))
  /\ UNCHANGED <<changes, needsRestore, flush, rb, term>>

(* The windows tickit_window_destroy(w) frees, in the order it does.  The  *)
(* loop over the children reads child->next of the child it has just       *)
(* unlinked and freed, which ends it: of several children only the first   *)
(* is destroyed.                                                           *)
FreedWith(w, below) ==
  LET freed == Append(below, w) IN
  /\ children[freed[1]] = <<>>
  /\ \A i \in DOMAIN below :
       /\ children[freed[i + 1]] # <<>>
       /\ freed[i] = Head(children[freed[i + 1]])

(* _purge_hierarchy_changes: f lists the requests that stay, in order.     *)
(* A bug for the mutant runs: only requests about the children go. *)
PurgesBelow(gone, req) == req.parent \in gone

Purges(gone, req) == req.parent \in gone \/ req.win \in gone

Keeps(gone, f) ==
  /\ \A j, k \in DOMAIN f : j < k => f[j] < f[k]
  /\ \A i \in DOMAIN changes :
       (\E k \in DOMAIN f : f[k] = i) <=> ~Purges(gone, changes[i])

(* A bug for the mutant runs: the parent keeps its focused child. *)
KeepFocus(p, w) == focusedChild

(* The parent forgets w as its focused child. *)
Unfocus(p, w) == [focusedChild EXCEPT ![p] = IF @ = w THEN None ELSE @]

(* The fields of a freed window stand at their initial values, so that     *)
(* states which differ in freed memory only are one state.                 *)
Freed(f, gone, initial) == [x \in Windows |-> IF x \in gone THEN initial ELSE f[x]]

(* The exposure _do_hierarchy_change ends with when w is removed.  A bug   *)
(* for the mutant runs: it is left out.                                    *)
RemovedQuietly(x, w) == x

Removed(x, w) == Expose(x, parent[w], AbsRect(w))

(* A child that is left behind has a pointer to freed memory, on which no  *)
(* call is modelled, whatever is allocated there later.  A handler does    *)
(* not destroy a window _do_expose is at work on.                          *)
Destroy(w) ==
  /\ w # Root /\ CanCall(w)
  /\ LET p == parent[w] IN
     \E n \in 0..Cardinality(live) : \E below \in [1..n -> live] :
     LET gone == ToSet(below) \cup {w} IN
       /\ FreedWith(w, below)
       /\ \A i \in DOMAIN stack : stack[i].win \notin gone
       /\ live' = live \ gone
       /\ parent' = Freed(
            [x \in Windows |-> IF parent[x] \in gone THEN Dangling ELSE parent[x]],
            gone, None)
       /\ children' = Freed([children EXCEPT ![p] = Without(@, w)], gone, <<>>)
       /\ visible' = Freed(visible, gone, TRUE)
       /\ rect' = Freed(rect, gone, rect[Root])
       /\ focusedChild' = Freed(Unfocus(p, w), gone, None)
       /\ isFocused' = Freed(isFocused, gone, FALSE)
       /\ cursor' = Freed(cursor, gone, [at |-> <<0, 0>>, visible |-> TRUE])
       /\ \E m \in 0..Len(changes) : \E f \in [1..m -> DOMAIN changes] :
            /\ Keeps(gone, f)
            /\ changes' = [k \in 1..m |-> changes[f[k]]]
       /\ Request(Removed(FoldLeft(Removed, Now, below), w))
  /\ UNCHANGED <<needsRestore, flush, rb, term>>

Show(w) ==
  /\ w \in HideTargets /\ CanCall(w)
  /\ visible' = [visible EXCEPT ![w] = TRUE]
  /\ IF w = Root
     THEN Request(Damaged[Now][rect[Root]]) /\ UNCHANGED focusedChild
     ELSE /\ Request(Expose(Now, parent[w], AbsRect(w)))
          /\ focusedChild' = [focusedChild EXCEPT ![parent[w]] =
               IF @ = None /\ (focusedChild[w] # None \/ isFocused[w]) THEN w ELSE @]
  /\ UNCHANGED <<live, parent, children, rect, isFocused, cursor, changes,
                 needsRestore, flush, rb, term>>

Hide(w) ==
  /\ w \in HideTargets /\ CanCall(w)
  /\ visible' = [visible EXCEPT ![w] = FALSE]
  /\ IF w = Root
     THEN UNCHANGED <<focusedChild, damages, needsExpose, needsLater>>
     ELSE /\ Request(Expose(Now, parent[w], AbsRect(w)))
          /\ focusedChild' = Unfocus(parent[w], w)
  /\ UNCHANGED <<live, parent, children, rect, isFocused, cursor, changes,
                 needsRestore, flush, rb, term>>

(* A bug for the mutant runs: the first request is queued only. *)
RequestNothing == UNCHANGED needsLater

(* Only the first request of a queue asks for processing. *)
RequestIfFirst == IF changes = <<>> THEN RequestLater ELSE UNCHANGED needsLater

(* _request_hierarchy_change *)
Restack(kind, w) ==
  /\ kind \in Restacks /\ w # Root /\ CanCall(w) /\ Len(changes) < MaxChanges
  /\ changes' = Append(changes, [change |-> kind, parent |-> parent[w], win |-> w])
  /\ RequestIfFirst
  /\ UNCHANGED <<tree, focus, damages, needsExpose, needsRestore, flush, rb, term>>

Outdate(cells, w) == [c \in Grid |-> IF cells[c] = w THEN Old ELSE cells[c]]

(* What window w has to show changes, and the application exposes w.       *)
Update(w) ==
  /\ w \in DrawTargets /\ CanCall(w)
  /\ rb' = Outdate(rb, w)
  /\ screen' = Outdate(screen, w)
  /\ Request(Expose(Now, w, AbsRect(w)))
  /\ UNCHANGED <<tree, focus, changes, needsRestore, flush, termCursor>>

(* A bug for the mutant runs: as wide as the terminal was. *)
StripNarrow(old, new) == InitSized(old.lines, 0, new.lines - old.lines, old.cols)

(* The strips on_term exposes of a terminal with more lines, and of one    *)
(* with more columns, which it looks for in this order.                    *)
StripBelow(old, new) == InitSized(old.lines, 0, new.lines - old.lines, new.cols)

StripBeside(old, new) == InitSized(0, old.cols, old.lines, new.cols - old.cols)

ExposeStrip(x, more, new, strip) ==
  IF more /\ visible[Root] THEN Damaged[x][Intersection(new, strip)] ELSE x

(* on_term on a RESIZE event.  The terminal keeps what it showed.          *)
Resize(r) ==
  /\ phase = "idle" /\ r # rect[Root]
  /\ rect' = [rect EXCEPT ![Root] = r]
  /\ LET old   == rect[Root]
         lower == ExposeStrip(Now, r.lines > old.lines, r, StripBelow(old, r))
     IN  Request(ExposeStrip(lower, r.cols > old.cols, r, StripBeside(old, r)))
  /\ screen' = [c \in Grid |->
       IF c \in RootCells \cap CellsIn(r) THEN screen[c] ELSE Old]
  /\ UNCHANGED <<live, parent, children, visible, focus, changes, needsRestore,
                 flush, calls, rb, termCursor>>

-----------------------------------------------------------------------------
(* Focus and cursor.                                                       *)

(* The windows _focus_gained is called on when w takes the focus.          *)
Gains(w) ==
  LET up[x \in Windows] ==
        {x} \cup (IF visible[x] /\ parent[x] # None THEN up[parent[x]] ELSE {})
  IN  up[w]

(* The windows _focus_lost is called on from w down.                       *)
Loses(w) ==
  LET down[x \in Windows] ==
        {x} \cup (IF focusedChild[x] = None THEN {} ELSE down[focusedChild[x]])
  IN  down[w]

Losers(w) ==
  UNION {Loses(focusedChild[a]) :
           a \in {b \in Gains(w) \ {w} : focusedChild[b] \notin Gains(w) \cup {None}}}

(* _focus_gained from w up.  FOCUS handlers make no call on a window.      *)
TakeFocus(w) ==
  /\ w \in FocusTargets /\ CanCall(w)
  /\ focusedChild' = [x \in Windows |->
       IF x = w THEN None
       ELSE IF \E a \in live : a \in Gains(w) /\ visible[a] /\ parent[a] = x
       THEN CHOOSE a \in live : a \in Gains(w) /\ visible[a] /\ parent[a] = x
       ELSE focusedChild[x]]
  /\ isFocused' = [x \in Windows |-> x = w \/ (isFocused[x] /\ x \notin Losers(w))]
  /\ IF Root \in Gains(w) THEN RequestRestore ELSE UNCHANGED <<needsRestore, needsLater>>
  /\ UNCHANGED <<tree, cursor, changes, damages, needsExpose, flush, rb, term>>

(* tickit_window_set_cursor_position, _visible *)
SetCursor(w, c) ==
  /\ w \in FocusTargets /\ CanCall(w)
  /\ cursor' = [cursor EXCEPT ![w] = c]
  /\ IF isFocused[w] THEN RequestRestore ELSE UNCHANGED <<needsRestore, needsLater>>
  /\ UNCHANGED <<tree, focusedChild, isFocused, changes, damages, needsExpose, flush,
                 rb, term>>

(* The window _do_restore stops at. *)
FocusEnd ==
  LET down[x \in Windows] ==
        IF visible[x] /\ focusedChild[x] # None THEN down[focusedChild[x]] ELSE x
  IN  down[Root]

(* _cell_visible.  prev is read before it is assigned: any window may be   *)
(* left in it, and ends the scan of the children of w.                     *)
CellVisible(w, c, prev) ==
  /\ c \in RootCells
  /\ \A a \in Lineage(w) :
       /\ c \in Cells(a)
       /\ parent[a] # None => ~Covered(parent[a], a, c)
  /\ ~Covered(w, prev, c)

CursorCell(w) == <<cursor[w].at[1] + AbsRect(w).top, cursor[w].at[2] + AbsRect(w).left>>

RestoredCursor(w, prev) ==
  IF isFocused[w] /\ cursor[w].visible /\ CellVisible(w, CursorCell(w), prev)
  THEN CursorCell(w) ELSE None

(* _do_restore *)
Restore ==
  \E w \in Windows, prev \in Windows \cup {None} :
    w = FocusEnd /\ termCursor' = RestoredCursor(w, prev)

-----------------------------------------------------------------------------
(* tickit_window_flush.                                                    *)

FlushBegin ==
  /\ phase = "idle" /\ needsLater
  /\ needsLater' = FALSE
  /\ phase' = "changes"
  /\ UNCHANGED <<tree, focus, changes, damages, needsExpose, needsRestore, todo, stack,
                 drawn, calls, rb, term>>

(* _do_hierarchy_raise, _do_hierarchy_lower *)
Swap(s, i, j) == [s EXCEPT ![i] = s[j], ![j] = s[i]]

Raised(s, w) == LET i == Index(s, w) IN IF i = 1 THEN s ELSE Swap(s, i - 1, i)

Lowered(s, w) == LET i == Index(s, w) IN IF i = Len(s) THEN s ELSE Swap(s, i, i + 1)

(* _do_hierarchy_change *)
Restacked(kind, s, w) ==
  CASE kind = "raise"       -> Raised(s, w)
    [] kind = "raise_front" -> InsertFirst(Without(s, w), w)
    [] kind = "lower"       -> Lowered(s, w)
    [] kind = "lower_back"  -> InsertLast(Without(s, w), w)

ApplyChange ==
  /\ phase = "changes" /\ changes # <<>>
  /\ LET req == Head(changes) IN
       /\ Attached(req.parent)
       /\ children' = [children EXCEPT ![req.parent] = Restacked(req.change, @, req.win)]
       /\ Request(Expose(Now, req.parent, AbsRect(req.win)))
  /\ changes' = Tail(changes)
  /\ UNCHANGED <<live, parent, visible, rect, focus, needsRestore, flush, calls, rb, term>>

StartPaint ==
  /\ phase = "changes" /\ changes = <<>> /\ needsExpose
  /\ needsExpose' = FALSE
  /\ todo' = damage /\ damage' = <<>> /\ UNCHANGED lost
  /\ rb' = [c \in Grid |-> None]
  /\ phase' = "paint"
  /\ UNCHANGED <<tree, focus, changes, needsRestore, needsLater, stack, drawn, calls, term>>

(* A bug for the mutant runs: what the handlers requested is taken for     *)
(* done.                                                                   *)
FinishAll == needsRestore' = FALSE /\ needsLater' = FALSE

Finish == needsRestore' = FALSE /\ UNCHANGED needsLater

NoPaint ==
  /\ phase = "changes" /\ changes = <<>> /\ ~needsExpose
  /\ IF needsRestore THEN Restore ELSE UNCHANGED termCursor
  /\ Finish
  /\ phase' = "idle"
  /\ UNCHANGED <<tree, focus, changes, damages, needsExpose, todo, stack, drawn, calls, rb,
                 screen>>

(* The next rectangle of the damage, clipped to the render buffer. *)
BeginPass ==
  /\ phase = "paint" /\ stack = <<>> /\ todo # <<>>
  /\ LET part == CellsIn(Head(todo)) IN
     stack' = <<[win |-> Root, at |-> None, area |-> part, open |-> part \cap RootCells]>>
  /\ todo' = Tail(todo)
  /\ UNCHANGED <<tree, focus, changes, damages, needs, phase, drawn, calls, rb, term>>

(* _do_expose.  at is the child the loop stands at, area the rectangle it  *)
(* was given, open the cells of it that no child has masked.               *)
Top == Last(stack)

NextChild(f, c) ==
  \E i \in DOMAIN children[f.win] :
    /\ c = children[f.win][i]
    /\ IF f.at = None THEN i = 1 ELSE i > 1 /\ children[f.win][i - 1] = f.at

Visits(f, c) == visible[c] /\ f.area \cap Cells(c) # {}

Moved(f, c) == [win |-> f.win, at |-> c, area |-> f.area, open |-> f.open]

SkipChild ==
  /\ stack # <<>> /\ ~drawn
  /\ \E c \in Windows :
       /\ NextChild(Top, c) /\ ~Visits(Top, c)
       /\ stack' = Append(Front(stack), Moved(Top, c))
  /\ UNCHANGED <<tree, focus, changes, damages, needs, phase, todo, drawn, calls, rb, term>>

EnterChild ==
  /\ stack # <<>> /\ ~drawn
  /\ \E c \in Windows :
       /\ NextChild(Top, c) /\ Visits(Top, c)
       /\ stack' = Append(Append(Front(stack), Moved(Top, c)),
            [win |-> c, at |-> None,
             area |-> Top.area \cap Cells(c), open |-> Top.open \cap Cells(c)])
  /\ UNCHANGED <<tree, focus, changes, damages, needs, phase, todo, drawn, calls, rb, term>>

(* The EXPOSE handler paints, and may then call the API. *)
Draw ==
  /\ stack # <<>> /\ ~drawn
  /\ \A c \in Windows : ~NextChild(Top, c)
  /\ rb' = [c \in Grid |-> IF c \in Top.open THEN Top.win ELSE rb[c]]
  /\ drawn' = TRUE
  /\ calls' = MaxCalls
  /\ UNCHANGED <<tree, focus, changes, damages, needs, phase, todo, stack, term>>

(* A bug for the mutant runs: the child is not masked. *)
Unmasked(f) == f

(* Back in the loop of the parent, the child is masked. *)
Masked(f) ==
  [win |-> f.win, at |-> f.at, area |-> f.area, open |-> f.open \ Cells(f.at)]

Return ==
  /\ drawn
  /\ drawn' = FALSE /\ calls' = 0
  /\ stack' = IF Len(stack) = 1 THEN <<>>
              ELSE LET below == Front(stack) IN Append(Front(below), Masked(Last(below)))
  /\ UNCHANGED <<tree, focus, changes, damages, needs, phase, todo, rb, term>>

(* tickit_renderbuffer_flush_to_term.  A bug for the mutant runs: cells    *)
(* that nothing was painted on are sent too.                               *)
SentAll(old, painted) == painted

Sent(old, painted) == [c \in Grid |-> IF painted[c] = None THEN old[c] ELSE painted[c]]

(* The buffer is sent, and needs_restore set. *)
EndPaint ==
  /\ phase = "paint" /\ stack = <<>> /\ todo = <<>>
  /\ screen' = Sent(screen, rb)
  /\ rb' = [c \in Grid |-> None]
  /\ Restore
  /\ Finish
  /\ phase' = "idle"
  /\ UNCHANGED <<tree, focus, changes, damages, needsExpose, todo, stack, drawn, calls>>

-----------------------------------------------------------------------------
Flush ==
  \/ FlushBegin \/ ApplyChange \/ StartPaint \/ NoPaint \/ BeginPass
  \/ SkipChild \/ EnterChild \/ Draw \/ Return \/ EndPaint

Call ==
  \E w \in Windows :
    \/ \E p \in Under[w], r \in Places[w], hidden, lowest \in BOOLEAN :
         New(w, p, r, hidden, lowest)
    \/ Destroy(w) \/ Show(w) \/ Hide(w) \/ Update(w) \/ TakeFocus(w)
    \/ \E kind \in Kinds : Restack(kind, w)
    \/ \E c \in Cursor : SetCursor(w, c)

Next == Flush \/ Call \/ \E r \in Sizes : Resize(r)

Spec == Init /\ [][Next]_vars

(* events.dylan calls flush before and after each wait for input, which is *)
(* bounded; and every handler returns.                                     *)
FairSpec == Spec /\ WF_vars(Flush)

-----------------------------------------------------------------------------
(* The types of the variables: every list of children and every request    *)
(* names windows, and the damage is made of rectangles.                   *)
TypeOK ==
  /\ live \subseteq Windows /\ Root \in live
  /\ parent \in [Windows -> Windows \cup {None}] /\ parent[Root] = None
  /\ children \in [Windows -> Seq(Windows)]
  /\ visible \in [Windows -> BOOLEAN]
  /\ rect \in [Windows -> RectType] /\ rect[Root] \in Sizes
  /\ focusedChild \in [Windows -> Windows \cup {None}]
  /\ isFocused \in [Windows -> BOOLEAN]
  /\ cursor \in [Windows -> Cursor]
  /\ changes \in Seq(Change)
  /\ damage \in Seq(RectType) /\ lost \subseteq Int \X Int
  /\ needsExpose \in BOOLEAN /\ needsRestore \in BOOLEAN /\ needsLater \in BOOLEAN
  /\ phase \in {"idle", "changes", "paint"}
  /\ todo \in Seq(RectType)
  /\ stack \in Seq(Frame) /\ drawn \in BOOLEAN
  /\ calls \in 0..MaxCalls
  /\ rb \in [Grid -> Windows \cup {None, Old}]
  /\ screen \in [Grid -> Windows \cup {Old}]
  /\ termCursor \in Grid \cup {None}

(* No request is forgotten: whenever the flush is not at work on them,     *)
(* waiting restacking requests, damage and a wanted restore of the cursor  *)
(* have needs_later_processing set, without which tickit_window_flush      *)
(* returns at once; and damage has needs_expose set, without which it is   *)
(* not painted.  Only the first request of a queue sets the flag, and an   *)
(* expose of cells already damaged sets none.                              *)
NothingForgotten ==
  /\ damage # <<>> => needsExpose
  /\ phase # "changes" =>
       /\ changes # <<>> => needsLater
       /\ needsExpose => needsLater
  /\ phase = "idle" /\ needsRestore => needsLater

(* Between flushes, with no damage, each cell of a visible root shows the  *)
(* content its topmost window has now, but for the cells that the          *)
(* rectangle set of the damage has dropped since they last changed: no     *)
(* sequence of creating, destroying, showing, hiding and restacking        *)
(* windows, or of resizes, and none of those calls made by the handlers of *)
(* a flush under way, leaves any other cell behind.                        *)
ScreenCurrent ==
  phase = "idle" /\ damage = <<>> /\ visible[Root] =>
    \A c \in RootCells \ lost : screen[c] # Old /\ Shown(screen[c], c)

(* A restacking request is applied to windows that are still there and     *)
(* still parent and child, however late the flush comes and whatever was   *)
(* destroyed, and allocated again, meanwhile: the lists are searched for a *)
(* window that is in them.                                                 *)
ChangesParented ==
  \A i \in DOMAIN changes :
    /\ changes[i].win \in live /\ changes[i].parent \in live
    /\ parent[changes[i].win] = changes[i].parent

(* The children listed for a window are the live windows created in it,    *)
(* each once, whatever order requests and destructions come in.            *)
ChildrenExact ==
  \A p \in live :
    /\ {children[p][i] : i \in DOMAIN children[p]} = {w \in live : parent[w] = p}
    /\ \A i, j \in DOMAIN children[p] : children[p][i] = children[p][j] => i = j

(* The chain of focused children that keys and the cursor follow only ever *)
(* leads from a window to a live, visible child of it.                     *)
FocusPathVisible ==
  \A p \in live : focusedChild[p] # None =>
    /\ focusedChild[p] \in live /\ visible[focusedChild[p]]
    /\ parent[focusedChild[p]] = p

(* When nothing is waiting to be processed, the terminal's cursor is where *)
(* restoring it once more could put it: every call that moves, hides,      *)
(* covers or uncovers the cursor asks for a restore or causes one.         *)
CursorCurrent ==
  phase = "idle" /\ ~needsLater /\ visible[Root] =>
    \E prev \in Windows \cup {None} : termCursor = RestoredCursor(FocusEnd, prev)

(* The restacking requests waiting are all applied, those that handlers    *)
(* make in the flush included.                                             *)
ChangesApplied == changes # <<>> ~> changes = <<>>

(* A cell of the terminal that is out of date gets repainted, unless the   *)
(* root is hidden, the rectangle set drops the cell, or its window changes *)
(* it once more after painting it.                                         *)
StaleRepainted ==
  \A c \in Grid :
    (c \in RootCells /\ screen[c] = Old) ~>
      \/ c \notin RootCells \/ ~visible[Root]
      \/ screen[c] # Old \/ rb[c] = Old \/ c \in lost
=============================================================================
