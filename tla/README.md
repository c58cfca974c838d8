# A TLA+ model of deuce-terminal

deuce-terminal puts the Deuce editor on a text terminal. A Dylan program
(`deuce-terminal/`, `terminal-ui/`, `standalone/`) drives a C library for
terminal user interfaces, a vendored and amended libtickit
(`terminal/libtickit/`), which reads its keys with libtermkey
(`terminal/libtermkey/`). Paths below are relative to the repository's root;
`window.c` and the other C files without a directory are in
`terminal/libtickit/`.

The modules here are translated from that source. TLC checks them on small
instances (`MC*.tla`, `*.cfg`), and TLAPS proves part of what TLC checks for
every value of the constants (`*Proofs.tla`). `PROJECT.json` lists runs, the
lines each definition stands for, the hazards and the theorems.

## 1. The system

| Component | Files | State | Operations |
|---|---|---|---|
| rectangles | `rect.c` | none | intersect, contains, add, subtract, translate |
| rectangle set | `rectset.c` | an ordered array of rectangles | add, subtract, translate, clear, intersects, contains |
| window tree | `window.c` | windows with parent, children, rectangle, visibility, focus and cursor; on the root, damage, waiting restackings and three `needs_` flags | create, destroy, show, hide, restack, expose, flush, focus, cursor, geometry, scroll, dispatch of keys and mouse |
| hook lists | `hooklists.c` | one list of handlers per window, pen and terminal | bind, unbind, run |
| terminal | `term.c` | size, pen, output buffer, input timeout, list of SIGWINCH observers | input with and without waiting, size, pen, output |
| terminal drivers | `termdriver-xterm.c`, `termdriver-ti.c` | cached modes, capabilities, a partial DCS reply | start, stop, print, scroll, pen, modes, replies |
| render buffer | `renderbuffer.c` | cells, stack of clip and translation, mask depths | save, restore, clip, mask, text, erase, lines, flush |
| mock terminal | `mockterm.c` | cells, log, size | as a driver |
| pens | `pen.c` | attributes, reference count, freeze count | set, copy, compare |
| strings | `string.c`, `unicode.h` | none | UTF-8, column widths |
| key input | `terminal/libtermkey/` | byte buffer, drivers, flags | push bytes, get key, wait |
| Dylan bindings | `terminal/*.dylan`, `helper.c` | registered callbacks | foreign functions and callbacks |
| event loop, widgets | `terminal-ui/` | quit flag, widget tree | dispatch, expose, resize |
| Deuce window | `deuce-terminal/` | backing store, pen, scroll state | drawing calls of Deuce, repaint |

How they interact. Everything runs in one thread. The event loop
(`terminal-ui/events.dylan` 65-69) flushes the root window, waits for input for
a bounded time, and flushes again. Waiting for input runs the hooks of the
terminal: the root window has one for keys, mouse events and resizes, which
dispatches them down the tree. API calls on windows add damage to the root
and queue restackings; the flush applies the queue, takes the damage, has each
window on it paint through its EXPOSE handler into a render buffer, writes the
buffer to the terminal, and puts the cursor back. The render buffer clips and
masks, the terminal turns pen changes into deltas, the driver into bytes.

What is hard. There are no threads, but there are callbacks: a handler runs in
the middle of a flush, a focus change or an event, and may call the same API.
State is taken first and used later: damage, requests, cached modes, the next
hook of a list, pointers to destroyed windows. A signal sets a flag between
any two steps. Replies of the terminal come late or never. `PROJECT.json`
lists these hazards, each at its line, with the properties that cover it or
the reason why none does.

What makes each component correct:

* rectangles: each function is the set operation on cells it stands for;
* rectangle set: ordered, disjoint, holds what was added and not taken away;
* window tree: what the screen shows is what the topmost windows have now, when
  nothing is waiting; nothing waits for ever; lists, queue and focus chain name
  live windows only; key and mouse events reach the right window once;
* hook lists: every hook bound is run until it is unbound, and no other is;
* terminal and drivers: the terminal is in the state the cache says; a late or
  a lost reply does not change that; output bytes keep their order;
* render buffer: what is flushed is what was drawn last inside clip and mask;
* key input: bytes become the same keys however they are cut into reads.

## 2. The modules

| Module | Stands for | Used by |
|---|---|---|
| `Rect` | `rect.c`: pure operators | all |
| `RectOps`, `MCRectOps` | a caller of `rect.c` | run `rect_ops` |
| `RectArray` | the array of `rectset.c` and `tickit_rectset_add`: pure operators | `RectSet`, `Window` |
| `RectSet`, `MCRectSet` | `rectset.c` | runs `rect_set`, `rect_set_lost` |
| `Window`, `MCWindow` | the core of `window.c`, its damage a `RectArray` | runs `window_*` |
| `TermOutput` | output buffer of `term.c` | run `term_output` |
| `Pen` | attributes of `pen.c` | `TermPen` |
| `TermPen`, `MCTermPen` | pen of `term.c`, `chpen` of both drivers | runs `term_pen`, `term_pen_params` |
| `MockTerm` | the terminal of `mockterm.c`: pure operators | `RenderCells` |
| `RenderCells` | the functions of `renderbuffer.c` on a buffer: pure operators | `RenderBuffer` |
| `RenderBuffer`, `MCRenderBuffer` | its callers, and a terminal it is flushed to | run `render_buffer` |
| `Canvas` | what a render buffer promises, without spans | `RenderBuffer` (`INSTANCE`) |
| `TermKey` | how bytes are cut into keys: the `peekkey`s of libtermkey, `got_key` | `TermInput` |
| `TermInput`, `MCTermInput` | libtermkey's buffer, the input calls of `term.c`, the timeout, SIGWINCH | run `key_input` |
| `XTermDriver` | modes and replies of `termdriver-xterm.c`, the wait of `term.c` | runs `xterm_driver`, `xterm_cursor` |
| `RectProofs` | theorems about `RectOps` and `RectSet` | TLAPS |
| `TermOutputProofs`, `TermPenProofs`, `TermInputProofs`, `XTermDriverProofs` | theorems about `TermOutput`, `TermPen`, `TermInput`, `XTermDriver` | TLAPS |
| `WindowProofs` | theorems about `Window`: its lists and flags; what the screen shows; the cursor | TLAPS |
| `RenderProofs` | theorems about `RenderBuffer`: tiling, queries | TLAPS |
| `Induction` | lemmas: induction over numbers and over trees, stated with sets; what a loop keeps | the other proofs |

### Rect, RectOps

A rectangle is the record of its four fields, and integers are unbounded. The
splitting functions return sequences. `PutBand` with `Band` is the body of the
loop of `tickit_rect_add`. `RectOps` keeps two rectangles, one action per
function, and the result of the last call, so that a property can compare it
cell by cell with the set operation.

### RectArray, RectSet

`RectArray` has the array, a sequence ordered by `cmprect`, and what one call of
`tickit_rectset_add` makes of it. A call under way is a record: `rects` is the array, `adds` the
argument of the call that runs, then those of the calls the recursion of line 149 still
has to make, `grown` the `top`, `bottom`, `left`, `right` of the one that runs. `Turn` is one pass
of the loop, up to its restart or a return; `DecidesAt` says which rectangle the loop does not
skip, its early exits included, and `Meet` what it does there: returns, stretches, or splits.
`Added` is the array after as many turns as a call takes.

`RectSet` is the module that `rectset.c` is checked and proved with. A call is a sequence of steps,
one for each turn of its loop that changes the set or calls `tickit_rectset_add`: `fn` is the
function called and `arg` its argument.

| Model | Code |
|---|---|
| `adds`, `grown` | as in `RectArray`; `adds` holds those of the loop of line 178 too |
| `AddStep` | one `Turn` |
| `at` | the index `i` of `tickit_rectset_subtract`, from 1 |
| `part` | the rectangle `tickit_rectset_contains` looks up at the depth it has reached |
| `Skip`, `Cut` | the two ways a turn of subtract ends |
| `MeetsNone`, `MeetsLate`, `MeetsLast`, `LooksBelow` | the four of contains |

The code looks up the rows below before it compares the rows above; `LooksBelow` compares
first, and the answer, which needs both, is the same. The ghost `asked` holds the cells
added and not taken away, `held` the cells of the set when the call began. Calls are made one
at a time, between them the set may be moved or cleared. `MaxRects` bounds the
length at which adds begin; allocation does not fail.

### Window

Variables are fields of `struct TickitWindow` as functions on `Windows`, and of
`struct TickitRootWindow`. A freed window's fields are reset to initial values,
so that states that differ in freed memory only are one.

| Model | Code |
|---|---|
| `children[w]` | `first_child` and the chain of `next` |
| `changes` | `root->hierarchy_changes` |
| `damage` | the array of `root->damage`, added to by `Added` of `RectArray` |
| `lost` | ghost: cells that `tickit_rectset_add` has dropped and that were not added again |
| `Clip`, `Expose`, `Damaged`, `Request` | `tickit_window_expose`: clipped to every window on the way up, the damage the root adds, the flags it sets |
| `phase`, `todo`, `stack`, `drawn` | where `tickit_window_flush` stands, the rectangles of damage it took, in order, the recursion of `_do_expose`, and whether a handler runs |
| `rb`, `screen` | the window that painted each cell of the render buffer, of the terminal |
| `termCursor` | the terminal's cursor, `None` when hidden |
| `New`, `Destroy`, `Show`, `Hide`, `Restack`, `TakeFocus`, `SetCursor` | the API functions |
| `Update` | the application changes what a window has to show, and exposes it |
| `Resize` | `on_term` for a RESIZE event, its strips `StripBelow` and `StripBeside` exposed one after the other |
| `FlushBegin` ... `EndPaint` | the pieces of `tickit_window_flush` between two points where handlers run |

A flush is cut where a handler can run, and, for reading, between its stages.
API calls happen when `phase = "idle"` and while a handler runs (`drawn`, up to
`MaxCalls` calls each). The rectangles of the damage are passed over in the order
the array has them.

The damage is the rectangle set with its defect: `tickit_rectset_add` can drop cells that were in the
set (section 4), and `Damaged` computes the array it leaves. `lost` keeps what was dropped;
a cell leaves it when it is damaged again. The properties of the screen say what is true of
the code: every cell that is out of date is damaged or `lost`. `tickit_rectset_contains`, which
expose asks first, stands as the comparison of cells that `QueriesAgree` shows and
`SetQueriesAgree` proves it to be. `MaxTurns` bounds the turns of one add; `TurnsSuffice`, an
assumption of `MCWindow` which TLC evaluates, says that no add on the grid of a run takes more.
The proofs hold for any `MaxTurns`.

`Shown` is the reference: the window a viewer sees on a cell, from visibility,
geometry and stacking alone. A cell of `screen` or `rb` is `Old` when its window
has had an `Update` since it was painted.

What is assumed of the application: an EXPOSE handler paints all of the
rectangle it is given (a handler that does not shows what was there before, by
its own choice); FOCUS, GEOMCHANGE and UNBIND handlers make no calls on
windows; an EXPOSE handler does not destroy a window `_do_expose` is at work on;
nobody calls on a window whose parent was freed. A terminal keeps what it showed when it is resized and shows
nothing useful on what it gained. `TICKIT_WINDOW_ROOT_PARENT` creates a window
under the root with a translated rectangle: a choice among the `Under` and
`Places` of the window.

`tickit_window_destroy` frees a child and then reads its `next`, which the
removal had set to NULL. The model takes it that this reads NULL (the field is
at an offset the allocator does not write), so the loop ends after the first
child and the others become orphans. Calls on orphans, and requests waiting for
a window below an orphan, reach freed memory: `Attached` guards them. An orphan's pointer
has the value `Dangling`, an address that stands for that of any freed window and that no
window is allocated at: the addresses of freed windows themselves are used again at once, and the
pointer is not followed, whatever has been allocated there since. The
runs' trees are at most two windows deep under the root, where no request can be
waiting in that way.

### TermOutput

`buf` is the filled part of the output buffer, a byte the pair of the write it
belongs to and its place in it. `Copy` is one turn of the loop of `write_str`, so
that the states in the middle of a long string are seen; nothing else happens
until the string is done (`Idle`), there being one thread. Whatever the driver
writes is a `Write` of some length. A write to the descriptor takes all bytes.
The loop never moves `str`: a string that does not fit has its beginning copied
again, and `Copy` does that.

### Pen, TermPen

A pen is a function from attributes to values, `Unset` where the valid bit is
off. Values fit the bit fields; reference counts and CHANGE events are left out.
`driver` is which of the two the terminal type chose, `Colours` the number it
gave for colours. `pen` is `tt->pen`; `Setpen` and `Chpen` share `Write`, which differs in the
attributes it looks at. `Params` are the SGR parameters the xterm driver
collects. `TerminfoChpen` gives the effect of the terminfo driver's strings on a
terminal that has all of them. What parameters do to a terminal (`Obeyed`) and
how it looks (`shown`) is external. `Reduced` stands for the table `xterm256`.

### XTermDriver

The driver's struct: `mode`, `cap`, `initialised` (the set of the queries
answered), `dcs` (the filled part of `dcs_buffer`, cut into pieces: the body of a
reply is one). `toTerm` and `fromTerm` are what is on its way. The environment
takes part with two actions: `Terminal` carries out or answers the next
command, `Type` is the user. `Await` can happen at any time, for the wait ends
with the driver started or with a timeout, and a report may come at any time
after. `SetCtl` is `setctl_int`; `Cached` its early returns, `ModeAfter` and
`Sequence` what it assigns and writes. `Receive` is `gotkey`, one disjunct per
branch, and the caller that passes on what it does not consume. `Stop` is
`tickit_term_free`. A terminal may leave queries of `Silences` unanswered and
answer those of `Unknowns` that it does not know the mode. It is taken that a
reply is not interleaved with typing, that mouse modes are switched as the
comment at line 382 says, and that nobody else changes the terminal's modes.

### MockTerm, RenderCells, RenderBuffer, Canvas

A buffer is one record; the operator of the name of a C function returns the
buffer that function leaves, so that `blit` can be written with the operators it
calls. Cells have the fields of `RBCell`; a text is its sequence of glyphs, and
what the code asks of `tickit_string_count` is `Fitting`, how many glyphs fit in
a number of columns: half of a wide glyph never fits. `PutRuns` is the loop that `put_text`, `skip` and `erase`
share: one `make_span` for each unmasked run. `FlushSpan` is one turn of the
flush with `phycol`, where the code takes the terminal's cursor to be.

`RenderBuffer` has one action for each function of the API, on one buffer, and
three of the terminal (scroll, clear, resize) that other code calls on it
between flushes. The virtual cursor of a new buffer is uninitialised: any place
of `Where`. A resize makes a fresh buffer, as `window.c` does for each flush.

`Canvas` is the abstract specification: each cell has at most one pending
content, drawing changes the visible cells only, a restored context is the saved
one, a flush puts what is pending over what is shown. `RenderBuffer` implements
it by the mapping at its end: `pending` is what the span of a cell says of the
cell, `masks[i]` the cells whose mask depth is `i - 1`, `shown` the cells of the
mock terminal. `ImplementsCanvas` is checked as a property.

One promise has a condition. When a wide glyph is cut, by clipping, masking, or
drawing over its half, the span prints fewer columns than it has, `phycol` runs
ahead of the terminal's cursor, and what follows on the line lands one column
early. `Canvas` promises nothing of the flush then (`NoneCut`).

The mock terminal's `mtd_print` is modelled past its right edge too; what it
writes beyond a line there is no cell. `CHAR` cells hold narrow code points: a
wide one counts as one column in the code.

### TermKey, TermInput

`TermKey` is pure: `Peek(bytes, force, junk)` is what the chain of `peekkey`
functions finds at the front of the buffer: a result, the key, the bytes to eat,
those to skip before the next peek (`hightide`), and how far in the driver
looked that found it, on which the sliding of the buffer depends. The order is
the code's: terminfo's trie, CSI, then `peekkey_simple`, which after ESC starts
again behind it. `Junk` is what an argument that a sequence did not have may turn
out as: the code reads it unassigned.

`TermInput` has the buffer as it is, an array with a start and a count, and a
stack of calls in progress, since a handler may call the input functions again
(up to `MaxNest`). A call looks at the size of the window, brings in bytes
(`PushBytes`, `Readable`, `Wait`) or looks at the clock (`CheckTimeout`), and
takes key after key; each key is a step, and so is the return of its handlers.
`Tick`, `WindowResized` and `Sigwinch` go on between any two steps;
`CheckResize` is two steps, for the signal can come between the clearing of the
flag and the reading of the size. `Wait` takes it twice, before and after `select`.

Ghosts say what cannot be read off the buffer: what was `accepted` and how much
of it is `taken`, the events `heard`, whether a key was `forced`, how long it is
`quiet`. `Inside` says that `buffstart` is in the buffer, which it need not stay (section 4);
a step that reads or moves bytes from outside it is undefined and not taken.
`Events` is the reference: the keys the same bytes make when all of
them are there at once. `Peeks` and `Events` are sets, for junk may be anything.

It is assumed that RESIZE handlers make no input calls, that `Readable` is called
when there is something to read or once at the end, and that the driver's
`gotkey` takes no key (`XTermDriver` has those it takes).

## 3. The runs

| Run | Instance | Shows |
|---|---|---|
| `rect_ops` | all pairs of rectangles of a small grid | `SubtractExact`, `AddExact`, `PiecesDisjoint`, `PiecesFit`, `OverlapExact` |
| `rect_set` | all sequences of calls on a grid of four lines and two columns; an add finds up to two rectangles | `OrderedDisjoint`, `NothingExtra`, `QueriesAgree`, `SubtractKeepsRest` |
| `rect_set_lost` | the same, on three lines and columns | `NothingLost` is violated |
| `window_screen` | root, a, b; a terminal of one cell and of two by two; a on the first or the last cell, b on the first line, beside a or inside it; a changes what it shows; one waiting request; one call per handler; under `FairSpec` | `TypeOK`, `ScreenCurrent`, `StaleRepainted` |
| `window_focus` | root, a, b on one cell; a and b take the focus, a is hidden and shown; two waiting requests; one call per handler; under `FairSpec` | `NothingForgotten`, `ScreenCurrent`, `ChangesParented`, `ChildrenExact`, `FocusPathVisible`, `CursorCurrent`, `ChangesApplied` |
| `term_output` | buffers of 0, 1, 3 bytes, three writes of 1, 2, 4, under `FairSpec` | `RoomLeft`, `CountKept`, `OrderKept`, `WriteEnds` |
| `term_pen` | xterm, or terminfo with 8 colours; pens that set two colours, bold and font or not | `ColoursKnown`, `PenCurrent`, `XTermShows`, `TerminfoShows` |
| `term_pen_params` | the same | `ParamsFit` is violated |
| `xterm_driver` | screen, mouse, cursor, blink and shape; all queries answered, or that for the shape only; one key typed | `Restored`, `ModesMirrored`, `OffIsOff`, `AnswersHidden`, `TypingHeard` |
| `xterm_cursor` | a terminal that answers all | `CursorKnown` is violated |
| `render_buffer` | one line of three cells, or two of two; a narrow text, a wide glyph, lines, one pen, a buffer to blit; one saved context; two calls that draw and two others between flushes | `SpansTile`, `QueriesExact`, `ImplementsCanvas` |
| `key_input` | a buffer of six bytes, ten streams, two nested calls, up to two resizes with the short ones; under `FairSpec` | `BytesInOrder`, `CutsDoNotMatter`, `ResizeSeen`, `ForcedWhenDue`, `ResizeHeard` |

Why the bounds are enough. `rect.c` compares edges only: the grid of `rect_ops` has
room for every order of the four row edges and the four column edges of two
rectangles, equal edges included; the proofs cover the rest. `rect_set` reaches sets
of several rectangles one above the other, with the same columns and with others, and
holes in the middle of one; the proofs cover larger ones. Three adds already show the lost
cells. `window_screen` is about geometry: a terminal that grows in both directions at once, so
that two strips are exposed and the corner is in one of them; windows of different lines and columns, so
that the damage is joined, split and, after a few calls, loses a cell (`lost` is not always empty
there: two windows and two resizes do it, as TLC shows when asked); a window clipped by the one it is
in, for b is wider than a; handlers that damage cells already passed over. `window_focus` is about order:
on one cell every window covers what it lies over, in two stacking orders or one inside the other, and
the lists, requests and the chain of focus do not depend on the places of windows. Of two requests that wait,
the first sets the flag, and the other does not; handlers make one call each in each of the
passes of a flush. That any number of windows, requests and calls is safe is proved (section 5). Two
siblings leave no difference between raising by one and to the front, nor between the ways down:
`window_screen` makes one, `window_focus` others. The cursor has one place in its window: that it
moves within a window and not only with it is left to the proof.

The buffers of `term_output` are no buffer, one that every byte fills, and one that
strings fill exactly, overflow once and overflow twice. The pens have every kind of
value of an attribute (unset, default, small, bright, from the palette; a font in and
out of range), and two of a kind only where both matter, as two colours do. In the
`xterm_*` runs the queries are the first commands, so that a request the application
makes later never overtakes them: `MaxWaiting` need not be more than one for a request
to race with every report, and the end of the program still adds its three. One key is
enough to open a DCS, to end one, or to fall into one a reply has opened. `Terminals`
starts from each cursor; the mouse is switched on in one mode.

In `render_buffer` a call at column -1 is cut by the left edge, one at 1 may be cut by the
right edge, by the clip or by the mask; two calls that draw are what it takes to split a
span, and a text of two columns splits into halves of which each has its own offset. Two
other calls are enough to save and mask, or to translate and clip, before a call that draws.

The streams of `key_input` reach each of the peek functions: a terminfo key, ESC
twice, X10 mouse, CSI with modifiers, an unknown sequence, one without its argument,
UTF-8 whole and cut off, more keys than half the buffer, and a sequence longer than the
buffer, and one that leaves the buffer. With six bytes, keys found beyond the third make the buffer slide. A tick is the
whole waiting time: only before and after matter.

Deadlock is checked in all runs but the `xterm_*` ones, where the program ends with
`tickit_term_free` and nothing more happens, and `render_buffer` and `key_input`, where the
bounds and the end of the stream end it.

Fairness. `FairSpec` has weak fairness of `Flush`, the disjunction of the steps of
a flush. `terminal-ui/events.dylan` 65-69 calls `tickit_window_flush` before and
after every wait for input, the wait has a timeout, and a flush that has begun runs
to its end. The application owes nothing: no call and no resize is fair.
`StaleRepainted` does not claim that the application stops making cells stale, only
that a stale cell does not stay so while the root is visible, unless it is `lost`.

`TermInput` takes its fairness from the same loop. It calls `tickit_term_input_wait_msec` whenever it
comes round: `Wait` is strongly fair when no call is in progress, since other calls of the module may
come first. Nothing calls `tickit_term_input_check_timeout_msec` in this program, and nothing of it is fair;
so an unfinished key, as a lone Escape, stays until the next byte comes, and no property
says otherwise. A call in progress goes on (weak fairness of its steps), and a signal
is delivered. A handler that keeps making calls for ever is allowed: each of them looks at the size
of the window, and `ResizeHeard` holds all the same.

`TermOutput` has weak fairness of `Copy` alone: a call of `write_str`, once made,
runs; neither the calls nor flushes are fair.

Every property has a mutant, a plausible bug of the code written before the
definition it replaces, that breaks it.

## 4. What the runs found

`rect_set_lost`. `tickit_rectset_add` stretches the new rectangle over a neighbour
that has the same rows or columns, deletes the neighbour and starts over. If it then
meets a rectangle it has to be split with, line 144 splits the rectangle the caller
passed, not the stretched one (a TODO on that line asks about it), and the neighbour's
cells are gone. Add cell (0,0), then cells (1,0) and (1,1) as one rectangle, then
cell (1,0) again: the last add swallows cell (0,0), then meets the other rectangle. Line 113
too compares with the rectangle passed, finds it covered and returns, and cell (0,0) is in no
rectangle. For the window tree this means damage that is
never painted: `Window` has it so, the cells are in `lost`, and `ScreenCurrent` and
`StaleRepainted` except them. `rect_set` checks, and section 5 proves, what does hold all the same: nothing
extra, order, exact answers, and `tickit_rectset_subtract` exact on every set.

`term_pen_params`. The comment in the xterm driver's `chpen` (213) counts six single
attributes, there are seven: the first `tickit_term_setpen`, when the terminal's pen is
still empty, with two colours of the palette stores 13 parameters in an array of 12.

`xterm_cursor`. The driver queries whether the cursor is visible (442), but uses the
answer only if it is yes. With a cursor hidden before the program starts `getctl` says it
is visible and a request to show it is skipped. A report that comes after the
application has hidden the cursor overrides that too. `Restored` leaves out both cases
(`hiddenBefore`, `early`), `OffIsOff` says which direction is safe.

Read but not run: `write_str` repeats the beginning of a string that the buffer's end
splits (`OrderKept` says when the order is right); terminfo italics are lost at the next
change of another attribute; a forced look that takes nothing (`termkey_getkey` 994-996) and
finds a key behind several ESC slides the buffer as if they were eaten (`termkey.c` 845), and
`buffstart`, from which they are taken back (908), may end before the buffer: with `a a ESC ESC
ESC [` in a buffer of six `key_input` reaches it, `Inside` is false, and its properties say so;
the keypad mode is never cached and never reset; the user's
Alt-P makes the xterm driver swallow plain keys. `_cell_visible` (499-529) reads `prev` before assigning it.
`CellVisible` takes any window for it, and `CursorCurrent` asks only that the cursor
is where restoring it once more could put it. `tickit_window_set_geometry` exposes
nothing, and `is_focused` of a window is not cleared when a window above it takes the
focus. `tickit_term_input_wait_msec` (664) never clears its `fd_set`, so that
`select` may say 2 and the bytes stay unread: `NothingCame` is always possible.
The table of names in libtermkey's `driver-ti.c` is searched by bisection, but not in
order: "begin" is never found. A restore brings back a virtual cursor that was
never set. A mouse column above 1023 loses a bit (`termkey-internal.h` 88). The
linux console's `ESC [ [ A` is a key of terminfo when it comes at once, and other keys
when a read ends inside it. The hazards list has most of these with their lines.

## 5. What is proved

`RectProofs`, from `CellsAssumption` (rows and columns are integers): `SubtractCells`
and `AddCells` say of any two rectangles that the results of `tickit_rect_subtract` and
`tickit_rect_add` cover the right cells and are at most four, at most three; the
theorems `SubtractIsExact`, `AddIsExact` and `SplitsFit` follow for the calls of
`RectOps`. The argument goes by the bands: three row boundaries cut the two
operands into slices in each of which a row has the same columns. `SplitsDisjoint`
says that the pieces have no cell twice: each is the rows of one band, bands are stacked
one above the other (`Stacked`), and the pieces of a band lie beside each other.
`AnswersExact` is about `intersects`, `intersect` and `contains`: a rectangle that is not
empty has its corners among its cells, so that what holds of the cells holds of the edges.

About sets, from `BoundsAssumption` (bounds are numbers): `SetOrderedDisjoint`,
`SetNothingExtra`, `SetSubtractKeepsRest`, `SetQueriesAgree`, at every step of any sequence of
calls, for sets of any length. The invariant is

    Inv == TypeOK /\ Proper(rects) /\ AddsShaped /\ NoMore
             /\ TakenSoFar /\ Scanned /\ LookedUp

`Proper`: two rectangles of a set touch only when one is above the other, and then they have
not the same columns (`Normal`). Disjoint alone is not inductive: the early exit
of add relies on the order, and what stretching yields is disjoint from the rest because what
stood beside a neighbour was cut. From it follows why contains may trust the first rectangle
it meets: nothing stands beside a rectangle, so where a row is covered it is by one rectangle
alone (`SpansRow`, `FirstSpans`). That add can lose cells makes subtract the hard one, for it
adds the remains back. `Remains` is why nothing is lost there: the remains of a rectangle are
apart from the rest of the set, so that nothing is split and nothing is found
covered, only blocks with the same columns join (`NoSplitInTake`). `ScanStands` is why the
index is right: rectangles in front of the one taken out do not meet the argument, and a
join takes away at most one of them and puts the block in its place.

`WindowProofs`, from `WindowAssumption` (the constants have their types, the terminal's
sizes fit the grid, `Dangling` is not the root): `TypeCorrect`, `NeverForgotten`, `ChildrenCorrect`,
`FocusPathCorrect`, `RequestsCorrect`. One inductive invariant carries them all:

    IInv == TypeOK /\ ChildrenListed /\ OneRoot /\ ChangesParented
              /\ Nested /\ FocusPathVisible /\ NothingForgotten
              /\ Ranked /\ FreeApart /\ Parents

`TypeOK` is not inductive. That removing a window from a list leaves a list needs the
window to be in it, once: `ChildrenListed`, each list lists the live children. For a
request that waited, it needs `ChangesParented`, which destroy keeps by purging and
creation keeps because it takes free addresses only. Every live window but the root has
a parent (`OneRoot`), which the guards of calls rely on. `Nested` says that a handler
runs in the paint phase only: the call budget and `NothingForgotten` (what the flags
promise differs by phase) rest on it. The lemmas `ListsFirst` to `ListsRestacked` are
about the list operations alone, for any sequence.

`Ranked`: windows have numbers that grow from parent to child. The tree has no
loops, and `Lineage`, `AbsRect` and what else climbs or descends the tree can be
reasoned about by induction on that number (`Induction`): that what a call exposes is a rectangle needs it.
`FreeApart` and `Parents`: nothing refers to a freed window but by `Dangling`, which is
never allocated.

The second part of the module, from the same assumption: `ScreenIsCurrent`, what the terminal shows when
nothing waits is what the windows have now, but for cells that are `lost`, for any tree of any depth, any
rectangles, resizes in any direction, and any number of calls from handlers. It rests on what
`tickit_rectset_add` really leaves, not on the damage as a set:

    Owed == CellsOf(damage) \cup lost

A cell that was damaged, or is exposed now, is owed a repaint, or known to be lost: that is all the proof may use of
`Damaged`. `DamagedKeeps` and `ExposureOwes` say it of one exposure and of several (a destroy
exposes once for each window, a resize twice), `NewOwes`, `ShowOwes`, `UpdateOwes`, `DestroyOwes`,
`ApplyOwes` and `ResizeOwes` of each call: the cells it changes, clipped to the windows above, are
owed afterwards. `ResizeOwes` has that the two strips leave out no cell the terminal has gained.
That the loop of add ends in an array of rectangles is by `LoopKeeps` (`Induction`). On top of `IInv`:

    ScreenInv == Shape /\ \A c \in Grid : Settled(c) => CellRight(c)

`Settled`: on the terminal, the root visible, and not owed. `Shape`: while a flush paints, `stack` is a path of windows down the tree,
each with the list of children not yet descended into. `CellRight` is what is known of each
cell at each point of a flush: it is damaged, or it waits in `todo`; or it is in the pass
being made, and then it is `Repainted` already, or the recursion has still to come by
the window that paints it (`OpenReached`: no window passed has taken it), or that window
was passed and painted it (`Passed`, `Standing`); or it was painted before, and
shows the window `Shown` names. It is needed for every cell, in the middle of the
recursion, for a handler's calls change the tree under it.
A lemma for each call proves `KeepsAt`: on a cell that is settled after the call, every window that a viewer could see
there before it is seen or not as before: what hide, destroy, restack and show damage is
enough.

The third part: `CursorIsCurrent`, under two hypotheses about a behaviour, without which the
code does not keep `CursorCurrent`. `InView`: each window has a cell in common with all
windows above it. One that has none exposes nothing when it is shown, hidden or destroyed;
if the chain of focused children changes with it, no restore is asked for and the cursor stays
where another window had it. `Grows`: the terminal does not shrink; `on_term` asks for
nothing when it does, and the cursor may be left on a cell that is gone. All states of `window_focus`
meet both. The invariant is

    CursorInv == FreeUnfocused /\ (CursorDue => CursorRight)

`CursorDue`: the flush does not paint, neither a repaint nor a restore is asked for, and the root shows.
Then the cursor is right, also while requests wait and in the middle of the flush. What
`_do_restore` computes depends on the windows from the end of the chain up to the root, and on
their children (`CursorStays`). A call about one of these damages a cell that is in view, by `InView`
(`ViewOf`); a call about another leaves them alone; the calls that damage nothing, of the focus and the
cursor, ask for a restore unless a hidden window above cuts them off from the chain (`RootGains`).
The chain goes down the tree, against the ranks, so `Ranked` says that the ranks are
bounded: the chain has an end (`ChainedNow`, `DownUnfolds`). `FreeUnfocused`: freed windows have no
focused child, so the chain never enters freed memory.

`RenderProofs`, from `CallersAssumption` (calls are given numbers, texts, pens and rectangles of
any kind, and blitted buffers are tiled; `None` is no pen, and the bits of a line cell are no
glyph) and `RenderBufferAssumption`: `SpansStayTiled` and `QueriesAnswer`, for buffers of any size,
any texts and any sequence of calls. The invariant is `SoundBuffer`: the buffer is one of `Sound`, the
set of the buffers of a size and with a stack of frames whose every line is tiled and whose clip lies within
the cells. It says more than `SpansTile`: without the type of a cell the first cell of a span
need not be a cell, without the clip a span could begin beyond the line, and a restore puts back what the
frames of the stack hold. There is one lemma for each operator that returns a buffer (`TextSound`,
`CharSound`, ...); all that draw rest on `PlacedTiled`: `make_span` over a tiled line leaves a
tiled line when a span of the same length is put in its place, where the two spans it cuts may be
the same one. What a text has left behind a cut is by `TailIs`: as many columns as the rest of
its span. Loops are folds, and by `LoopKeeps` in the end they have made what each
pass keeps; a blit's loop keeps that the column it goes on in is the end of the line or the
start of a span (`NextStarts`), or it would draw a CONT cell. That the queries find the
glyph of a column is `GlyphOfColumn`: the columns of a text are those of its glyphs, one after
the other, so the first glyph that does not fit before a column is the one that the column is of.

`TermOutputProofs`, from `OutputAssumption` (lengths are positive): `TypeCorrect`,
`NeverOverrun`, `CountCorrect` and `OrderCorrect`. The invariant adds to the four
properties what an unfinished write knows: what is left is part of its string
(`LeftInside`), and while no string has been split it is all of it, fits, and completes
what was written (`PendingFits`); `OrderKept` alone says nothing in the middle of a write.

`TermPenProofs`, from `TermPenAssumption` (pens are pens, replaced colours are the
terminal's): `PenIsCurrent`, `TerminfoIsTrue`, `XTermIsTrue`. `Known` compares the pen
asked for with the cached one, the cached one may hold a replaced colour: the theorem
holds because a colour the terminal has is its own `Target`. `ColoursAreKnown` says of any
pens that the cached pen never holds a colour the terminal has not. That the terminal
looks like the cached pen is by cases for terminfo, whose driver starts from nothing whenever
an attribute goes; for xterm it is an induction along the parameters (`ReadAppend`:
parameters that end with a whole attribute are read as the one part and then the other), one
step for each attribute. Both need that an attribute of one bit is unset, off or on.

`TermInputProofs`, from `TermKeyAssumption` (the terminal's keys are strings of bytes) and
`InputAssumption` (sizes and times are positive, the size of the buffer is even): `ResizeIsSeen`,
`ForcedIsDue` and `BytesStayInOrder`, for any keys and streams, any depth of nested calls and any
junk. The invariant of the first two is

    IInv == FramesOK /\ TimesOK /\ ResizeSeen /\ TimeKept

`ForcedWhenDue` speaks of the step that takes half a key. `TimeKept` is what it rests on:
the time set is never up before the quiet is long enough, unless a call on the stack
has brought in bytes and is still to set it; such a call returns by setting it.
`FramesOK` says that only a call of `check_timeout` stands at the clock. What
`Peek` finds does not matter to either theorem.

`BytesStayInOrder` rests on it: the buffer slides by where a driver looked, is eaten from by the
length of the key, and skips what an unknown sequence had. `Sound` is what three such
counts must be for no byte to be lost: a key has a byte, key and skipped bytes are there, and
the driver looked at a byte of the key. It is proved for each of the peek functions and, down
the bytes (`PeekSound`), for what they find behind any number of ESC. The invariant `BufferInv` says that the array holds
the last `count` bytes accepted, from `start` on. That a slide copies half the buffer is
enough because it happens only beyond the middle.

`XTermDriverProofs`, from `DriverAssumption` (the controls are some of the driver's, mouse modes
those it knows, silences and unknowns sets of its queries, and the visibility of the cursor is
not one a terminal does not know; a DCS has a piece and room for one; bounds are numbers): `Restored`, `ModesMirrored`, `OffIsOff`, `AnswersHidden` as invariants and
`TypingHeard` of every step, for any number of requests on their way, any
order of reports, typing and requests. The invariant relates the cache to the terminal as it
*will be* when the commands on their way have arrived (`WillBe`), for between a request and its
arrival the two differ:

* `Mirrored`, `ShapeMirrored`, `BlinkWillBe`, `CursorMirrored`: what the cache holds of a
  control is what it will be, with the exceptions the code makes: a cursor that was hidden
  before, a report that has overtaken a request (`early`);
* `AskedOnce`: a query is on its way, or its reply is, or it was answered, never two of these;
  without it a late reply could meet a second one;
* `RepliesWhole`: what has been collected of a DCS is the beginning of one reply;
* `Quiet`, `HiddenWillBe`, `FreedModes`: nothing is sent before the start, what a hidden cursor
  turns into, and that the modes the program has set are reset at the end.

`Induction` is no theory of its own: the library's theorems on induction take an operator, so
the same facts are stated here of the set of numbers, or of nodes, that have a property, and
proved from the existence of a least element. A forest is a function to
parents with a rank that grows downwards; a function defined by recursion on it exists and
satisfies its definition (`TreeDefines`, `TreeRecursion`). A fold from the left is the loop with
the body `Pass`, a constant operator: `RenderProofs` has an instance of the module for each loop.

## 6. What is only model-checked

* `ChangesApplied`, `StaleRepainted`, `WriteEnds`, `ResizeHeard`: liveness.
* `ImplementsCanvas`: that a call draws the visible cells of its figure and no others needs
  what a loop has made of each cell, not only that it stays tiled.
* `CutsDoNotMatter`. It is not true of all keys of a terminal: the linux console's `ESC [ [ A`
  is cut differently when it comes in two reads, and so is a key that begins with ESC ESC
  and an introducer of a CSI sequence.

## 7. What is not modelled, and the plan

Left out for good: the debug log, the tables of widths, palettes and line characters,
start-up, allocation failures, names of keys, and the foreign declarations of the Dylan
bindings. The Dylan side is a loop around calls that are modelled, and stubs.

Not modelled, though it has state:

* the dispatch of keys and mouse events in `window.c`, and handlers that move the focus;
* `set_geometry` and scrolling of windows. The application is to expose what it moves, and
  what the screen shows then is the application's promise, not the code's;
* hook lists. Binding and running are a walk along a list; unbinding a hook that is not
  first, or from its own handler, goes wrong as the hazards say, and nothing in this
  program does either;
* the list of SIGWINCH observers: one terminal observes, once;
* modes, moves, erasing and scrolling as bytes of the two drivers; `MockTerm` stands for
  what they do to a terminal.

Plan, in the order of importance:

1. Theorems: `Canvas` step by step.
2. `WindowInput`: `_handle_key` and `_handle_mouse` with handlers that change the tree
   they are walking; steal-input; each event handled at most once, and offered to the
   focused window first.
3. `WindowGeometry`: `set_geometry` and scrolling (`_scrollrectset`, `_scroll`) over
   `RectSet`'s operators, with `ScreenCurrent` of the windows that were exposed.
4. `HookList`: ids unique, and every hook run until it is unbound.
5. Composition of `Window` with `RenderBuffer`: its `rb` is a canvas whose contents are
   windows.
