------------------------------ MODULE MCWindow ------------------------------
(* Small trees of windows, on small terminals. *)
EXTENDS Window

CONSTANTS root, a, b, dangling

MCWindows == {root, a, b, dangling}

MCUnder ==
  [w \in MCWindows |-> CASE w = a -> {root} [] w = b -> {root, a} [] OTHER -> {}]

MCSpots == {<<0, 0>>}

(* A terminal of one cell, and of two by two.  A window on the first or    *)
(* the last cell, another on the first line, beside it or clipped inside   *)
(* it: their damage and the strips of a resize are enough for              *)
(* tickit_rectset_add to drop cells.                                       *)
MCSizes == {InitSized(0, 0, 1, 1), InitSized(0, 0, 2, 2)}
MCGrid == CellsIn(InitSized(0, 0, 2, 2))

MCPlaces ==
  [w \in MCWindows |->
     CASE w = a -> {InitSized(0, 0, 1, 1), InitSized(1, 1, 1, 1)}
       [] w = b -> {InitSized(0, 0, 1, 2)}
       [] OTHER -> {}]

(* The same windows on one cell, where each covers what it lies over.      *)
OneSize == {InitSized(0, 0, 1, 1)}
OneGrid == {<<0, 0>>}
OnePlaces == [w \in MCWindows |-> IF w \in {a, b} THEN OneSize ELSE {}]

(* No expose on the grid, after up to three others, takes more than        *)
(* MaxTurns turns of tickit_rectset_add.                                   *)
GridRects ==
  {r \in {InitBounded(t, l, m, n) : t, l, m, n \in 0..2} :
     NonEmpty(r) /\ CellsIn(r) \subseteq Grid}

Clean == [damage |-> <<>>, lost |-> {}, asks |-> FALSE]

ASSUME TurnsSuffice ==
  \A r, s, t, u \in GridRects :
    LET before == Damaged[Damaged[Damaged[Clean][r]][s]][t].damage IN
    CellsIn(u) \subseteq CellsOf(before) \/ AddTurns(before, u, MaxTurns).adds = <<>>
=============================================================================
