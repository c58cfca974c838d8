--------------------------- MODULE MCRenderBuffer ----------------------------
(***************************************************************************)
(* The render buffer on a terminal of one line of three cells and of two   *)
(* lines of two, with a narrow and a wide glyph, a pen with one attribute  *)
(* and one buffer to blit.                                                 *)
(***************************************************************************)
EXTENDS RenderBuffer

CONSTANTS space, a, b, w

MCStart == <<1, 3>>
MCSizes == {<<1, 3>>, <<2, 2>>}
MCWhere == {<<0, 0>>}
MCPlaces == {<<0, -1>>, <<0, 1>>}
MCCounts == {2}
MCTexts == {<<a, b>>, <<w>>}
MCCodePoints == {a}
MCHLines == {<<0, 1, 0>>}
MCVLines == {<<0, 1, 1>>}
MCStyle == {1}
MCCaps == {"end"}
MCRects == {InitSized(-1, 1, 2, 1)}
MCDisplacements == {<<0, 1>>}
MCScrollRects == {InitSized(0, 0, 2, 2)}
MCScrolls == {<<0, 1>>, <<-1, 0>>}
MCGlyphs == {space, a, b, w}
MCWide == {w}
MCPenAttrs == {"fg"}
MCPenValues == {1}
Red == [x \in PenAttrs |-> 1]
MCPens == {Red}

(* A buffer that a text was drawn into, and a line in red over its end.    *)
MCSources ==
  {HLine(SetPen(PutText(BufferNew(1, 2, <<0, 0>>), 0, 0, <<a, b>>), Red),
         0, 1, 1, {1}, {})}
=============================================================================
