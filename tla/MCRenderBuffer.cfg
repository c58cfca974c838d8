SPECIFICATION Spec
CONSTANTS
  space = space
  a = a
  b = b
  w = w
  Unset = Unset
  None = None
  Blank = space
  Wide <- MCWide
  Glyphs <- MCGlyphs
  PenAttrs <- MCPenAttrs
  PenValues <- MCPenValues
  StartSize <- MCStart
  Sizes <- MCSizes
  Where <- MCWhere
  Places <- MCPlaces
  Counts <- MCCounts
  Texts <- MCTexts
  CodePoints <- MCCodePoints
  HLines <- MCHLines
  VLines <- MCVLines
  LineStyle <- MCStyle
  LineCaps <- MCCaps
  CallRects <- MCRects
  Displacements <- MCDisplacements
  ScrollRects <- MCScrollRects
  Scrolls <- MCScrolls
  SetPens <- MCPens
  Sources <- MCSources
  MaxDepth = 1
  MaxOffset = 1
  MaxDraws = 2
  MaxOthers = 2
INVARIANTS SpansTile QueriesExact
PROPERTY ImplementsCanvas
CHECK_DEADLOCK FALSE
