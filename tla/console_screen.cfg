\* Text, then a framebuffer with a rest of a row, then text again; two keys.
SPECIFICATION Spec
CONSTANTS
  TextCols = 2
  TextRows = 2
  FbCols = 4
  FbHeight = 7
  FONT_SIZE_Y = 2
  MIN_CAPACITY = 4
  Glyphs = {"a", "b"}
  Colours = {"red"}
  SSE = FALSE
  MaxChars = 6
  MaxKeys = 2
INVARIANTS
  ShownIsLog
  StoresInside
  CursorInside
\* The text is bounded.
CHECK_DEADLOCK FALSE
