SPECIFICATION DecoderSpec
CONSTANTS
  Text = {"a"}
  NoText = ""
  Cells <- MessageCells
  MaxCells = 7
INVARIANT IndexIsNthLiteral
CHECK_DEADLOCK FALSE
