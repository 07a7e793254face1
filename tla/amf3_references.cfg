SPECIFICATION DecoderSpec
CONSTANTS
  Text = {"a"}
  NoText = ""
  Cells <- MessageCells
  MaxCells = 7
INVARIANT TypeOK
INVARIANT IndexIsNthLiteralWithoutXml
INVARIANT OpenSlotsAreCalls
INVARIANT ReferencesGoBack
CHECK_DEADLOCK FALSE
