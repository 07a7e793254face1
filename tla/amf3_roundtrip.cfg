SPECIFICATION CodecFairSpec
CONSTANTS
  Text = {"a", "b"}
  NoText = ""
  MaxCells = 7
  MaxCount = 1
INVARIANT CodecTypeOK
INVARIANT RoundTrip
INVARIANT TablesAgree
PROPERTY ReadsToTheEnd
CHECK_DEADLOCK FALSE
