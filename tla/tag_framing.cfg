SPECIFICATION Spec
CONSTANTS
  Radix = 4
  IvLength = 2
  Tags <- SomeTags
  Files <- SomeFiles
  Noise <- SomeNoise
  None = None
INVARIANT TypeOK
INVARIANT RoundTrip
INVARIANT CutIsNoticed
INVARIANT BackPointersLead
CHECK_DEADLOCK FALSE
