SPECIFICATION Spec
CONSTANTS
  Modes <- SomeModes
  Calls <- SomeCalls
  AtMost <- SomeLengths
  Payloads <- SomePayloads
  Octets <- SomeOctets
  Offsets <- SomeOffsets
  Layouts <- SomeLayouts
  ColorInfos <- SomeColors
  AmfBodies <- SomeBodies
  MaxDepth = 3
INVARIANT TypeOK
INVARIANT EveryWriteIsAnswered
INVARIANT StreamsAreAsWritten
INVARIANT TypedViewsAgree
INVARIANT CuesAndImagesStayApart
INVARIANT TrackMapsComeBack
INVARIANT ColorInfoIsLatest
INVARIANT LayoutIsLatest
INVARIANT FoundIsAsWritten
CHECK_DEADLOCK FALSE
