SPECIFICATION Spec
CONSTANTS
  Headers <- AllHeaders
  Batches <- SomeBatches
  Payloads <- SomePayloads
  Noise <- SomeNoise
  Reordered <- ReorderedCodecs
  MaxNanos = 999999
  None = None
INVARIANT TypeOK
INVARIANT TracksTile
INVARIANT RoundTrip
INVARIANT CutIsNoticed
CHECK_DEADLOCK FALSE
