SPECIFICATION Spec
CONSTANTS
  Files <- SeekFiles
  MaxDiscoveryTags = 256
  SeekStreams = {0, 1, 2}
  SeekTimes = {0, 1, 2, 4}
INVARIANT IndexLandsAtOrBefore
INVARIANT ScanLandsOnFirst
INVARIANT FailedScanLeavesNothing
CHECK_DEADLOCK FALSE
