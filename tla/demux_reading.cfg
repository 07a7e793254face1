SPECIFICATION Spec
CONSTANTS
  Files <- ReadingFiles
  MaxDiscoveryTags = 2
  SeekStreams = {0}
  SeekTimes <- ReadingTimes
INVARIANT TypeOK
INVARIANT PacketsCarryTheirStream
INVARIANT CiphertextIsDiscarded
INVARIANT SideChannelsDescribeClearPacket
INVARIANT HarvestIsLatest
INVARIANT DiscoveryFollowsFileOrder
INVARIANT NoStreamIsMissed
CHECK_DEADLOCK FALSE
