SPECIFICATION FairSpec
CONSTANTS
  Files <- StreamFiles
  MaxDiscoveryTags = 256
  SeekStreams = {0}
  SeekTimes = {0, 2}
PROPERTY ImplementsPacketStream
PROPERTY CallsReturn
PROPERTY DrainReachesEof
CHECK_DEADLOCK FALSE
