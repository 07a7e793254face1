SPECIFICATION Spec
CONSTANTS
  Files <- PacketFiles
  MaxDiscoveryTags = 256
  SeekStreams = {}
  SeekTimes = {}
INVARIANT SideChannelsDescribePacket
CHECK_DEADLOCK FALSE
