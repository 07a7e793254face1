-------------------------- MODULE FlvDemuxerProofs --------------------------
(***************************************************************************)
(* Proofs about FlvDemuxer, for all files, caps and seek arguments.        *)
(***************************************************************************)
EXTENDS FlvDemuxerProps, TLAPS

(***************************************************************************)
(* Tags and packets.                                                       *)
(***************************************************************************)

\* The packet a media tag becomes has the fields of a packet.
LEMMA PacketTyped ==
  ASSUME NEW t \in Tag, NEW i \in Nat, NEW s \in Nat,
         t.kind \in Media, Yields(t)
  PROVE  PacketOf(i, t, s) \in Packet
<1> DEFINE b == t.body
<1>1. /\ t.ts \in Nat /\ b \in Body /\ b.tracks \in Seq(Nat)
      /\ b.cto \in Int /\ b.multitrack \in BOOLEAN
  BY DEF Tag, Body
<1>2. CarriesTracks(b) => DefaultTrack(b) \in Int
  BY <1>1 DEF CarriesTracks, DefaultTrack
<1>3. VideoShift(b) \in Int
  BY <1>1 DEF VideoShift
<1>4. AudioPacket(i, t, s) \in Packet
  BY <1>1, <1>2 DEF AudioPacket, Packet, Whole
<1>5. VideoPacket(i, t, s) \in Packet
  BY <1>1, <1>2, <1>3 DEF VideoPacket, Packet, Whole
<1> QED
  BY <1>4, <1>5 DEF PacketOf

\* So has the packet a filtered tag becomes.
LEMMA CipherPacketTyped ==
  ASSUME NEW t \in Tag, NEW i \in Nat, NEW s \in Nat
  PROVE  CipherPacket(i, t, s) \in Packet
BY DEF CipherPacket, Packet, Whole, Tag

\* A keyframes table that is accepted is a table.
LEMMA IndexTyped ==
  ASSUME NEW s \in Script
  PROVE  KeyframeIndexOf(s) \in Seq([time : Int, dest : Nat \ {0}])
BY DEF KeyframeIndexOf, Script

\* The entries of a sequence are of its element type.
LEMMA EntryTyped ==
  ASSUME NEW S, NEW q \in Seq(S), NEW j \in 1 .. Len(q)
  PROVE  q[j] \in S
OBVIOUS

\* Bisection returns a place in the table.
LEMMA BisectInTable ==
  ASSUME NEW index \in Seq([time : Int, dest : Nat \ {0}]), NEW ms \in Nat,
         NEW j \in Bisect(index, ms)
  PROVE  j \in 1 .. Len(index)
BY DEF Bisect

-----------------------------------------------------------------------------
(***************************************************************************)
(* Types.                                                                  *)
(***************************************************************************)

\* The tag under the reader is a tag.
LEMMA HereTyped ==
  ASSUME TypeOK, ~AtEof
  PROVE  Here \in Tag /\ cursor \in Tags
BY FilesAssumption DEF TypeOK, AtEof, Here, Tags

\* A step of next_packet moves one tag on.
LEMMA ReadingTyped ==
  ASSUME TypeOK, Reading
  PROVE  /\ Here \in Tag /\ cursor \in TagOrNone /\ cursor' \in Nat \ {0}
         /\ StreamIndex(Here.kind) \in Nat
BY HereTyped DEF Reading, TypeOK, StreamIndex, TagOrNone

\* The file that was opened is the file that is read.
LEMMA FileStays ==
  ASSUME [Next]_vars
  PROVE  file' = file
<1> USE DEF vars, discovered, harvested, sideChannels, seekState
<1>1. CASE Open
  BY <1>1 DEF Open, OpenDone, OpenUnreadable, OpenMalformed, OpenFails, DiscoverUnknown,
              DiscoverScript, DiscoverMedia
<1>2. CASE Read
  BY <1>2 DEF Read, ReadEof, ReadUnreadable, ReadIgnored, ReadFiltered, ReadMedia, Reading
<1>3. CASE Scan
  BY <1>3 DEF Scan, ScanEof, ScanUnreadable, ScanMatch, ScanSkip, Scanning
<1>4. CASE CallNext \/ SeekTo
  BY <1>4 DEF CallNext, SeekTo, SeekRejected, SeekByIndex, SeekByScan
<1>5. CASE UNCHANGED vars
  BY <1>5
<1> QED
  BY <1>1, <1>2, <1>3, <1>4, <1>5 DEF Next

\* No step breaks a type.
LEMMA TypeOKInductive == TypeOK /\ [Next]_vars => TypeOK'
<1> SUFFICES ASSUME TypeOK, [Next]_vars PROVE TypeOK'
  OBVIOUS
<1> USE DEF vars, discovered, harvested, sideChannels, seekState
<1>0. file' = file /\ TagOrNone' = TagOrNone
  BY FileStays DEF TagOrNone, Tags
<1>1. CASE OpenDone
  BY <1>0, <1>1 DEF OpenDone, Return, TypeOK
<1>2. CASE OpenUnreadable
  BY <1>0, <1>2 DEF OpenUnreadable, OpenFails, ReadError, TypeOK
<1>3. CASE OpenMalformed
  BY <1>0, <1>3 DEF OpenMalformed, OpenFails, TypeOK
<1>4. CASE DiscoverUnknown
  <2>1. AfterSkip \in Nat \ {0}
    BY FilesAssumption DEF AfterSkip, TypeOK
  <2> QED
    BY <1>0, <1>4, <2>1 DEF DiscoverUnknown, TypeOK
<1>5. CASE DiscoverScript
  <2>1. Here.script \in Script
    BY <1>5, HereTyped DEF DiscoverScript, Discovering, Tag
  <2>2. KeyframeIndexOf(Here.script) \in Seq([time : Int, dest : Nat \ {0}])
    BY <2>1, IndexTyped
  <2>3. duration' \in Int /\ isEncrypted' \in BOOLEAN
    BY <1>5, <2>1 DEF DiscoverScript, ParseScript, Script, TypeOK
  <2>4. keyframeIndex' \in Seq([time : Int, dest : Nat \ {0}])
    BY <1>5, <2>2 DEF DiscoverScript, ParseScript, TypeOK
  <2> QED
    BY <1>0, <1>5, <2>3, <2>4 DEF DiscoverScript, TypeOK
<1>6. CASE DiscoverMedia
  <2>1. cursor \in TagOrNone /\ file' = file
    BY <1>6, HereTyped DEF DiscoverMedia, Discovering, TagOrNone
  <2>2. minted' \in [Media -> TagOrNone]
    BY <1>6, <2>1 DEF DiscoverMedia, TypeOK
  <2> QED
    BY <1>0, <1>6, <2>1, <2>2 DEF DiscoverMedia, TypeOK
<1>7. CASE CallNext
  BY <1>0, <1>7 DEF CallNext, TypeOK
<1>8. CASE ReadEof
  BY <1>0, <1>8 DEF ReadEof, Return, TypeOK
<1>9. CASE ReadUnreadable
  BY <1>0, <1>9 DEF ReadUnreadable, ReadError, Return, TypeOK
<1>10. CASE ReadIgnored
  BY <1>0, <1>10 DEF ReadIgnored, Reading, TypeOK
<1>11. CASE ReadFiltered
  <2>1. packet' \in Packet /\ packet'.tag \in TagOrNone
    BY <1>11, ReadingTyped, CipherPacketTyped DEF ReadFiltered, CipherPacket, TypeOK
  <2> QED
    BY <1>0, <1>11, <2>1 DEF ReadFiltered, Reading, Return, TypeOK
<1>12. CASE ReadMedia
  <2>0. cursor \in TagOrNone /\ 0 \in TagOrNone
    BY <1>12, ReadingTyped DEF ReadMedia, TagOrNone
  <2>1. packet' \in Packet /\ packet'.tag \in TagOrNone
    <3>1. CASE Yields(Here)
      <4>1. packet' = PacketOf(cursor, Here, StreamIndex(Here.kind))
        BY <1>12, <3>1 DEF ReadMedia, DecodeHere
      <4>2. packet'.tag = cursor
        BY <4>1 DEF PacketOf, AudioPacket, VideoPacket
      <4> QED
        BY <1>12, <2>0, <3>1, <4>1, <4>2, ReadingTyped, PacketTyped DEF ReadMedia, Routed, TypeOK
    <3>2. CASE ~Yields(Here)
      BY <1>12, <3>2 DEF ReadMedia, DecodeHere, TypeOK
    <3> QED
      BY <3>1, <3>2
  <2>2. colorInfo' \in TagOrNone /\ layout' \in TagOrNone /\ channels' \in TagOrNone
    BY <1>12, <2>0 DEF ReadMedia, DecodeHere, Harvest, TypeOK
  <2>3. lastMultitrack' \in TagOrNone /\ lastModEx' \in TagOrNone
    BY <1>12, <2>0 DEF ReadMedia, DecodeHere, RefreshSideChannels, TypeOK
  <2> QED
    BY <1>0, <1>12, <2>1, <2>2, <2>3 DEF ReadMedia, DecodeHere, Reading, Return, TypeOK
<1>13. ASSUME NEW s \in SeekStreams, SeekRejected(s) PROVE TypeOK'
  BY <1>0, <1>13 DEF SeekRejected, Return, TypeOK
<1>14. ASSUME NEW s \in SeekStreams, NEW p \in SeekTimes, SeekByIndex(s, p) PROVE TypeOK'
  <2>1. Clamp(p) \in Nat
    BY SeekAssumption DEF Clamp
  <2>2. PICK j \in Bisect(keyframeIndex, Clamp(p)) :
          /\ cursor' = keyframeIndex[j].dest
          /\ start'  = keyframeIndex[j].dest
          /\ landed' = ToMs(keyframeIndex[j].time)
    BY <1>14 DEF SeekByIndex
  <2>3. keyframeIndex[j] \in [time : Int, dest : Nat \ {0}]
    <3>1. j \in 1 .. Len(keyframeIndex)
      BY <2>1, BisectInTable DEF TypeOK
    <3>2. keyframeIndex \in Seq([time : Int, dest : Nat \ {0}])
      BY DEF TypeOK
    <3> QED
      BY <3>1, <3>2, EntryTyped
  <2>4. cursor' \in Nat \ {0} /\ start' \in Nat \ {0} /\ landed' \in Int
    BY <2>2, <2>3 DEF ToMs
  <2> QED
    BY <1>0, <1>14, <2>1, <2>4 DEF SeekByIndex, Return, TypeOK
<1>15. ASSUME NEW s \in SeekStreams, NEW p \in SeekTimes, SeekByScan(s, p) PROVE TypeOK'
  <2>1. Clamp(p) \in Nat
    BY SeekAssumption DEF Clamp
  <2> QED
    BY <1>0, <1>15, <2>1 DEF SeekByScan, TypeOK
<1>16. CASE ScanEof
  BY <1>0, <1>16 DEF ScanEof, Scanning, Return, TypeOK
<1>17. CASE ScanUnreadable
  BY <1>0, <1>17 DEF ScanUnreadable, Scanning, Return, TypeOK
<1>18. CASE ScanMatch
  BY <1>0, <1>18, HereTyped DEF ScanMatch, Scanning, Return, TypeOK, Tag
<1>19. CASE ScanSkip
  <2>1. AfterSkip \in Nat \ {0}
    BY FilesAssumption DEF AfterSkip, TypeOK
  <2> QED
    BY <1>0, <1>19, <2>1 DEF ScanSkip, Scanning, TypeOK
<1>20. CASE UNCHANGED vars
  BY <1>0, <1>20 DEF TypeOK
<1> QED
  BY <1>1, <1>2, <1>3, <1>4, <1>5, <1>6, <1>7, <1>8, <1>9, <1>10, <1>11, <1>12, <1>13,
     <1>14, <1>15, <1>16, <1>17, <1>18, <1>19, <1>20 DEF Next, Open, Read, Scan, SeekTo

\* Every variable keeps its type, and what is kept of a tag is of a tag of the file.
THEOREM TypeCorrect == Spec => []TypeOK
<1>1. Init => TypeOK
  <2> SUFFICES ASSUME Init PROVE TypeOK
    OBVIOUS
  <2>1. minted \in [Media -> TagOrNone]
    BY DEF Init, Media, TagOrNone
  <2>2. packet \in Packet /\ packet.tag \in TagOrNone
    BY DEF Init, NoPacket, Packet, Whole, TagOrNone
  <2>3. keyframeIndex \in Seq([time : Int, dest : Nat \ {0}])
    BY DEF Init
  <2>4. /\ file \in Files /\ pc \in {"opening", "failed", "idle", "reading", "seeking"}
        /\ cursor \in Nat \ {0} /\ scanned \in Nat /\ duration \in Int
        /\ colorInfo \in TagOrNone /\ layout \in TagOrNone /\ channels \in TagOrNone
        /\ lastMultitrack \in TagOrNone /\ lastModEx \in TagOrNone
        /\ target \in Nat /\ landed \in Int /\ start \in Nat \ {0}
        /\ result \in {"none", "opened", "packet", "eof", "invalid", "io",
                       "rejected", "landed", "scanFailed"}
    BY DEF Init, TagOrNone
  <2>5. isEncrypted \in BOOLEAN
    BY Zenon DEF Init
  <2> QED
    BY <2>1, <2>2, <2>3, <2>4, <2>5 DEF TypeOK
<1> QED
  BY <1>1, TypeOKInductive, PTL DEF Spec

-----------------------------------------------------------------------------
(***************************************************************************)
(* Packets and side channels.                                              *)
(***************************************************************************)

\* While a file is being opened there is no packet; afterwards the streams are
\* fixed, so what is said of the last packet can only change with the packet.
PacketInv ==
  /\ pc = "opening" => packet.tag = 0
  /\ PacketsCarryTheirStream
  /\ CiphertextIsDiscarded
  /\ SideChannelsDescribeClearPacket

\* Only ReadFiltered and ReadMedia touch the packet and the side channels, only
\* the steps of open_concrete touch the streams, and no step begins anew.
LEMMA PacketSteps ==
  ASSUME [Next]_vars
  PROVE  \/ /\ UNCHANGED <<file, packet, sideChannels>>
            /\ pc # "opening" => UNCHANGED minted
            /\ pc' = "opening" => pc = "opening"
         \/ ReadFiltered
         \/ ReadMedia
<1> USE DEF vars, discovered, harvested, sideChannels, seekState
<1>1. CASE Open
  BY <1>1 DEF Open, OpenDone, OpenUnreadable, OpenMalformed, OpenFails, DiscoverUnknown,
              DiscoverScript, DiscoverMedia, Discovering
<1>2. CASE ReadEof \/ ReadUnreadable \/ ReadIgnored
  BY <1>2 DEF ReadEof, ReadUnreadable, ReadIgnored, Reading, Return
<1>3. CASE Scan
  BY <1>3 DEF Scan, ScanEof, ScanUnreadable, ScanMatch, ScanSkip, Scanning, Return
<1>4. CASE CallNext
  BY <1>4 DEF CallNext
<1>5. CASE SeekTo
  BY <1>5 DEF SeekTo, SeekRejected, SeekByIndex, SeekByScan, Return
<1>6. CASE UNCHANGED vars
  BY <1>6
<1> QED
  BY <1>1, <1>2, <1>3, <1>4, <1>5, <1>6 DEF Next, Read

\* The packet made of the tag under the reader satisfies the invariant.
LEMMA FreshPacket ==
  ASSUME TypeOK, Reading, Routed(Here), pc' = "idle",
         packet'.tag = cursor,
         packet'.stream = StreamIndex(Here.kind),
         packet'.dts = Here.ts,
         Filtered(Here) => packet'.discard /\ ~packet'.header /\ ~packet'.key,
         ~Filtered(Here) => RefreshSideChannels(Here, cursor)
  PROVE  PacketInv'
<1>1. /\ file' = file /\ minted' = minted /\ file'[packet'.tag] = Here
      /\ cursor \in Tags' /\ cursor # 0
  BY HereTyped DEF Reading, discovered, Here, Tags, TypeOK
<1>2. PacketsCarryTheirStream'
  BY <1>1 DEF PacketsCarryTheirStream, Routed, HasStream, StreamIndex, StreamCount, Media
<1>3. CiphertextIsDiscarded'
  BY <1>1 DEF CiphertextIsDiscarded
<1>4. SideChannelsDescribeClearPacket'
  BY <1>1 DEF SideChannelsDescribeClearPacket, DescribesPacket, RefreshSideChannels
<1> QED
  BY <1>2, <1>3, <1>4 DEF PacketInv

\* No step breaks what is known of packets.
LEMMA PacketInvInductive == TypeOK /\ PacketInv /\ [Next]_vars => PacketInv'
<1> SUFFICES ASSUME TypeOK, PacketInv, [Next]_vars PROVE PacketInv'
  OBVIOUS
<1>1. CASE /\ UNCHANGED <<file, packet, sideChannels>>
           /\ pc # "opening" => UNCHANGED minted
           /\ pc' = "opening" => pc = "opening"
  <2>1. CASE packet.tag = 0
    BY <1>1, <2>1 DEF PacketInv, PacketsCarryTheirStream, CiphertextIsDiscarded,
                      SideChannelsDescribeClearPacket
  <2>2. CASE packet.tag # 0
    <3>1. UNCHANGED <<file, minted, packet, lastMultitrack, lastModEx>> /\ pc' # "opening"
      BY <1>1, <2>2 DEF PacketInv, sideChannels
    <3>2. PacketsCarryTheirStream'
      BY <3>1 DEF PacketInv, PacketsCarryTheirStream, Tags, HasStream, StreamCount
    <3>3. CiphertextIsDiscarded'
      BY <3>1 DEF PacketInv, CiphertextIsDiscarded
    <3>4. SideChannelsDescribeClearPacket'
      BY <3>1 DEF PacketInv, SideChannelsDescribeClearPacket, DescribesPacket
    <3> QED
      BY <3>1, <3>2, <3>3, <3>4 DEF PacketInv
  <2> QED
    BY <2>1, <2>2
<1>2. CASE ReadFiltered
  <2>1. CASE Here.preamble = "good"
    BY <1>2, <2>1, FreshPacket DEF ReadFiltered, CipherPacket, Return, Filtered
  <2>2. CASE Here.preamble # "good"
    <3>1. UNCHANGED <<file, minted, packet, lastMultitrack, lastModEx>> /\ pc' # "opening"
      BY <1>2, <2>2 DEF ReadFiltered, Reading, Return, discovered, sideChannels
    <3> QED
      BY <3>1 DEF PacketInv, PacketsCarryTheirStream, Tags, HasStream, StreamCount,
                  CiphertextIsDiscarded, SideChannelsDescribeClearPacket, DescribesPacket
  <2> QED
    BY <2>1, <2>2
<1>3. CASE ReadMedia
  <2>1. CASE Yields(Here)
    <3>1. /\ packet' = PacketOf(cursor, Here, StreamIndex(Here.kind))
          /\ RefreshSideChannels(Here, cursor) /\ pc' = "idle"
      BY <1>3, <2>1 DEF ReadMedia, DecodeHere, Return
    <3>2. /\ packet'.tag = cursor /\ packet'.stream = StreamIndex(Here.kind)
          /\ packet'.dts = Here.ts
      BY <3>1 DEF PacketOf, AudioPacket, VideoPacket
    <3> QED
      BY <1>3, <3>1, <3>2, FreshPacket DEF ReadMedia
  <2>2. CASE ~Yields(Here)
    <3>1. UNCHANGED <<file, minted, packet, lastMultitrack, lastModEx>> /\ pc' # "opening"
      BY <1>3, <2>2 DEF ReadMedia, DecodeHere, Reading, discovered, sideChannels
    <3> QED
      BY <3>1 DEF PacketInv, PacketsCarryTheirStream, Tags, HasStream, StreamCount,
                  CiphertextIsDiscarded, SideChannelsDescribeClearPacket, DescribesPacket
  <2> QED
    BY <2>1, <2>2
<1> QED
  BY <1>1, <1>2, <1>3, PacketSteps

\* What is said of packets holds throughout: they name a stream of their kind,
\* ciphertext is marked, and the side channels describe a packet in the clear.
THEOREM PacketsCorrect ==
  Spec => [](PacketsCarryTheirStream /\ CiphertextIsDiscarded /\ SideChannelsDescribeClearPacket)
<1>1. Init => PacketInv
  BY DEF Init, PacketInv, NoPacket, PacketsCarryTheirStream, CiphertextIsDiscarded,
         SideChannelsDescribeClearPacket
<1>2. PacketInv => /\ PacketsCarryTheirStream /\ CiphertextIsDiscarded
                   /\ SideChannelsDescribeClearPacket
  BY DEF PacketInv
<1> QED
  BY <1>1, <1>2, TypeCorrect, PacketInvInductive, PTL DEF Spec

\* Along every run a packet names an existing stream of its tag's own kind and
\* keeps its tag's decoding time (open_concrete's renumbering, next_packet).
COROLLARY PacketsNameTheirStream == Spec => []PacketsCarryTheirStream
BY PacketsCorrect, PTL

\* Along every run the bytes of a filtered tag are marked discard, never header
\* or key (build_encrypted_packet).
COROLLARY CiphertextStaysMarked == Spec => []CiphertextIsDiscarded
BY PacketsCorrect, PTL

-----------------------------------------------------------------------------
(***************************************************************************)
(* Harvested stream descriptions.                                          *)
(***************************************************************************)

\* A run of reading starts at the first tag when the file has been opened, and
\* where the reader is when a seek returns.
HarvestInv ==
  /\ pc = "opening" => start = 1
  /\ HarvestIsLatest

\* A range that ends before it starts has nothing in it.
LEMMA EmptyRange ==
  ASSUME NEW n \in Nat, NEW j \in n .. n - 1
  PROVE  FALSE
OBVIOUS

\* Nothing has been read since the run began.
LEMMA NothingRead ==
  ASSUME cursor' = start', start' \in Nat, start' = 1 \/ pc' # "opening"
  PROVE  HarvestInv'
<1>1. \A j \in start' .. cursor' - 1 : FALSE
  BY EmptyRange
<1> QED
  BY <1>1 DEF HarvestInv, HarvestIsLatest

\* The reader has not moved, and nothing was harvested.
LEMMA HarvestKept ==
  ASSUME HarvestInv, UNCHANGED <<file, minted, cursor, start, colorInfo, layout, channels>>,
         pc' \in {"idle", "reading"} => pc \in {"idle", "reading"},
         pc' = "opening" => pc = "opening"
  PROVE  HarvestInv'
BY DEF HarvestInv, HarvestIsLatest, Readable, Filtered, Routed, HasStream, SetsColor, SetsLayout

\* A step of next_packet over a tag.
LEMMA HarvestOver ==
  ASSUME TypeOK, HarvestInv, pc = "reading", pc' # "opening", ~AtEof,
         UNCHANGED <<file, minted, start>>, cursor' = cursor + 1,
         IF Readable(Here) /\ ~Filtered(Here) /\ Routed(Here)
         THEN Harvest(Here, cursor)
         ELSE UNCHANGED <<colorInfo, layout, channels>>
  PROVE  HarvestInv'
<1> DEFINE live(j)  == Readable(file[j]) /\ ~Filtered(file[j]) /\ Routed(file[j])
           color(j) == live(j) /\ SetsColor(file[j])
           lay(j)   == live(j) /\ SetsLayout(file[j])
           chan(j)  == lay(j) /\ file[j].body.info = "some"
           Latest(j) ==
             /\ color(j) => colorInfo >= j /\ color(colorInfo) /\ colorInfo < cursor
             /\ lay(j)   => layout >= j    /\ lay(layout)      /\ layout < cursor
             /\ chan(j)  => channels >= j  /\ chan(channels)   /\ channels < cursor
<1>1. \A j : (live(j))' = live(j)
  BY DEF Readable, Filtered, Routed, HasStream
<1>2. \A j : /\ (color(j))' = color(j) /\ (lay(j))' = lay(j) /\ (chan(j))' = chan(j)
  BY <1>1 DEF SetsColor, SetsLayout
<1>3. /\ color(cursor) => colorInfo' = cursor
      /\ lay(cursor) => layout' = cursor
      /\ chan(cursor) => channels' = cursor
  BY DEF Harvest, Here
<1>4. /\ colorInfo' # cursor => colorInfo' = colorInfo
      /\ layout' # cursor => layout' = layout
      /\ channels' # cursor => channels' = channels
  BY DEF Harvest
<1>5. /\ colorInfo' = cursor => color(cursor) \/ colorInfo' = colorInfo
      /\ layout' = cursor => lay(cursor) \/ layout' = layout
      /\ channels' = cursor => chan(cursor) \/ channels' = channels
  BY DEF Harvest, Here
<1>6. ASSUME NEW j \in start .. cursor - 1 PROVE Latest(j)
  BY DEF HarvestInv, HarvestIsLatest
<1>7. cursor \in Nat /\ start \in Nat /\ colorInfo \in Nat /\ layout \in Nat /\ channels \in Nat
  BY DEF TypeOK, TagOrNone, Tags
<1> HIDE DEF live, color, lay, chan
<1>8. ASSUME NEW j \in start .. cursor' - 1 PROVE (Latest(j))'
  <2>1. CASE j = cursor
    BY <1>2, <1>3, <1>7, <2>1
  <2>2. CASE j # cursor
    <3>1. Latest(j) /\ j <= cursor
      BY <1>6, <1>7, <2>2
    <3>2. color(j) => colorInfo' >= j /\ color(colorInfo') /\ colorInfo' < cursor + 1
      BY <1>3, <1>4, <1>5, <1>7, <2>2, <3>1
    <3>3. lay(j) => layout' >= j /\ lay(layout') /\ layout' < cursor + 1
      BY <1>3, <1>4, <1>5, <1>7, <2>2, <3>1
    <3>4. chan(j) => channels' >= j /\ chan(channels') /\ channels' < cursor + 1
      BY <1>3, <1>4, <1>5, <1>7, <2>2, <3>1
    <3> QED
      BY <1>2, <3>2, <3>3, <3>4
  <2> QED
    BY <2>1, <2>2
<1>9. HarvestIsLatest'
  BY <1>8 DEF HarvestIsLatest, live, color, lay, chan
<1> QED
  BY <1>9 DEF HarvestInv

\* No step breaks what is known of harvested frames.
LEMMA HarvestInvInductive == TypeOK /\ HarvestInv /\ [Next]_vars => HarvestInv'
<1> SUFFICES ASSUME TypeOK, HarvestInv, [Next]_vars PROVE HarvestInv'
  OBVIOUS
<1> USE DEF vars, discovered, harvested, sideChannels, seekState
<1>1. CASE Open
  <2>1. pc = "opening" /\ start' = 1
    BY <1>1 DEF Open, OpenDone, OpenUnreadable, OpenMalformed, OpenFails, DiscoverUnknown,
                DiscoverScript, DiscoverMedia, Discovering, HarvestInv
  <2>2. pc' \in {"idle", "reading"} => cursor' = 1
    BY <1>1 DEF Open, OpenDone, OpenUnreadable, OpenMalformed, OpenFails, DiscoverUnknown,
                DiscoverScript, DiscoverMedia, Discovering, Return
  <2> QED
    BY <2>1, <2>2 DEF HarvestInv, HarvestIsLatest
<1>2. CASE CallNext \/ ReadEof \/ UNCHANGED vars
  BY <1>2, HarvestKept DEF CallNext, ReadEof, Return
<1>3. CASE ReadUnreadable
  BY <1>3, HarvestOver DEF ReadUnreadable, Return
<1>4. CASE ReadIgnored
  BY <1>4, HarvestOver DEF ReadIgnored, Reading
<1>5. CASE ReadFiltered
  BY <1>5, HarvestOver DEF ReadFiltered, Reading, Return
<1>6. CASE ReadMedia
  BY <1>6, HarvestOver DEF ReadMedia, DecodeHere, Reading, Return
<1>7. ASSUME NEW s \in SeekStreams, SeekRejected(s) PROVE HarvestInv'
  BY <1>7, HarvestKept DEF SeekRejected, Return
<1>8. ASSUME NEW s \in SeekStreams, NEW p \in SeekTimes, SeekByIndex(s, p) PROVE HarvestInv'
  <2>1. TypeOK'
    BY TypeOKInductive
  <2> QED
    BY <1>8, <2>1, NothingRead DEF SeekByIndex, Return, TypeOK
<1>9. ASSUME NEW s \in SeekStreams, NEW p \in SeekTimes, SeekByScan(s, p) PROVE HarvestInv'
  BY <1>9 DEF SeekByScan, HarvestInv, HarvestIsLatest
<1>10. CASE ScanSkip
  BY <1>10 DEF ScanSkip, Scanning, HarvestInv, HarvestIsLatest
<1>11. CASE ScanEof \/ ScanUnreadable \/ ScanMatch
  BY <1>11, NothingRead DEF ScanEof, ScanUnreadable, ScanMatch, Scanning, Return, TypeOK
<1> QED
  BY <1>1, <1>2, <1>3, <1>4, <1>5, <1>6, <1>7, <1>8, <1>9, <1>10, <1>11
  DEF Next, Read, Scan, SeekTo

\* In a run of reading what was harvested last is what is reported.
THEOREM HarvestCorrect == Spec => []HarvestIsLatest
<1>1. Init => HarvestInv
  BY DEF Init, HarvestInv, HarvestIsLatest
<1>2. HarvestInv => HarvestIsLatest
  BY DEF HarvestInv
<1> QED
  BY <1>1, <1>2, TypeCorrect, HarvestInvInductive, PTL DEF Spec

(***************************************************************************)
(* What open_concrete finds.                                               *)
(***************************************************************************)
\* While a file is being opened the reader is behind the tags it has looked at,
\* or a skip has taken it past the end.
PositionInv ==
  pc = "opening" =>
    \/ cursor = scanned + 1
    \/ ~(cursor <= Len(file)) /\ scanned \in Tags /\ file[scanned].size # "fit"

DiscoveryInv ==
  /\ PositionInv
  /\ DiscoveryFollowsFileOrder
  /\ NoStreamIsMissed

\* A tag is discovered where the count of tags says.
LEMMA Position ==
  ASSUME TypeOK, PositionInv, Discovering
  PROVE  cursor = scanned + 1 /\ scanned \in Nat /\ cursor \in Tags /\ Here = file[scanned + 1]
BY HereTyped DEF PositionInv, Discovering, AtEof, TypeOK, Here

\* A range grows by its new end.
LEMMA GrowRange ==
  ASSUME NEW n \in Nat, NEW j \in 1 .. n + 1
  PROVE  j \in 1 .. n \/ j = n + 1
OBVIOUS

\* After opening, nothing that discovery decided changes any more.
LEMMA DiscoverySteps ==
  ASSUME [Next]_vars
  PROVE  \/ OpenDone
         \/ OpenUnreadable \/ OpenMalformed
         \/ DiscoverUnknown \/ DiscoverScript \/ DiscoverMedia
         \/ /\ UNCHANGED <<file, discovered>>
            /\ Opened' => Opened
            /\ pc' = "opening" => UNCHANGED vars
<1>1. CASE Read \/ CallNext
  BY <1>1 DEF Read, ReadEof, ReadUnreadable, ReadIgnored, ReadFiltered, ReadMedia, DecodeHere,
              Reading, Return, CallNext, Opened
<1>2. CASE Scan
  BY <1>2 DEF Scan, ScanEof, ScanUnreadable, ScanMatch, ScanSkip, Scanning, Return, Opened
<1>3. CASE SeekTo
  BY <1>3 DEF SeekTo, SeekRejected, SeekByIndex, SeekByScan, Return, Opened
<1>4. CASE UNCHANGED vars
  BY <1>4 DEF vars, Opened
<1> QED
  BY <1>1, <1>2, <1>3, <1>4 DEF Next, Open

\* Where nothing changes, file order stays what it was.
LEMMA OrderKept ==
  ASSUME DiscoveryFollowsFileOrder, UNCHANGED <<file, discovered>>
  PROVE  DiscoveryFollowsFileOrder'
<1>1. /\ \A k, j : HasBody(k, j)' = HasBody(k, j)
      /\ \A j : DurationAt(j)' = DurationAt(j) /\ TableAt(j)' = TableAt(j)
                /\ HeaderAt(j)' = HeaderAt(j)
  BY DEF HasBody, MetaDataAt, DurationAt, TableAt, HeaderAt, KeyframeIndexOf
<1>2. UNCHANGED <<file, scanned, minted, duration, keyframeIndex, isEncrypted>>
  BY DEF discovered
<1>3. StreamsAreFirst'
  BY <1>1, <1>2 DEF DiscoveryFollowsFileOrder, StreamsAreFirst, HasStream
<1>4. DurationIsFirst'
  BY <1>1, <1>2 DEF DiscoveryFollowsFileOrder, DurationIsFirst
<1>5. TableIsFirst'
  BY <1>1, <1>2 DEF DiscoveryFollowsFileOrder, TableIsFirst
<1>6. EncryptionIsLast'
  BY <1>1, <1>2 DEF DiscoveryFollowsFileOrder, EncryptionIsLast
<1> QED
  BY <1>3, <1>4, <1>5, <1>6 DEF DiscoveryFollowsFileOrder

\* A step over one more tag, when it updates each part as discovery does.
LEMMA OrderExtended ==
  ASSUME TypeOK, TypeOK', DiscoveryFollowsFileOrder, file' = file, scanned' = scanned + 1,
         \A k \in Media :
           minted'[k] = IF ~HasStream(k) /\ HasBody(k, scanned + 1) THEN scanned + 1 ELSE minted[k],
         duration' = IF duration < 0 /\ DurationAt(scanned + 1)
                     THEN file[scanned + 1].script.duration ELSE duration,
         keyframeIndex' = IF keyframeIndex = <<>> /\ TableAt(scanned + 1)
                          THEN file[scanned + 1].script.keyframes ELSE keyframeIndex,
         isEncrypted' = IF HeaderAt(scanned + 1)
                        THEN file[scanned + 1].script.valid ELSE isEncrypted
  PROVE  DiscoveryFollowsFileOrder'
<1>1. /\ \A k, j : HasBody(k, j)' = HasBody(k, j)
      /\ \A j : DurationAt(j)' = DurationAt(j) /\ TableAt(j)' = TableAt(j)
                /\ HeaderAt(j)' = HeaderAt(j)
  BY DEF HasBody, MetaDataAt, DurationAt, TableAt, HeaderAt, KeyframeIndexOf
<1>2. scanned \in Nat /\ duration \in Int /\ \A k \in Media : minted[k] \in Nat
  BY DEF TypeOK, TagOrNone, Tags
<1>3. StreamsAreFirst'
  <2> SUFFICES ASSUME NEW k \in Media
      PROVE  IF minted'[k] # 0
             THEN /\ minted'[k] \in 1 .. scanned + 1 /\ HasBody(k, minted'[k])
                  /\ \A j \in 1 .. minted'[k] - 1 : ~HasBody(k, j)
             ELSE \A j \in 1 .. scanned + 1 : ~HasBody(k, j)
    BY <1>1 DEF StreamsAreFirst, HasStream
  <2>1. CASE HasStream(k)
    BY <1>2, <2>1 DEF DiscoveryFollowsFileOrder, StreamsAreFirst, HasStream
  <2>2. CASE ~HasStream(k) /\ HasBody(k, scanned + 1)
    BY <1>2, <2>2 DEF DiscoveryFollowsFileOrder, StreamsAreFirst, HasStream
  <2>3. CASE ~HasStream(k) /\ ~HasBody(k, scanned + 1)
    BY <1>2, <2>3, GrowRange DEF DiscoveryFollowsFileOrder, StreamsAreFirst, HasStream
  <2> QED
    BY <2>1, <2>2, <2>3
<1>4. DurationIsFirst'
  <2>1. CASE ~(duration < 0)
    BY <1>1, <1>2, <2>1 DEF DiscoveryFollowsFileOrder, DurationIsFirst
  <2>2. CASE duration < 0 /\ DurationAt(scanned + 1)
    <3>1. ~(duration' < 0) /\ duration' = file[scanned + 1].script.duration
      <4>1. duration' = file[scanned + 1].script.duration /\ file[scanned + 1].script.duration >= 0
        BY <2>2 DEF DurationAt
      <4>2. duration' \in Int
        BY DEF TypeOK
      <4> QED
        BY <4>1, <4>2
    <3>2. \A h \in 1 .. (scanned + 1) - 1 : ~DurationAt(h)
      BY <1>2, <2>2 DEF DiscoveryFollowsFileOrder, DurationIsFirst
    <3> QED
      BY <1>1, <1>2, <2>2, <3>1, <3>2 DEF DurationIsFirst
  <2>3. CASE duration < 0 /\ ~DurationAt(scanned + 1)
    BY <1>1, <1>2, <2>3, GrowRange DEF DiscoveryFollowsFileOrder, DurationIsFirst
  <2> QED
    BY <2>1, <2>2, <2>3
<1>5. TableIsFirst'
  <2>1. CASE keyframeIndex # <<>>
    BY <1>1, <1>2, <2>1 DEF DiscoveryFollowsFileOrder, TableIsFirst
  <2>2. CASE keyframeIndex = <<>> /\ TableAt(scanned + 1)
    <3>1. keyframeIndex' # <<>> /\ keyframeIndex' = file[scanned + 1].script.keyframes
      BY <2>2 DEF TableAt, KeyframeIndexOf
    <3>2. \A h \in 1 .. (scanned + 1) - 1 : ~TableAt(h)
      BY <1>2, <2>2 DEF DiscoveryFollowsFileOrder, TableIsFirst
    <3> QED
      BY <1>1, <1>2, <2>2, <3>1, <3>2 DEF TableIsFirst
  <2>3. CASE keyframeIndex = <<>> /\ ~TableAt(scanned + 1)
    BY <1>1, <1>2, <2>3, GrowRange DEF DiscoveryFollowsFileOrder, TableIsFirst
  <2> QED
    BY <2>1, <2>2, <2>3
<1>6. EncryptionIsLast'
  <2>1. CASE HeaderAt(scanned + 1)
    BY <1>1, <1>2, <2>1 DEF EncryptionIsLast
  <2>2. CASE ~HeaderAt(scanned + 1)
    BY <1>1, <1>2, <2>2, GrowRange DEF DiscoveryFollowsFileOrder, EncryptionIsLast
  <2> QED
    BY <2>1, <2>2
<1> QED
  BY <1>3, <1>4, <1>5, <1>6 DEF DiscoveryFollowsFileOrder

\* No step breaks what discovery has established.
LEMMA DiscoveryInvInductive == TypeOK /\ DiscoveryInv /\ [Next]_vars => DiscoveryInv'
<1> SUFFICES ASSUME TypeOK, DiscoveryInv, [Next]_vars PROVE DiscoveryInv'
  OBVIOUS
<1> USE DEF DiscoveryInv
<1>0. TypeOK'
  BY TypeOKInductive
<1>1. CASE OpenDone
  <2>1. UNCHANGED <<file, discovered>> /\ pc = "opening" /\ ~Discovering /\ pc' \in {"idle", "failed"}
    BY <1>1 DEF OpenDone, Return
  <2>2. DiscoveryFollowsFileOrder'
    BY <2>1, OrderKept
  <2>3. ASSUME NEW k \in Media, NEW j \in Tags, ~HasStream(k), HasBody(k, j), Reachable(j)
        PROVE  j > MaxDiscoveryTags
    <3>1. scanned \in Nat /\ j \in Nat /\ MaxDiscoveryTags \in Nat /\ cursor \in Nat
      BY CapAssumption DEF TypeOK, Tags
    <3>2. ~(j <= scanned)
      BY <2>3, <3>1 DEF DiscoveryFollowsFileOrder, StreamsAreFirst, Tags
    <3>3. ~(scanned < MaxDiscoveryTags) \/ AtEof
      BY <2>1, <2>3 DEF Discovering, Media
    <3>4. ~AtEof
      <4>1. CASE cursor = scanned + 1
        BY <3>1, <3>2, <4>1, FilesAssumption DEF AtEof, Tags, TypeOK
      <4>2. CASE scanned \in Tags /\ file[scanned].size # "fit"
        BY <2>3, <3>1, <3>2, <4>2 DEF Reachable, Tags
      <4> QED
        BY <2>1, <4>1, <4>2 DEF PositionInv
    <3> QED
      BY <3>1, <3>2, <3>3, <3>4
  <2>4. NoStreamIsMissed'
    BY <2>1, <2>3 DEF NoStreamIsMissed, discovered, HasStream, HasBody, Tags, Reachable
  <2> QED
    BY <2>1, <2>2, <2>4 DEF PositionInv
<1>2. CASE OpenUnreadable \/ OpenMalformed
  <2>1. UNCHANGED <<file, discovered>> /\ pc' = "failed"
    BY <1>2 DEF OpenUnreadable, OpenMalformed, OpenFails
  <2> QED
    BY <2>1, OrderKept DEF PositionInv, NoStreamIsMissed, Opened
<1>3. CASE DiscoverUnknown
  <2>1. /\ cursor = scanned + 1 /\ scanned \in Nat /\ cursor \in Tags
        /\ Here = file[scanned + 1]
    BY <1>3, Position DEF DiscoverUnknown
  <2>2. /\ UNCHANGED <<file, pc, minted, duration, keyframeIndex, isEncrypted>>
        /\ scanned' = scanned + 1 /\ cursor' = AfterSkip /\ pc = "opening"
        /\ Here.kind = "unknown"
    BY <1>3 DEF DiscoverUnknown, Discovering
  <2>3. DiscoveryFollowsFileOrder'
    <3>1. /\ \A k \in Media : ~HasBody(k, scanned + 1)
          /\ ~DurationAt(scanned + 1) /\ ~TableAt(scanned + 1) /\ ~HeaderAt(scanned + 1)
      BY <2>1, <2>2 DEF HasBody, Media, DurationAt, TableAt, MetaDataAt, HeaderAt
    <3> QED
      BY <1>0, <2>2, <3>1, OrderExtended
  <2>4. PositionInv'
    BY <2>1, <2>2, FilesAssumption DEF PositionInv, AfterSkip, Tags, TypeOK
  <2> QED
    BY <2>2, <2>3, <2>4 DEF NoStreamIsMissed, Opened
<1>4. CASE DiscoverScript
  <2>1. /\ cursor = scanned + 1 /\ scanned \in Nat /\ Here = file[scanned + 1]
    BY <1>4, Position DEF DiscoverScript
  <2>2. /\ UNCHANGED <<file, pc, minted>> /\ ParseScript(Here.script) /\ pc = "opening"
        /\ scanned' = scanned + 1 /\ cursor' = cursor + 1 /\ Here.kind = "script"
    BY <1>4 DEF DiscoverScript, Discovering
  <2>3. DiscoveryFollowsFileOrder'
    <3>1. \A k \in Media : ~HasBody(k, scanned + 1)
      BY <2>1, <2>2 DEF HasBody, Media
    <3>2. duration' = IF duration < 0 /\ DurationAt(scanned + 1)
                      THEN file[scanned + 1].script.duration ELSE duration
      BY <2>1, <2>2 DEF ParseScript, DurationAt, MetaDataAt
    <3>3. keyframeIndex' = IF keyframeIndex = <<>> /\ TableAt(scanned + 1)
                           THEN file[scanned + 1].script.keyframes ELSE keyframeIndex
      BY <2>1, <2>2 DEF ParseScript, TableAt, MetaDataAt, KeyframeIndexOf
    <3>4. isEncrypted' = IF HeaderAt(scanned + 1)
                         THEN file[scanned + 1].script.valid ELSE isEncrypted
      BY <2>1, <2>2 DEF ParseScript, HeaderAt
    <3> QED
      BY <1>0, <2>2, <3>1, <3>2, <3>3, <3>4, OrderExtended
  <2>4. PositionInv'
    BY <2>1, <2>2 DEF PositionInv
  <2> QED
    BY <2>2, <2>3, <2>4 DEF NoStreamIsMissed, Opened
<1>5. CASE DiscoverMedia
  <2>1. /\ cursor = scanned + 1 /\ scanned \in Nat /\ Here = file[scanned + 1]
    BY <1>5, Position DEF DiscoverMedia
  <2>2. /\ UNCHANGED <<file, pc, duration, keyframeIndex, isEncrypted>> /\ pc = "opening"
        /\ minted' = IF Mints(Here) THEN [minted EXCEPT ![Here.kind] = cursor] ELSE minted
        /\ scanned' = scanned + 1 /\ cursor' = cursor + 1 /\ Here.kind \in Media
    BY <1>5 DEF DiscoverMedia, Discovering
  <2>3. DiscoveryFollowsFileOrder'
    <3>1. ~DurationAt(scanned + 1) /\ ~TableAt(scanned + 1) /\ ~HeaderAt(scanned + 1)
      BY <2>1, <2>2 DEF Media, DurationAt, TableAt, MetaDataAt, HeaderAt
    <3>2. \A k \in Media :
            minted'[k] = IF ~HasStream(k) /\ HasBody(k, scanned + 1) THEN scanned + 1 ELSE minted[k]
      BY <2>1, <2>2 DEF HasBody, Mints, TypeOK
    <3> QED
      BY <1>0, <2>2, <3>1, <3>2, OrderExtended
  <2>4. PositionInv'
    BY <2>1, <2>2 DEF PositionInv
  <2> QED
    BY <2>2, <2>3, <2>4 DEF NoStreamIsMissed, Opened
<1>6. CASE /\ UNCHANGED <<file, discovered>>
           /\ Opened' => Opened
           /\ pc' = "opening" => UNCHANGED vars
  <2>1. DiscoveryFollowsFileOrder'
    BY <1>6, OrderKept
  <2>2. NoStreamIsMissed'
    BY <1>6 DEF NoStreamIsMissed, discovered, HasStream, HasBody, Tags, Reachable
  <2>3. PositionInv'
    BY <1>6 DEF PositionInv, vars, discovered, Tags
  <2> QED
    BY <2>1, <2>2, <2>3
<1> QED
  BY <1>1, <1>2, <1>3, <1>4, <1>5, <1>6, DiscoverySteps

\* Streams, duration, keyframes table and encryption flag are decided by file
\* order, and no stream whose body comes within the cap is missed.
THEOREM DiscoveryCorrect == Spec => [](DiscoveryFollowsFileOrder /\ NoStreamIsMissed)
<1>1. Init => DiscoveryInv
  BY DEF Init, DiscoveryInv, PositionInv, DiscoveryFollowsFileOrder, StreamsAreFirst,
         DurationIsFirst, TableIsFirst, EncryptionIsLast, NoStreamIsMissed, Opened, HasStream
<1>2. DiscoveryInv => DiscoveryFollowsFileOrder /\ NoStreamIsMissed
  BY DEF DiscoveryInv
<1> QED
  BY <1>1, <1>2, TypeCorrect, DiscoveryInvInductive, PTL DEF Spec

\* For every cap, a kind without a stream has no body among the first
\* MaxDiscoveryTags tags a reader can reach (open_concrete's loop head).
COROLLARY StreamsAreFound == Spec => []NoStreamIsMissed
BY DiscoveryCorrect, PTL

(***************************************************************************)
(* Where a seek lands, and what reading on from there harvests.            *)
(***************************************************************************)
(***************************************************************************)
(* The keyframes table.                                                    *)
(***************************************************************************)
Sorted(index) == \A h, j \in 1 .. Len(index) : h <= j => index[h].time <= index[j].time

\* A table that is accepted is sorted.
LEMMA AcceptedIsSorted ==
  ASSUME NEW s \in Script
  PROVE  Sorted(KeyframeIndexOf(s))
<1>1. CASE KeyframeIndexOf(s) = <<>>
  BY <1>1 DEF Sorted
<1>2. CASE KeyframeIndexOf(s) # <<>>
  BY <1>2 DEF KeyframeIndexOf, Sorted
<1> QED
  BY <1>1, <1>2

\* Rounding a time that is not past a whole millisecond does not get past it.
LEMMA RoundingStaysBelow ==
  ASSUME NEW time \in Int, NEW ms \in Int, time <= 2 * ms
  PROVE  ToMs(time) <= ms
BY DEF ToMs

\* A time is at, before or after a target.
LEMMA Trichotomy ==
  ASSUME NEW a \in Int, NEW ms \in Nat
  PROVE  a = 2 * ms \/ a < 2 * ms \/ (~(a <= 2 * ms) /\ a > 2 * ms)
OBVIOUS

\* Two facts about the order of times, for the steps below to cite.
LEMMA LessOrder ==
  ASSUME NEW a \in Int, NEW b \in Int, a < b
  PROVE  a <= b /\ ~(b <= a)
OBVIOUS

\* What the bisection finds in a sorted table: the latest entry that is not
\* after the target, or the earliest entry when all are after it.
LEMMA BisectFindsLatest ==
  ASSUME NEW index \in Seq([time : Int, dest : Nat \ {0}]), NEW ms \in Nat, Sorted(index),
         NEW j \in Bisect(index, ms)
  PROVE  /\ \/ index[j].time <= 2 * ms
            \/ \A h \in 1 .. Len(index) :
                 index[h].time > 2 * ms /\ index[j].time <= index[h].time
         /\ \A h \in 1 .. Len(index) : index[j].time < index[h].time => index[h].time > 2 * ms
<1>1. j \in 1 .. Len(index) /\ Len(index) \in Nat
  BY BisectInTable
<1>2. \A h \in 1 .. Len(index) : index[h].time \in Int
  <2> TAKE h \in 1 .. Len(index)
  <2>1. index[h] \in [time : Int, dest : Nat \ {0}]
    BY EntryTyped
  <2> QED
    BY <2>1
<1>3. CASE \E h \in 1 .. Len(index) : index[h].time = 2 * ms
  <2>1. index[j].time = 2 * ms
    BY <1>3 DEF Bisect
  <2> QED
    BY <1>2, <2>1
<1>4. CASE /\ \A h \in 1 .. Len(index) : index[h].time # 2 * ms
           /\ \E h \in 1 .. Len(index) : index[h].time < 2 * ms
  <2>1. /\ index[j].time < 2 * ms
        /\ \A h \in 1 .. Len(index) : index[h].time < 2 * ms => h <= j
    BY <1>4 DEF Bisect
  <2>2. ASSUME NEW h \in 1 .. Len(index), index[h].time < 2 * ms
        PROVE  index[h].time <= index[j].time
    BY <1>1, <2>1, <2>2 DEF Sorted
  <2>3. ASSUME NEW h \in 1 .. Len(index), index[j].time < index[h].time
        PROVE  index[h].time > 2 * ms
    <3>1. index[h].time \in Int /\ index[j].time \in Int /\ 2 * ms \in Int
      BY <1>1, <1>2
    <3>2. ~(index[h].time < 2 * ms)
      <4> SUFFICES ASSUME index[h].time < 2 * ms
                   PROVE  FALSE
        OBVIOUS
      <4>1. index[h].time <= index[j].time
        BY <2>2
      <4> QED
        BY <2>3, <3>1, <4>1, LessOrder, Zenon
    <3>3. index[h].time # 2 * ms
      BY <1>4
    <3> QED
      BY <3>1, <3>2, <3>3, Trichotomy, Zenon
  <2>4. index[j].time <= 2 * ms
    <3>1. index[j].time \in Int /\ 2 * ms \in Int
      BY <1>1, <1>2
    <3> QED
      BY <2>1, <3>1, LessOrder, Zenon
  <2> QED
    BY <2>3, <2>4
<1>5. CASE \A h \in 1 .. Len(index) : ~(index[h].time <= 2 * ms)
  <2>1. j = 1
    <3>1. \A h \in 1 .. Len(index) : index[h].time # 2 * ms /\ ~(index[h].time < 2 * ms)
      BY <1>2, <1>5
    <3> QED
      BY <3>1 DEF Bisect
  <2>2. \A h \in 1 .. Len(index) : index[j].time <= index[h].time
    BY <1>1, <2>1 DEF Sorted
  <2>3. ASSUME NEW h \in 1 .. Len(index) PROVE index[h].time > 2 * ms
    BY <1>2, <1>5
  <2> QED
    BY <2>2, <2>3
<1>6. \A h \in 1 .. Len(index) :
        \/ index[h].time = 2 * ms \/ index[h].time < 2 * ms \/ ~(index[h].time <= 2 * ms)
  BY <1>2, Trichotomy
<1> QED
  BY <1>3, <1>4, <1>5, <1>6

-----------------------------------------------------------------------------
(***************************************************************************)
(* Landing.                                                                *)
(***************************************************************************)

\* While a scan runs it has refused every tag behind the reader, and it can
\* only be where skipping over whole tags leads, or at the end.
ScanInv ==
  pc = "seeking" =>
    /\ ~UsesIndex
    /\ \A j \in 1 .. cursor - 1 : Reachable(j) => ~Fits(j)
    /\ cursor \in Tags => Reachable(cursor)

SeekInv ==
  /\ pc = "opening" => result = "none"
  /\ Sorted(keyframeIndex)
  /\ ScanInv
  /\ IndexLandsAtOrBefore
  /\ ScanLandsOnFirst

\* The steps that are not part of opening or seeking leave everything a seek
\* depends on alone, and none of them reports a landing.
LEMMA SeekSteps ==
  ASSUME [Next]_vars
  PROVE  \/ UNCHANGED vars
         \/ Open
         \/ /\ UNCHANGED <<file, minted, keyframeIndex, target, landed, start>>
            /\ pc # "seeking" /\ pc' \notin {"opening", "seeking"}
            /\ result' = "landed" => result = "landed"
         \/ \E s \in SeekStreams, p \in SeekTimes : SeekByIndex(s, p) \/ SeekByScan(s, p)
         \/ Scan
<1> USE DEF discovered, seekState
<1>1. CASE Read \/ CallNext
  BY <1>1 DEF Read, ReadEof, ReadUnreadable, ReadError, ReadIgnored, ReadFiltered, ReadMedia,
              DecodeHere, Reading, Return, CallNext
<1>2. ASSUME NEW s \in SeekStreams, SeekRejected(s)
      PROVE  /\ UNCHANGED <<file, minted, keyframeIndex, target, landed, start>>
             /\ pc # "seeking" /\ pc' \notin {"opening", "seeking"}
             /\ result' = "landed" => result = "landed"
  BY <1>2 DEF SeekRejected, Return
<1> QED
  BY <1>1, <1>2 DEF Next, SeekTo

\* What is known of a landing survives a step that touches nothing it is about.
LEMMA LandingKept ==
  ASSUME UNCHANGED <<file, minted, keyframeIndex, target, landed, start>>,
         IndexLandsAtOrBefore, ScanLandsOnFirst, HasLanded' => HasLanded
  PROVE  IndexLandsAtOrBefore' /\ ScanLandsOnFirst'
<1>1. IndexLandsAtOrBefore'
  BY DEF IndexLandsAtOrBefore, UsesIndex, HasStream
<1>2. ScanLandsOnFirst'
  BY DEF ScanLandsOnFirst, UsesIndex, HasStream, Tags, Reachable, Fits, Candidate
<1> QED
  BY <1>1, <1>2

\* No step breaks what is known of seeks.
LEMMA SeekInvInductive == TypeOK /\ SeekInv /\ [Next]_vars => SeekInv'
<1> SUFFICES ASSUME TypeOK, SeekInv, [Next]_vars PROVE SeekInv'
  OBVIOUS
<1> USE DEF discovered, seekState
<1>1. CASE UNCHANGED vars
  <2>1. ScanInv'
    BY <1>1 DEF SeekInv, ScanInv, vars, UsesIndex, HasStream, Reachable, Fits, Candidate, Tags
  <2> QED
    BY <1>1, <2>1, LandingKept DEF SeekInv, Sorted, vars, HasLanded
<1>2. CASE Open
  <2>1. pc = "opening" /\ pc' # "seeking" /\ result' # "landed"
    BY <1>2 DEF SeekInv, Open, OpenDone, OpenUnreadable, OpenMalformed, OpenFails, ReadError,
                DiscoverUnknown, DiscoverScript, DiscoverMedia, Discovering, Return
  <2>2. pc' = "opening" => result' = "none"
    BY <1>2 DEF SeekInv, Open, OpenDone, OpenUnreadable, OpenMalformed, OpenFails,
                DiscoverUnknown, DiscoverScript, DiscoverMedia, Discovering, Return
  <2>3. Sorted(keyframeIndex)'
    <3>1. CASE UNCHANGED keyframeIndex
      BY <3>1 DEF SeekInv, Sorted
    <3>2. CASE DiscoverScript
      <4>1. Here.script \in Script
        BY <3>2, HereTyped DEF DiscoverScript, Discovering, Tag
      <4> QED
        BY <3>1, <3>2, <4>1, AcceptedIsSorted DEF DiscoverScript, ParseScript, Sorted
    <3> QED
      BY <1>2, <3>1, <3>2 DEF Open, OpenDone, OpenUnreadable, OpenMalformed, OpenFails,
                              DiscoverUnknown, DiscoverMedia
  <2> QED
    BY <2>1, <2>2, <2>3 DEF SeekInv, ScanInv, IndexLandsAtOrBefore, ScanLandsOnFirst, HasLanded
<1>3. CASE /\ UNCHANGED <<file, minted, keyframeIndex, target, landed, start>>
           /\ pc # "seeking" /\ pc' \notin {"opening", "seeking"}
           /\ result' = "landed" => result = "landed"
  BY <1>3, LandingKept DEF SeekInv, Sorted, ScanInv, HasLanded
<1>4. ASSUME NEW s \in SeekStreams, NEW p \in SeekTimes, SeekByIndex(s, p)
      PROVE  SeekInv'
  <2>1. Clamp(p) \in Nat /\ target' = Clamp(p)
    BY <1>4, SeekAssumption DEF SeekByIndex, Clamp
  <2>2. PICK j \in Bisect(keyframeIndex, Clamp(p)) :
          /\ start'  = keyframeIndex[j].dest
          /\ landed' = ToMs(keyframeIndex[j].time)
    BY <1>4 DEF SeekByIndex
  <2>3. UNCHANGED <<file, minted, keyframeIndex>> /\ pc' = "idle" /\ UsesIndex'
    BY <1>4 DEF SeekByIndex, Return, UsesIndex, HasStream
  <2>4. j \in 1 .. Len(keyframeIndex)
    BY <2>1, BisectInTable DEF TypeOK
  <2>5. /\ \/ keyframeIndex[j].time <= 2 * Clamp(p)
           \/ \A h \in 1 .. Len(keyframeIndex) :
                keyframeIndex[h].time > 2 * Clamp(p)
                  /\ keyframeIndex[j].time <= keyframeIndex[h].time
        /\ \A h \in 1 .. Len(keyframeIndex) :
             keyframeIndex[j].time < keyframeIndex[h].time => keyframeIndex[h].time > 2 * Clamp(p)
    BY <2>1, BisectFindsLatest DEF SeekInv, TypeOK
  <2>6. keyframeIndex[j].time <= 2 * Clamp(p) => landed' <= target'
    <3>1. keyframeIndex[j] \in [time : Int, dest : Nat \ {0}]
      <4>1. keyframeIndex \in Seq([time : Int, dest : Nat \ {0}])
        BY DEF TypeOK
      <4> QED
        BY <2>4, <4>1, EntryTyped
    <3>2. keyframeIndex[j].time \in Int
      BY <3>1
    <3> QED
      BY <2>1, <2>2, <3>2, RoundingStaysBelow
  <2>7. IndexLandsAtOrBefore'
    BY <2>1, <2>2, <2>3, <2>4, <2>5, <2>6 DEF IndexLandsAtOrBefore
  <2> QED
    BY <2>3, <2>7 DEF SeekInv, ScanInv, Sorted, ScanLandsOnFirst
<1>5. ASSUME NEW s \in SeekStreams, NEW p \in SeekTimes, SeekByScan(s, p)
      PROVE  SeekInv'
  <2>1. /\ UNCHANGED <<file, minted, keyframeIndex>> /\ pc' = "seeking" /\ cursor' = 1
        /\ ~UsesIndex'
    BY <1>5 DEF SeekByScan, UsesIndex, HasStream
  <2>2. ScanInv'
    BY <2>1 DEF ScanInv, Reachable, Tags
  <2> QED
    BY <2>1, <2>2 DEF SeekInv, Sorted, IndexLandsAtOrBefore, ScanLandsOnFirst, HasLanded
<1>6. CASE Scan
  <2>1. /\ pc = "seeking" /\ UNCHANGED <<file, minted, keyframeIndex, target>>
        /\ ~UsesIndex /\ ~UsesIndex' /\ pc' # "opening"
    BY <1>6 DEF Scan, ScanEof, ScanUnreadable, ScanMatch, ScanSkip, Scanning, Return,
                SeekInv, ScanInv, UsesIndex, HasStream
  <2>2. \A j \in Nat : Reachable(j)' = Reachable(j) /\ Fits(j)' = Fits(j)
    BY <2>1 DEF Reachable, Tags, Fits, Candidate, HasStream
  <2>3. Sorted(keyframeIndex)' /\ IndexLandsAtOrBefore'
    BY <2>1 DEF SeekInv, Sorted, IndexLandsAtOrBefore
  <2>4. CASE ScanEof
    <3>1. start' = cursor /\ landed' = target' /\ pc' = "idle" /\ start' \notin Tags'
      BY <2>4, FilesAssumption DEF ScanEof, Scanning, AtEof, Return, Tags, TypeOK
    <3>2. ScanLandsOnFirst'
      <4>1. \A j \in 1 .. start' - 1 : j \in Nat /\ (Reachable(j) => ~Fits(j))
        BY <2>1, <3>1 DEF SeekInv, ScanInv, TypeOK
      <4>2. (\A j \in 1 .. start - 1 : Reachable(j) => ~Fits(j))'
        BY <2>2, <4>1
      <4> QED
        BY <3>1, <4>2 DEF ScanLandsOnFirst
    <3> QED
      BY <2>1, <2>3, <3>1, <3>2 DEF SeekInv, ScanInv
  <2>5. CASE ScanUnreadable
    BY <2>1, <2>3, <2>5 DEF ScanUnreadable, Return, SeekInv, ScanInv, ScanLandsOnFirst, HasLanded
  <2>6. CASE ScanMatch
    <3>1. /\ start' = cursor /\ landed' = Here.ts /\ pc' = "idle" /\ Fits(cursor)
          /\ cursor \in Tags /\ Reachable(cursor)
      BY <2>1, <2>6, HereTyped DEF ScanMatch, Return, Fits, SeekInv, ScanInv, Here
    <3>2. ScanLandsOnFirst'
      <4>1. \A j \in 1 .. start' - 1 : j \in Nat /\ (Reachable(j) => ~Fits(j))
        BY <2>1, <3>1 DEF SeekInv, ScanInv, TypeOK
      <4>2. (\A j \in 1 .. start - 1 : Reachable(j) => ~Fits(j))'
        BY <2>2, <4>1
      <4>3. cursor \in Nat
        BY DEF TypeOK
      <4>4. (Reachable(start) /\ Fits(start))'
        BY <2>2, <3>1, <4>3
      <4>5. (landed = file[start].ts)'
        BY <2>1, <3>1 DEF Here
      <4> QED
        <5>1. (start \in Tags => Reachable(start) /\ Fits(start) /\ landed = file[start].ts)'
          BY <4>4, <4>5
        <5>2. (start \in Tags)'
          BY <2>1, <3>1 DEF Tags
        <5> QED
          BY <4>2, <5>1, <5>2 DEF ScanLandsOnFirst
    <3> QED
      BY <2>1, <2>3, <3>1, <3>2 DEF SeekInv, ScanInv
  <2>7. CASE ScanSkip
    <3>1. /\ cursor \in Tags /\ ~Fits(cursor) /\ pc' = "seeking" /\ cursor' = AfterSkip
          /\ Reachable(cursor)
      BY <2>1, <2>7, HereTyped DEF ScanSkip, Scanning, Fits, SeekInv, ScanInv, Here
    <3>2. CASE Here.size = "fit"
      <4>1. cursor' = cursor + 1
        BY <3>1, <3>2 DEF AfterSkip
      <4>2. \A j \in 1 .. cursor : Reachable(j) => ~Fits(j)
        BY <2>1, <3>1 DEF SeekInv, ScanInv, TypeOK
      <4>3. cursor + 1 \in Tags => Reachable(cursor + 1)
        BY <3>1, <3>2 DEF Reachable, Here, TypeOK
      <4>4. ScanInv'
        BY <2>1, <2>2, <4>1, <4>2, <4>3 DEF ScanInv, TypeOK, Tags
      <4> QED
        BY <2>1, <2>3, <3>1, <4>4 DEF SeekInv, ScanLandsOnFirst, HasLanded
    <3>3. CASE Here.size # "fit"
      <4>1. cursor' = Len(file) + 1 /\ Len(file) \in Nat
        BY <3>1, <3>3, FilesAssumption DEF AfterSkip, TypeOK
      <4>2. ASSUME NEW j \in 1 .. Len(file), Reachable(j) PROVE ~Fits(j)
        <5>1. CASE j \in 1 .. cursor
          BY <2>1, <3>1, <5>1, <4>2 DEF SeekInv, ScanInv, TypeOK
        <5>2. CASE j \notin 1 .. cursor
          BY <3>3, <4>2, <5>2 DEF Reachable, Here, TypeOK
        <5> QED
          BY <5>1, <5>2
      <4>3. ScanInv'
        BY <2>1, <2>2, <4>1, <4>2 DEF ScanInv, Tags
      <4> QED
        BY <2>1, <2>3, <3>1, <4>3 DEF SeekInv, ScanLandsOnFirst, HasLanded
    <3> QED
      BY <3>2, <3>3
  <2> QED
    BY <1>6, <2>4, <2>5, <2>6, <2>7 DEF Scan
<1> QED
  BY <1>1, <1>2, <1>3, <1>4, <1>5, <1>6, SeekSteps

\* A seek lands where it should: through a keyframes table on the latest entry
\* at or before the target, by scanning on the first tag that fits.
THEOREM SeeksLand == Spec => [](IndexLandsAtOrBefore /\ ScanLandsOnFirst)
<1>1. Init => SeekInv
  BY DEF Init, SeekInv, Sorted, ScanInv, IndexLandsAtOrBefore, ScanLandsOnFirst, HasLanded
<1>2. SeekInv => IndexLandsAtOrBefore /\ ScanLandsOnFirst
  BY DEF SeekInv
<1> QED
  BY <1>1, <1>2, TypeCorrect, SeekInvInductive, PTL DEF Spec

\* For every keyframes table and target, a seek through the table lands on its
\* latest entry at or before the target (seek_to, toc path).
COROLLARY IndexedSeeksLand == Spec => []IndexLandsAtOrBefore
BY SeeksLand, PTL

-----------------------------------------------------------------------------
(***************************************************************************)
(* A scan that fails.                                                      *)
(***************************************************************************)

\* Where a scan cannot go on, nothing but strays is left.
LEMMA NothingBehindUnscannable ==
  ASSUME TypeOK, ~AtEof, Unscannable(Here), cursor' = cursor + 1, file' = file,
         NEW j \in cursor' .. Len(file')
  PROVE  file'[j].kind = "stray"
<1>1. cursor \in Tags /\ Len(file) \in Nat /\ file \in Files
  BY HereTyped, FilesAssumption DEF TypeOK
<1>2. j \in 1 .. Len(file) /\ cursor < j
  BY <1>1 DEF Tags
<1>3. Here.kind = "stray"
  BY <1>1, <1>2 DEF Unscannable, Tags
<1> QED
  BY <1>1, <1>2, <1>3, LayoutAssumption DEF IsFile, Here, Tags

\* A failed scan has left nothing that could become a packet.
THEOREM FailedScanLeft == Spec => []FailedScanLeavesNothing
<1>1. Init => FailedScanLeavesNothing
  BY DEF Init, FailedScanLeavesNothing
<1>2. TypeOK /\ FailedScanLeavesNothing /\ [Next]_vars => FailedScanLeavesNothing'
  <2> SUFFICES ASSUME TypeOK, FailedScanLeavesNothing, [Next]_vars
               PROVE  FailedScanLeavesNothing'
    OBVIOUS
  <2>1. ASSUME UNCHANGED <<file, result>>, pc' # "seeking" => pc # "seeking",
               cursor' \in {cursor, cursor + 1}
        PROVE  FailedScanLeavesNothing'
    BY <2>1, FilesAssumption DEF FailedScanLeavesNothing, TypeOK
  <2>2. ASSUME result' # "scanFailed" \/ pc' = "seeking" PROVE FailedScanLeavesNothing'
    BY <2>2 DEF FailedScanLeavesNothing
  <2>3. CASE OpenDone \/ OpenUnreadable \/ OpenMalformed
    BY <2>2, <2>3 DEF OpenDone, OpenUnreadable, OpenMalformed, OpenFails, ReadError, Return
  <2>4. CASE DiscoverScript \/ DiscoverMedia
    BY <2>1, <2>4 DEF DiscoverScript, DiscoverMedia, Discovering
  <2>5. CASE DiscoverUnknown
    <3>1. cursor \in 1 .. Len(file) /\ pc = "opening" /\ UNCHANGED <<file, result, pc>>
      BY <2>5, HereTyped DEF DiscoverUnknown, Discovering, Tags
    <3>2. cursor' \in {cursor + 1, Len(file) + 1}
      BY <2>5 DEF DiscoverUnknown, AfterSkip
    <3> QED
      BY <3>1, <3>2, FilesAssumption DEF FailedScanLeavesNothing, TypeOK
  <2>6. CASE CallNext \/ ReadIgnored \/ UNCHANGED vars
    BY <2>1, <2>6 DEF CallNext, ReadIgnored, Reading, vars
  <2>7. CASE ReadEof \/ ReadUnreadable
    BY <2>2, <2>7 DEF ReadEof, ReadUnreadable, ReadError, Return
  <2>8. CASE ReadFiltered
    BY <2>2, <2>8 DEF ReadFiltered, Return
  <2>9. CASE ReadMedia
    BY <2>1, <2>2, <2>9 DEF ReadMedia, DecodeHere, Reading, Return
  <2>10. CASE SeekTo
    BY <2>2, <2>10 DEF SeekTo, SeekRejected, SeekByIndex, SeekByScan, Return
  <2>11. CASE ScanEof \/ ScanMatch \/ ScanSkip
    BY <2>2, <2>11 DEF ScanEof, ScanMatch, ScanSkip, Scanning, Return
  <2>12. CASE ScanUnreadable
    BY <2>12, NothingBehindUnscannable
    DEF ScanUnreadable, Scanning, FailedScanLeavesNothing
  <2> QED
    BY <2>3, <2>4, <2>5, <2>6, <2>7, <2>8, <2>9, <2>10, <2>11, <2>12
    DEF Next, Open, Read, Scan
<1> QED
  BY <1>1, <1>2, TypeCorrect, PTL DEF Spec

(***************************************************************************)
(* The demuxer implements PacketStream.                                    *)
(***************************************************************************)
\* Once a file is open, what each of its tags answers is fixed.
LEMMA AnswersFixed ==
  ASSUME UNCHANGED <<file, minted>>
  PROVE  /\ Answering' = Answering
         /\ \A i : AnswerOf(i)' = AnswerOf(i)
<1>1. \A t : Routed(t)' = Routed(t) /\ StreamIndex(t.kind)' = StreamIndex(t.kind)
  BY DEF Routed, HasStream, StreamIndex
<1>2. \A i : Answers(i)' = Answers(i)
  BY <1>1 DEF Answers, Readable, Filtered
<1>3. Answering' = Answering
  BY <1>2 DEF Answering, Tags
<1>4. \A i : AnswerOf(i)' = AnswerOf(i)
  BY <1>1 DEF AnswerOf, Readable, ReadError, CipherPacket, PacketOf, AudioPacket, VideoPacket
<1> QED
  BY <1>3, <1>4

Reply == [status : {"packet", "invalid", "io"}, packet : Packet]

\* Every answer is a reply next_packet may give.
LEMMA AnswerTyped ==
  ASSUME TypeOK, NEW i \in Answering
  PROVE  AnswerOf(i) \in Reply
<1> DEFINE t == file[i]
<1>1. t \in Tag /\ i \in Nat /\ StreamIndex(t.kind) \in Nat
  BY FilesAssumption DEF Answering, Tags, TypeOK, StreamIndex
<1>2. NoPacket \in Packet
  BY DEF NoPacket, Packet, Whole
<1>3. CASE ~Readable(t)
  BY <1>2, <1>3 DEF AnswerOf, Reply, ReadError
<1>4. CASE Readable(t) /\ t.preamble = "bad"
  BY <1>2, <1>4 DEF AnswerOf, Reply
<1>5. CASE Readable(t) /\ t.preamble = "good"
  BY <1>1, <1>5, CipherPacketTyped DEF AnswerOf, Reply
<1>6. CASE Readable(t) /\ t.preamble = "clear"
  <2>1. t.kind \in Media /\ Yields(t)
    BY <1>6 DEF Answering, Answers, Routed, Filtered
  <2> QED
    BY <1>1, <1>6, <2>1, PacketTyped DEF AnswerOf, Reply
<1>7. t.preamble \in {"clear", "good", "bad"}
  BY <1>1 DEF Tag, Preambles
<1> QED
  BY <1>3, <1>4, <1>5, <1>6, <1>7

\* A step of next_packet that moves over a tag without an answer is not seen.
LEMMA SilentStep ==
  ASSUME TypeOK, pc = "reading", pc' = "reading", UNCHANGED <<file, minted, result, packet>>,
         cursor' = cursor + 1, ~Answers(cursor)
  PROVE  UNCHANGED Stream!streamVars
<1>1. Answering' = Answering /\ \A i : AnswerOf(i)' = AnswerOf(i)
  BY AnswersFixed
<1>2. {i \in Answering : cursor' <= i} = {i \in Answering : cursor <= i}
  BY DEF Answering, Tags, TypeOK
<1> QED
  BY <1>1, <1>2 DEF Stream!streamVars, Opened

\* A step of next_packet that ends the call gives the tag's answer.
LEMMA AnswerStep ==
  ASSUME TypeOK, pc = "reading", pc' = "idle", UNCHANGED <<file, minted>>,
         cursor' = cursor + 1, cursor \in Answering,
         [status |-> result, packet |-> IF result = "packet" THEN packet ELSE NoPacket]'
           = AnswerOf(cursor)
  PROVE  Stream!NextReply
<1> DEFINE before == {i \in Answering : cursor <= i}
           after  == {i \in Answering : cursor' <= i}
<1>1. Answering' = Answering /\ \A i : AnswerOf(i)' = AnswerOf(i)
  BY AnswersFixed
<1>2. /\ cursor \in before
      /\ \A j \in before : cursor <= j
      /\ after = before \ {cursor}
  BY DEF Answering, Tags, TypeOK
<1> HIDE DEF before, after
<1> QED
  BY <1>1, <1>2 DEF Stream!NextReply, Opened, before, after

\* The initial state is an initial state of the stream.
LEMMA StreamStarts == Init => Stream!StreamInit
<1> SUFFICES ASSUME Init PROVE Stream!StreamInit
  OBVIOUS
<1>1. pc = "opening" /\ result = "none"
  BY DEF Init
<1> QED
  BY <1>1 DEF Stream!StreamInit, Stream!Nothing, Opened

\* Every step is a step of the stream, or is not seen.
LEMMA StreamSteps == TypeOK /\ [Next]_vars => [Stream!StreamNext]_(Stream!streamVars)
<1> SUFFICES ASSUME TypeOK, [Next]_vars
             PROVE  Stream!StreamNext \/ UNCHANGED Stream!streamVars
  OBVIOUS
<1> USE DEF discovered, seekState
<1>1. CASE OpenDone
  <2>1. TypeOK' /\ pc = "opening"
    BY <1>1, TypeOKInductive DEF OpenDone
  <2>2. CASE pc' = "idle"
    <3>1. result' = "opened" /\ cursor' = 1 /\ UNCHANGED <<file, minted>>
      BY <1>1, <2>2 DEF OpenDone, Return
    <3>2. \A i \in Answering' : AnswerOf(i)' \in Reply
      BY <2>1, <3>1, AnswersFixed, AnswerTyped
    <3>3. Answering' \subseteq Nat /\ {i \in Answering' : cursor' <= i} = Answering'
      BY <3>1 DEF Answering, Tags
    <3>4. Stream!OpenStream
      BY <2>1, <2>2, <3>1, <3>2, <3>3 DEF Stream!OpenStream, Opened, Reply
    <3> QED
      BY <3>4 DEF Stream!StreamNext
  <2>3. CASE pc' # "idle"
    <3>1. pc' = "failed" /\ result' = "invalid"
      BY <1>1, <2>3 DEF OpenDone, Return
    <3>2. Stream!OpenStream
      BY <2>1, <3>1 DEF Stream!OpenStream, Opened
    <3> QED
      BY <3>2 DEF Stream!StreamNext
  <2> QED
    BY <2>2, <2>3
<1>2. CASE OpenUnreadable \/ OpenMalformed
  <2>1. pc = "opening" /\ pc' = "failed" /\ result' \in {"invalid", "io"}
    BY <1>2 DEF OpenUnreadable, OpenMalformed, OpenFails, ReadError, Discovering
  <2>2. Stream!OpenStream
    BY <2>1 DEF Stream!OpenStream, Opened
  <2> QED
    BY <2>2 DEF Stream!StreamNext
<1>3. CASE DiscoverUnknown \/ DiscoverScript \/ DiscoverMedia
  <2>1. pc = "opening" /\ pc' = "opening" /\ UNCHANGED <<result, packet>>
    BY <1>3 DEF DiscoverUnknown, DiscoverScript, DiscoverMedia, Discovering
  <2> QED
    BY <2>1 DEF Stream!streamVars, Opened
<1>4. CASE CallNext
  <2>1. pc = "idle" /\ pc' = "reading" /\ UNCHANGED <<file, minted, cursor, result, packet>>
    BY <1>4 DEF CallNext
  <2> QED
    BY <2>1, AnswersFixed DEF Stream!streamVars, Opened
<1>5. CASE ReadEof
  <2>1. /\ pc = "reading" /\ pc' = "idle" /\ UNCHANGED <<file, minted, cursor>> /\ result' = "eof"
        /\ ~(cursor <= Len(file))
    BY <1>5 DEF ReadEof, Return, AtEof, TypeOK
  <2>2. \A i \in Answering : ~(cursor <= i)
    BY <2>1, FilesAssumption DEF Answering, Tags, TypeOK
  <2>3. Answering' = Answering /\ \A i : AnswerOf(i)' = AnswerOf(i)
    BY <2>1, AnswersFixed
  <2>4. Stream!NextReply
    BY <2>1, <2>2, <2>3 DEF Stream!NextReply, Opened
  <2> QED
    BY <2>4 DEF Stream!StreamNext
<1>6. CASE ReadUnreadable
  <2>1. cursor \in Answering
    BY <1>6, HereTyped DEF ReadUnreadable, Answering, Answers, Here
  <2>2. /\ pc = "reading" /\ pc' = "idle" /\ UNCHANGED <<file, minted>> /\ cursor' = cursor + 1
        /\ result' = ReadError(Here) /\ result' # "packet" /\ ~Readable(Here)
    BY <1>6 DEF ReadUnreadable, Return, ReadError
  <2>3. AnswerOf(cursor) = [status |-> ReadError(Here), packet |-> NoPacket]
    BY <2>2 DEF AnswerOf, Here
  <2> QED
    BY <2>1, <2>2, <2>3, AnswerStep DEF Stream!StreamNext
<1>7. CASE ReadIgnored
  <2>1. ~Answers(cursor)
    BY <1>7 DEF ReadIgnored, Reading, Answers, Here
  <2> QED
    BY <1>7, <2>1, SilentStep DEF ReadIgnored, Reading
<1>8. CASE ReadFiltered
  <2>1. /\ cursor \in Answering /\ pc = "reading" /\ pc' = "idle"
        /\ UNCHANGED <<file, minted>> /\ cursor' = cursor + 1
    BY <1>8, HereTyped DEF ReadFiltered, Reading, Answering, Answers, Here, Return
  <2>2. CASE Here.preamble = "good"
    <3>1. AnswerOf(cursor) = [status |-> "packet",
                              packet |-> CipherPacket(cursor, Here, StreamIndex(Here.kind))]
      BY <1>8, <2>2 DEF AnswerOf, Here, ReadFiltered, Reading
    <3>2. result' = "packet" /\ packet' = CipherPacket(cursor, Here, StreamIndex(Here.kind))
      BY <1>8, <2>2 DEF ReadFiltered, Return
    <3> QED
      BY <2>1, <3>1, <3>2, AnswerStep DEF Stream!StreamNext
  <2>3. CASE Here.preamble = "bad"
    <3>1. AnswerOf(cursor) = [status |-> "invalid", packet |-> NoPacket]
      BY <1>8, <2>3 DEF AnswerOf, Here, ReadFiltered, Reading
    <3>2. result' = "invalid"
      BY <1>8, <2>3 DEF ReadFiltered, Return
    <3> QED
      BY <2>1, <3>1, <3>2, AnswerStep DEF Stream!StreamNext
  <2> QED
    BY <1>8, <2>2, <2>3 DEF ReadFiltered
<1>9. CASE ReadMedia
  <2>1. CASE Yields(Here)
    <3>1. /\ cursor \in Answering /\ pc = "reading" /\ pc' = "idle"
          /\ UNCHANGED <<file, minted>> /\ cursor' = cursor + 1
          /\ result' = "packet" /\ packet' = PacketOf(cursor, Here, StreamIndex(Here.kind))
      BY <1>9, <2>1, HereTyped DEF ReadMedia, DecodeHere, Reading, Answering, Answers, Here, Return
    <3>2. Readable(Here) /\ Here.preamble = "clear"
      BY <1>9 DEF ReadMedia, Reading, Filtered
    <3>3. AnswerOf(cursor) = [status |-> "packet",
                              packet |-> PacketOf(cursor, Here, StreamIndex(Here.kind))]
      BY <3>2 DEF AnswerOf, Here
    <3> QED
      BY <3>1, <3>3, AnswerStep DEF Stream!StreamNext
  <2>2. CASE ~Yields(Here)
    <3>1. ~Answers(cursor)
      BY <1>9, <2>2 DEF ReadMedia, Reading, Answers, Here
    <3> QED
      BY <1>9, <2>2, <3>1, SilentStep DEF ReadMedia, DecodeHere, Reading
  <2> QED
    BY <2>1, <2>2
<1>10. ASSUME pc \in {"idle", "seeking"}, pc' = "idle", UNCHANGED <<file, minted>>,
              result' \in {"rejected", "landed", "scanFailed"}, TypeOK'
       PROVE  Stream!StreamNext
  <2>1. Answering' = Answering /\ \A i : AnswerOf(i)' = AnswerOf(i)
    BY <1>10, AnswersFixed
  <2>2. \A i \in {i \in Answering : cursor' <= i}, j \in Answering : i <= j => cursor' <= j
    BY <1>10 DEF Answering, Tags, TypeOK
  <2>3. Stream!FinishSeek
    BY <1>10, <2>1, <2>2 DEF Stream!FinishSeek, Opened
  <2> QED
    BY <2>3 DEF Stream!StreamNext
<1>11. ASSUME NEW s \in SeekStreams, SeekRejected(s) PROVE Stream!StreamNext
  BY <1>10, <1>11, TypeOKInductive DEF SeekRejected, Return
<1>12. ASSUME NEW s \in SeekStreams, NEW p \in SeekTimes, SeekByIndex(s, p)
       PROVE  Stream!StreamNext
  BY <1>10, <1>12, TypeOKInductive DEF SeekByIndex, Return
<1>13. ASSUME NEW s \in SeekStreams, NEW p \in SeekTimes, SeekByScan(s, p)
       PROVE  Stream!StreamNext
  <2>1. /\ pc = "idle" /\ pc' = "seeking" /\ UNCHANGED <<file, minted, result, packet>>
    BY <1>13 DEF SeekByScan
  <2>2. Answering' = Answering /\ \A i : AnswerOf(i)' = AnswerOf(i)
    BY <2>1, AnswersFixed
  <2>3. Stream!StartSeek
    BY <2>1, <2>2 DEF Stream!StartSeek, Opened
  <2> QED
    BY <2>3 DEF Stream!StreamNext
<1>14. CASE ScanEof \/ ScanUnreadable \/ ScanMatch
  BY <1>10, <1>14, TypeOKInductive DEF ScanEof, ScanUnreadable, ScanMatch, Scanning, Return
<1>15. CASE ScanSkip
  <2>1. pc = "seeking" /\ pc' = "seeking" /\ UNCHANGED <<file, minted, result, packet>>
    BY <1>15 DEF ScanSkip, Scanning
  <2> QED
    BY <2>1, AnswersFixed DEF Stream!streamVars, Opened
<1>16. CASE UNCHANGED vars
  BY <1>16, AnswersFixed DEF vars, Stream!streamVars, Opened
<1> QED
  BY <1>1, <1>2, <1>3, <1>4, <1>5, <1>6, <1>7, <1>8, <1>9, <1>11, <1>12, <1>13, <1>14,
     <1>15, <1>16 DEF Next, Open, Read, Scan, SeekTo

\* The demuxer gives every reply of its file once and in order, as PacketStream
\* promises.
THEOREM DemuxerImplementsPacketStream == Spec => ImplementsPacketStream
BY StreamStarts, StreamSteps, TypeCorrect, PTL
DEF Spec, ImplementsPacketStream, Stream!StreamSpec
=============================================================================
