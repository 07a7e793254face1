-------------------------- MODULE FlvDemuxerProps ---------------------------
(***************************************************************************)
(* What must hold of FlvDemuxer.                                           *)
(***************************************************************************)
EXTENDS FlvDemuxer

Opened == pc \in {"idle", "reading", "seeking"}
Tags   == 1 .. Len(file)

\* The tags before j are whole, so that skipping over them arrives at j.
Reachable(j) == j \in Tags /\ \A h \in 1 .. j - 1 : file[h].size = "fit"

\* A tag of this file, or 0 for none.
TagOrNone == Tags \cup {0}

\* The type invariant: every variable keeps its type, the reader never moves
\* in front of the first tag, and the streams, the harvested metadata, the side
\* channels and the last packet are all taken from tags of this file.
TypeOK ==
  /\ file \in Files
  /\ pc \in {"opening", "failed", "idle", "reading", "seeking"}
  /\ cursor \in Nat \ {0}
  /\ scanned \in Nat
  /\ minted \in [Media -> TagOrNone]
  /\ duration \in Int
  /\ keyframeIndex \in Seq([time : Int, dest : Nat \ {0}])
  /\ isEncrypted \in BOOLEAN
  /\ colorInfo \in TagOrNone /\ layout \in TagOrNone /\ channels \in TagOrNone
  /\ lastMultitrack \in TagOrNone /\ lastModEx \in TagOrNone
  /\ target \in Nat /\ landed \in Int /\ start \in Nat \ {0}
  /\ result \in {"none", "opened", "packet", "eof", "invalid", "io",
                 "rejected", "landed", "scanFailed"}
  /\ packet \in Packet /\ packet.tag \in TagOrNone

(***************************************************************************)
(* Discovery.                                                              *)
(***************************************************************************)
HasBody(k, j)  == file[j].kind = k /\ file[j].body.form # "empty"
MetaDataAt(j)  == /\ file[j].kind = "script" /\ file[j].script.name = "onMetaData"
                  /\ file[j].script.valid
DurationAt(j)  == MetaDataAt(j) /\ file[j].script.duration >= 0
TableAt(j)     == MetaDataAt(j) /\ KeyframeIndexOf(file[j].script) # <<>>
HeaderAt(j)    == file[j].kind = "script" /\ file[j].script.name = "|AdditionalHeader"

StreamsAreFirst ==
  \A k \in Media :
    IF HasStream(k)
    THEN /\ minted[k] \in 1 .. scanned /\ HasBody(k, minted[k])
         /\ \A j \in 1 .. minted[k] - 1 : ~HasBody(k, j)
    ELSE \A j \in 1 .. scanned : ~HasBody(k, j)

DurationIsFirst ==
  IF duration < 0 THEN \A j \in 1 .. scanned : ~DurationAt(j)
  ELSE \E j \in 1 .. scanned : /\ DurationAt(j) /\ duration = file[j].script.duration
                               /\ \A h \in 1 .. j - 1 : ~DurationAt(h)

TableIsFirst ==
  IF keyframeIndex = <<>> THEN \A j \in 1 .. scanned : ~TableAt(j)
  ELSE \E j \in 1 .. scanned : /\ TableAt(j) /\ keyframeIndex = file[j].script.keyframes
                               /\ \A h \in 1 .. j - 1 : ~TableAt(h)

EncryptionIsLast ==
  IF \A j \in 1 .. scanned : ~HeaderAt(j) THEN ~isEncrypted
  ELSE \E j \in 1 .. scanned : /\ HeaderAt(j) /\ isEncrypted = file[j].script.valid
                               /\ \A h \in j + 1 .. scanned : ~HeaderAt(h)

\* What discovery keeps is decided by file order alone: each stream comes from
\* the first non-empty body of its kind, the duration and the keyframes table
\* from the first onMetaData that has one, the encryption flag from the last
\* |AdditionalHeader (open_concrete, parse_on_metadata).
DiscoveryFollowsFileOrder ==
  StreamsAreFirst /\ DurationIsFirst /\ TableIsFirst /\ EncryptionIsLast

\* Discovery may give up at the cap or at the end of the file, and for no other
\* reason: once the file is open, a kind without a stream has no body among the
\* first MaxDiscoveryTags tags a reader can reach.
NoStreamIsMissed ==
  Opened =>
    \A k \in Media, j \in Tags :
      ~HasStream(k) /\ HasBody(k, j) /\ Reachable(j) => j > MaxDiscoveryTags

(***************************************************************************)
(* Packets and the side channels that describe them.                       *)
(***************************************************************************)
\* A packet names a stream that exists, never the other kind's, whatever the
\* renumbering at the end of open_concrete did, and keeps its tag's decoding
\* time; seeks and failed reads in between change nothing about it.
PacketsCarryTheirStream ==
  packet.tag # 0 =>
    /\ packet.tag \in Tags
    /\ file[packet.tag].kind \in Media
    /\ HasStream(file[packet.tag].kind)
    /\ packet.stream < StreamCount
    /\ StreamCount = 2 => (packet.stream = 0 <=> file[packet.tag].kind = "audio")
    /\ packet.dts = file[packet.tag].ts

\* Bytes of a filtered tag never reach a decoder: they are marked discard, and
\* never header or key (next_packet, "so decoders don't try to parse ciphertext").
CiphertextIsDiscarded ==
  packet.tag # 0 /\ Filtered(file[packet.tag]) =>
    packet.discard /\ ~packet.header /\ ~packet.key

DescribesPacket ==
  LET t == file[packet.tag] IN
  /\ lastMultitrack = IF ~Filtered(t) /\ CarriesTracks(t.body) THEN packet.tag ELSE 0
  /\ lastModEx = IF ~Filtered(t) /\ CarriesModEx(t.body) THEN packet.tag ELSE 0

\* last_multitrack_tracks and last_mod_ex_entries describe the packet returned
\* last, through the tags that are passed over, the failed reads and the seeks
\* that come after it, as long as that packet came from a tag in the clear.
SideChannelsDescribeClearPacket ==
  packet.tag # 0 /\ ~Filtered(file[packet.tag]) => DescribesPacket

\* The doc comment of last_multitrack_tracks: "it holds the tracks of the tag
\* the just-returned packet was built from".
SideChannelsDescribePacket == packet.tag # 0 => DescribesPacket

(***************************************************************************)
(* Harvested stream descriptions.                                          *)
(***************************************************************************)
\* In a run of reading without a seek the colour and layout metadata are those
\* of the last such frame read, and the channel count that of the last layout
\* with channels; a frame that does not parse, or that is filtered, changes
\* nothing ("a new config supersedes the prior one").
HarvestIsLatest ==
  LET live(j) == Readable(file[j]) /\ ~Filtered(file[j]) /\ Routed(file[j])
      color(j) == live(j) /\ SetsColor(file[j])
      lay(j) == live(j) /\ SetsLayout(file[j])
      chan(j) == lay(j) /\ file[j].body.info = "some"
  IN pc \in {"idle", "reading"} =>
       \A j \in start .. cursor - 1 :
         /\ color(j) => colorInfo >= j /\ color(colorInfo) /\ colorInfo < cursor
         /\ lay(j)   => layout >= j    /\ lay(layout)      /\ layout < cursor
         /\ chan(j)  => channels >= j  /\ chan(channels)   /\ channels < cursor

(***************************************************************************)
(* Seeking.                                                                *)
(***************************************************************************)
\* The last call to return was a successful seek.
HasLanded == result = "landed" /\ pc # "seeking"

\* A scanning seek to the target may stop at tag j.
Fits(j) == Candidate(file[j]) /\ file[j].ts >= target

\* A seek through the keyframes table lands on an entry at or before the target
\* with no entry between it and the target, or on the earliest when all are later;
\* the reader is where that entry points, and rounding the entry's time to
\* milliseconds does not push it past the target.
IndexLandsAtOrBefore ==
  HasLanded /\ UsesIndex =>
    \E j \in 1 .. Len(keyframeIndex) :
      /\ landed = ToMs(keyframeIndex[j].time)
      /\ start = keyframeIndex[j].dest
      /\ \/ landed <= target
         \/ \A h \in 1 .. Len(keyframeIndex) :
              keyframeIndex[h].time > 2 * target /\ keyframeIndex[j].time <= keyframeIndex[h].time
      /\ \A h \in 1 .. Len(keyframeIndex) :
           keyframeIndex[j].time < keyframeIndex[h].time => keyframeIndex[h].time > 2 * target

\* A scanning seek stops on the first tag of the whole file that looks like a
\* random access point at or after the target, however far the reader had got;
\* without one it ends at the end of the file and echoes the target.
ScanLandsOnFirst ==
  HasLanded /\ ~UsesIndex =>
    /\ \A j \in 1 .. start - 1 : Reachable(j) => ~Fits(j)
    /\ IF start \in Tags THEN Reachable(start) /\ Fits(start) /\ landed = file[start].ts
                         ELSE landed = target

\* A scanning seek that fails has already moved the reader behind everything
\* that can be read: no packet follows until a later seek succeeds.
FailedScanLeavesNothing ==
  result = "scanFailed" /\ pc # "seeking" => \A j \in cursor .. Len(file) : file[j].kind = "stray"

(***************************************************************************)
(* The detailed demuxer implements PacketStream.                           *)
(***************************************************************************)
\* Tag i ends a call of next_packet.
Answers(i) ==
  LET t == file[i] IN ~Readable(t) \/ (Routed(t) /\ (Filtered(t) \/ Yields(t)))

AnswerOf(i) ==
  LET t == file[i]
      s == StreamIndex(t.kind)
      error(r) == [status |-> r, packet |-> NoPacket]
      ok(p)    == [status |-> "packet", packet |-> p]
  IN CASE ~Readable(t)                         -> error(ReadError(t))
       [] Readable(t) /\ t.preamble = "bad"   -> error("invalid")
       [] Readable(t) /\ t.preamble = "good"  -> ok(CipherPacket(i, t, s))
       [] Readable(t) /\ t.preamble = "clear" -> ok(PacketOf(i, t, s))

Answering == {i \in Tags : Answers(i)}

Stream == INSTANCE PacketStream WITH
  Reply     <- [status : {"packet", "invalid", "io"}, packet : Packet],
  Eof       <- [status |-> "eof", packet |-> NoPacket],
  SeekReply <- [status : {"rejected", "landed", "scanFailed"}, packet : {NoPacket}],
  OpenReply <- [status : {"opened", "invalid", "io"}, packet : {NoPacket}],
  phase     <- IF pc = "failed" THEN "closed"
               ELSE IF pc \in {"idle", "reading"} THEN "ready" ELSE pc,
  items     <- [i \in IF Opened THEN Answering ELSE {} |-> AnswerOf(i)],
  left      <- IF pc \in {"idle", "reading"} THEN {i \in Answering : cursor <= i}
               ELSE IF pc = "seeking" THEN Answering ELSE {},
  reply     <- [status |-> result, packet |-> IF result = "packet" THEN packet ELSE NoPacket]

\* Between two seeks next_packet returns every tag that has something to say,
\* once, in file order, errors included, and nothing else.
ImplementsPacketStream == Stream!StreamSpec

(***************************************************************************)
(* Liveness.                                                               *)
(***************************************************************************)
\* Every call returns, also on a broken file: no loop is left spinning.
CallsReturn == (pc \in {"opening", "reading", "seeking"}) ~> (pc \in {"idle", "failed"})

\* A caller that keeps calling next_packet, through whatever errors, gets to Eof
\* unless it keeps seeking.
DrainReachesEof ==
  \/ <>(pc = "failed")
  \/ <>(result = "eof")
  \/ []<>(result \in {"rejected", "landed", "scanFailed"})
=============================================================================
