----------------------------- MODULE FlvDemuxer -----------------------------
(***************************************************************************)
(* The demuxer of demuxer.rs: open_concrete, next_packet and seek_to over  *)
(* one file, one step per turn of their loops.  A step is one tag looked   *)
(* at; the caller may only call again once the running call has returned.  *)
(*                                                                         *)
(* Streams, metadata and side channels are represented by the index of the *)
(* tag they were taken from; 0 stands for "none".                          *)
(***************************************************************************)
EXTENDS FlvTags

CONSTANTS
  Files,             \* the files that may be opened, sequences of tags
  MaxDiscoveryTags,  \* how many tags open_concrete looks at (256 in the code)
  SeekStreams,       \* stream indices a caller may pass to seek_to
  SeekTimes          \* timestamps a caller may pass to seek_to

ASSUME FilesAssumption == Files \subseteq Seq(Tag)
ASSUME LayoutAssumption == \A f \in Files : IsFile(f)
ASSUME CapAssumption   == MaxDiscoveryTags \in Nat
ASSUME SeekAssumption  == SeekStreams \subseteq Nat /\ SeekTimes \subseteq Int

VARIABLES
  file,            \* the input; never changes
  pc,              \* which call is running
  cursor,          \* the reader's position: the next tag
  scanned,         \* tags_scanned of open_concrete
  minted,          \* per media kind, the tag its StreamInfo was built from
  duration,        \* duration_micros; negative when not known
  keyframeIndex,   \* keyframe_index; <<>> when there is none
  isEncrypted,     \* is_encrypted
  colorInfo,       \* the Metadata frame behind the colorinfo.* metadata
  layout,          \* the MultichannelConfig behind multichannelconfig.*
  channels,        \* the MultichannelConfig behind the audio channel count
  lastMultitrack,  \* the tag last_multitrack_tracks() describes
  lastModEx,       \* the tag last_mod_ex_entries() describes
  target,          \* target_pts_ms of the last seek
  landed,          \* the timestamp the last successful seek returned
  start,           \* history: where the current run of reading began
  result,          \* what the last call returned
  packet           \* the last packet returned

discovered   == <<scanned, minted, duration, keyframeIndex, isEncrypted>>
harvested    == <<colorInfo, layout, channels>>
sideChannels == <<lastMultitrack, lastModEx>>
seekState    == <<target, landed, start>>
vars == <<file, pc, cursor, discovered, harvested, sideChannels, seekState, result, packet>>

NoPacket == [tag |-> 0, stream |-> 0, pts |-> 0, dts |-> 0, key |-> FALSE,
             header |-> FALSE, discard |-> FALSE, track |-> Whole]

Init ==
  /\ file \in Files
  /\ pc = "opening"
  /\ cursor = 1
  /\ scanned = 0
  /\ minted = [k \in Media |-> 0]
  /\ duration = -1
  /\ keyframeIndex = <<>>
  /\ isEncrypted = FALSE
  /\ colorInfo = 0 /\ layout = 0 /\ channels = 0
  /\ lastMultitrack = 0 /\ lastModEx = 0
  /\ target = 0 /\ landed = 0 /\ start = 1
  /\ result = "none"
  /\ packet = NoPacket

(***************************************************************************)
(* The reader.                                                             *)
(***************************************************************************)
AtEof == cursor > Len(file)
Here  == file[cursor]

\* TagHeader::read and read_body and the trailer all succeed.
Readable(t) == t.kind # "stray" /\ t.size = "fit"

\* The error that reading a tag that is not Readable ends in.
ReadError(t) == IF t.kind # "stray" /\ t.size = "over" THEN "invalid" ELSE "io"

\* Mutant: the skip stays where it is.
AfterNoSkip == cursor

\* skip_bytes seeks, so it may end beyond the end of the file.
AfterSkip == IF Here.size = "fit" THEN cursor + 1 ELSE Len(file) + 1

HasStream(k) == minted[k] # 0

\* Mutant: the video stream is not renumbered in a file without audio.
StreamIndexAsDeclared(k) == IF k = "video" THEN 1 ELSE 0

\* Audio comes first when there is any.
StreamIndex(k) == IF k = "video" /\ HasStream("audio") THEN 1 ELSE 0
StreamCount == (IF HasStream("audio") THEN 1 ELSE 0) + (IF HasStream("video") THEN 1 ELSE 0)

Return(r) == pc' = "idle" /\ result' = r

(***************************************************************************)
(* open_concrete: discovery.                                               *)
(***************************************************************************)
\* Mutant: one stream is enough.
DiscoveringOneStream ==
  /\ pc = "opening"
  /\ scanned < MaxDiscoveryTags
  /\ ~(HasStream("audio") \/ HasStream("video"))
  /\ ~AtEof

Discovering ==
  /\ pc = "opening"
  /\ scanned < MaxDiscoveryTags
  /\ ~(HasStream("audio") /\ HasStream("video"))
  /\ ~AtEof

OpenDone ==
  /\ pc = "opening"
  /\ ~Discovering
  /\ \/ /\ StreamCount > 0
        /\ cursor' = 1
        /\ Return("opened")
     \/ /\ StreamCount = 0
        /\ pc' = "failed"
        /\ result' = "invalid"
        /\ UNCHANGED cursor
  /\ UNCHANGED <<file, discovered, harvested, sideChannels, seekState, packet>>

OpenFails(r) ==
  /\ pc' = "failed"
  /\ result' = r
  /\ UNCHANGED <<file, cursor, discovered, harvested, sideChannels, seekState, packet>>

OpenUnreadable ==
  /\ Discovering
  /\ Here.kind # "unknown"
  /\ ~Readable(Here)
  /\ OpenFails(ReadError(Here))

\* build_audio_stream and build_video_stream propagate the Ex parse error.
OpenMalformed ==
  /\ Discovering
  /\ Readable(Here)
  /\ Here.kind \in Media
  /\ ~HasStream(Here.kind)
  /\ Here.body.form = "malformed"
  /\ OpenFails("invalid")

DiscoverUnknown ==
  /\ Discovering
  /\ Here.kind = "unknown"
  /\ cursor' = AfterSkip
  /\ scanned' = scanned + 1
  /\ UNCHANGED <<file, pc, minted, duration, keyframeIndex, isEncrypted, harvested,
                 sideChannels, seekState, result, packet>>

\* A keyframes object with unsorted times is refused.
KeyframeIndexOf(s) ==
  IF \A h, j \in 1 .. Len(s.keyframes) : h <= j => s.keyframes[h].time <= s.keyframes[j].time
  THEN s.keyframes ELSE <<>>

\* Mutant: the last duration wins.
ParseScriptLastWins(s) ==
  /\ duration' = IF s.name = "onMetaData" /\ s.valid /\ s.duration >= 0
                 THEN s.duration ELSE duration
  /\ keyframeIndex' = IF s.name = "onMetaData" /\ s.valid THEN KeyframeIndexOf(s) ELSE keyframeIndex
  /\ isEncrypted' = IF s.name = "|AdditionalHeader" THEN s.valid ELSE isEncrypted

ParseScript(s) ==
  /\ duration' = IF s.name = "onMetaData" /\ s.valid /\ duration < 0 /\ s.duration >= 0
                 THEN s.duration ELSE duration
  /\ keyframeIndex' = IF s.name = "onMetaData" /\ s.valid /\ keyframeIndex = <<>>
                      THEN KeyframeIndexOf(s) ELSE keyframeIndex
  /\ isEncrypted' = IF s.name = "|AdditionalHeader" THEN s.valid ELSE isEncrypted

DiscoverScript ==
  /\ Discovering
  /\ Readable(Here)
  /\ Here.kind = "script"
  /\ ParseScript(Here.script)
  /\ cursor' = cursor + 1
  /\ scanned' = scanned + 1
  /\ UNCHANGED <<file, pc, minted, harvested, sideChannels, seekState, result, packet>>

\* The Filter bit is not looked at: the first body of a kind makes its stream.
Mints(t) == t.body.form # "empty" /\ ~HasStream(t.kind)

DiscoverMedia ==
  /\ Discovering
  /\ Readable(Here)
  /\ Here.kind \in Media
  /\ ~(Mints(Here) /\ Here.body.form = "malformed")
  /\ minted' = IF Mints(Here) THEN [minted EXCEPT ![Here.kind] = cursor] ELSE minted
  /\ cursor' = cursor + 1
  /\ scanned' = scanned + 1
  /\ UNCHANGED <<file, pc, duration, keyframeIndex, isEncrypted, harvested,
                 sideChannels, seekState, result, packet>>

(***************************************************************************)
(* next_packet.                                                            *)
(***************************************************************************)
CallNext ==
  /\ pc = "idle"
  /\ pc' = "reading"
  /\ UNCHANGED <<file, cursor, discovered, harvested, sideChannels, seekState, result, packet>>

ReadEof ==
  /\ pc = "reading"
  /\ AtEof
  /\ Return("eof")
  /\ UNCHANGED <<file, cursor, discovered, harvested, sideChannels, seekState, packet>>

\* Mutant: the reader is put back in front of the tag it could not read.
ReadUnreadableAgain ==
  /\ pc = "reading"
  /\ ~AtEof
  /\ ~Readable(Here)
  /\ Return(ReadError(Here))
  /\ UNCHANGED <<file, cursor, discovered, harvested, sideChannels, seekState, packet>>

\* read_body fails with the reader behind the header, before the body.
ReadUnreadable ==
  /\ pc = "reading"
  /\ ~AtEof
  /\ ~Readable(Here)
  /\ cursor' = cursor + 1
  /\ Return(ReadError(Here))
  /\ UNCHANGED <<file, discovered, harvested, sideChannels, seekState, packet>>

Reading ==
  /\ pc = "reading"
  /\ ~AtEof
  /\ Readable(Here)
  /\ cursor' = cursor + 1
  /\ UNCHANGED <<file, discovered, seekState>>

\* Not a script tag, an unknown tag, or media of a kind no stream was found for.
Routed(t) == t.kind \in Media /\ HasStream(t.kind)

ReadIgnored ==
  /\ Reading
  /\ ~Routed(Here)
  /\ UNCHANGED <<pc, harvested, sideChannels, result, packet>>

\* build_encrypted_packet returns before the side channels are refreshed.
ReadFiltered ==
  /\ Reading
  /\ Routed(Here)
  /\ Filtered(Here)
  /\ \/ /\ Here.preamble = "good"
        /\ packet' = CipherPacket(cursor, Here, StreamIndex(Here.kind))
        /\ Return("packet")
     \/ /\ Here.preamble = "bad"
        /\ Return("invalid")
        /\ UNCHANGED packet
  /\ UNCHANGED <<harvested, sideChannels>>

(***************************************************************************)
(* The frames that describe the stream are harvested before the packet is  *)
(* built.  A multitrack MultichannelConfig is unwrapped first; a Metadata  *)
(* body is handed to the AMF parser as it stands, track framing included.  *)
(***************************************************************************)
SetsLayout(t) ==
  /\ t.kind = "audio"
  /\ t.body.form = "ex" /\ t.body.unit = "info" /\ t.body.info # "bad"

SetsColor(t) ==
  /\ t.kind = "video"
  /\ t.body.form = "ex" /\ t.body.unit = "info" /\ t.body.info # "bad"

\* Mutant: what is known already is kept.
HarvestFirst(t, i) ==
  /\ colorInfo' = IF SetsColor(t) /\ colorInfo = 0 THEN i ELSE colorInfo
  /\ layout'    = IF SetsLayout(t) /\ layout = 0 THEN i ELSE layout
  /\ channels'  = IF SetsLayout(t) /\ t.body.info = "some" THEN i ELSE channels

Harvest(t, i) ==
  /\ colorInfo' = IF SetsColor(t) THEN i ELSE colorInfo
  /\ layout'    = IF SetsLayout(t) THEN i ELSE layout
  /\ channels'  = IF SetsLayout(t) /\ t.body.info = "some" THEN i ELSE channels

\* Mutant: a tag without tracks, or without ModEx, leaves the old ones.
KeepSideChannels(t, i) ==
  /\ lastMultitrack' = IF CarriesTracks(t.body) THEN i ELSE lastMultitrack
  /\ lastModEx'      = IF CarriesModEx(t.body) THEN i ELSE lastModEx

\* Mutant: they are named by where the reader is by then.
RefreshFromBehind(t, i) ==
  /\ lastMultitrack' = IF CarriesTracks(t.body) THEN i + 1 ELSE 0
  /\ lastModEx'      = IF CarriesModEx(t.body) THEN i + 1 ELSE 0

\* extract_multitrack_tracks and extract_mod_ex.
RefreshSideChannels(t, i) ==
  /\ lastMultitrack' = IF CarriesTracks(t.body) THEN i ELSE 0
  /\ lastModEx'      = IF CarriesModEx(t.body) THEN i ELSE 0

DecodeHere ==
  /\ Harvest(Here, cursor)
  /\ \/ /\ Yields(Here)
        /\ packet' = PacketOf(cursor, Here, StreamIndex(Here.kind))
        /\ RefreshSideChannels(Here, cursor)
        /\ Return("packet")
     \/ /\ ~Yields(Here)
        /\ UNCHANGED <<pc, sideChannels, result, packet>>

\* Mutant: the Filter bit is honoured only when the preamble parses.
ReadMediaTrusting ==
  /\ Reading
  /\ Routed(Here)
  /\ Here.preamble # "good"
  /\ DecodeHere

ReadMedia ==
  /\ Reading
  /\ Routed(Here)
  /\ ~Filtered(Here)
  /\ DecodeHere

(***************************************************************************)
(* seek_to.                                                                *)
(***************************************************************************)
SeekRejected(s) ==
  /\ pc = "idle"
  /\ s >= StreamCount
  /\ Return("rejected")
  /\ UNCHANGED <<file, cursor, discovered, harvested, sideChannels, seekState, packet>>

\* Mutant: a target between two entries takes the later one.
BisectUp(index, ms) ==
  LET n == Len(index)
      above == {j \in 1 .. n : index[j].time >= 2 * ms}
  IN {j \in 1 .. n : IF above = {} THEN j = n
                      ELSE j \in above /\ \A h \in above : j <= h}

\* slice::binary_search_by may return any of several equal entries.
Bisect(index, ms) ==
  LET n == Len(index)
      exact == {j \in 1 .. n : index[j].time = 2 * ms}
      below == {j \in 1 .. n : index[j].time < 2 * ms}
  IN IF exact # {} THEN exact
     ELSE {j \in 1 .. n : IF below = {} THEN j = 1
                          ELSE j \in below /\ \A h \in below : h <= j}

\* f64::round: halves away from zero.
ToMs(time) == IF time >= 0 THEN (time + 1) \div 2 ELSE -((1 - time) \div 2)

Clamp(p) == IF p < 0 THEN 0 ELSE p

UsesIndex == keyframeIndex # <<>> /\ HasStream("video")

SeekByIndex(s, p) ==
  /\ pc = "idle"
  /\ s < StreamCount
  /\ UsesIndex
  /\ target' = Clamp(p)
  /\ \E j \in Bisect(keyframeIndex, Clamp(p)) :
       /\ cursor' = keyframeIndex[j].dest
       /\ start'  = keyframeIndex[j].dest
       /\ landed' = ToMs(keyframeIndex[j].time)
  /\ Return("landed")
  /\ UNCHANGED <<file, discovered, harvested, sideChannels, packet>>

\* Mutant: the scan starts where the reader is.
SeekByScanOnwards(s, p) ==
  /\ pc = "idle"
  /\ s < StreamCount
  /\ ~UsesIndex
  /\ target' = Clamp(p)
  /\ pc' = "seeking"
  /\ UNCHANGED <<file, cursor, discovered, harvested, sideChannels, landed, start, result, packet>>

SeekByScan(s, p) ==
  /\ pc = "idle"
  /\ s < StreamCount
  /\ ~UsesIndex
  /\ target' = Clamp(p)
  /\ cursor' = 1
  /\ pc' = "seeking"
  /\ UNCHANGED <<file, discovered, harvested, sideChannels, landed, start, result, packet>>

Scanning ==
  /\ pc = "seeking"
  /\ UNCHANGED <<file, discovered, harvested, sideChannels, target, packet>>

ScanEof ==
  /\ Scanning
  /\ AtEof
  /\ landed' = target
  /\ start' = cursor
  /\ Return("landed")
  /\ UNCHANGED cursor

\* Mutant: the scan reads whole bodies, as next_packet does.
UnscannableBody(t) == t.kind = "stray" \/ (t.kind = "video" /\ t.size = "over")

\* A partial header, or a first body byte that is not there to be peeked at.
Unscannable(t) ==
  \/ t.kind = "stray"
  \/ t.kind = "video" /\ HasStream("video") /\ t.size = "over" /\ cursor = Len(file)

ScanUnreadable ==
  /\ Scanning
  /\ ~AtEof
  /\ Unscannable(Here)
  /\ cursor' = cursor + 1
  /\ start' = cursor + 1
  /\ Return("scanFailed")
  /\ UNCHANGED landed

\* Keyframes when there is video, whichever stream the seek is for.
Candidate(t) ==
  IF HasStream("video") THEN t.kind = "video" /\ LooksLikeKeyframe(t)
                        ELSE t.kind = "audio"

ScanMatch ==
  /\ Scanning
  /\ ~AtEof
  /\ ~Unscannable(Here)
  /\ Candidate(Here) /\ Here.ts >= target
  /\ landed' = Here.ts
  /\ start' = cursor
  /\ Return("landed")
  /\ UNCHANGED cursor

ScanSkip ==
  /\ Scanning
  /\ ~AtEof
  /\ ~Unscannable(Here)
  /\ ~(Candidate(Here) /\ Here.ts >= target)
  /\ cursor' = AfterSkip
  /\ UNCHANGED <<pc, landed, start, result>>

-----------------------------------------------------------------------------
Open   == OpenDone \/ OpenUnreadable \/ OpenMalformed
            \/ DiscoverUnknown \/ DiscoverScript \/ DiscoverMedia
Read   == ReadEof \/ ReadUnreadable \/ ReadIgnored \/ ReadFiltered \/ ReadMedia
Scan   == ScanEof \/ ScanUnreadable \/ ScanMatch \/ ScanSkip
SeekTo == \E s \in SeekStreams :
            \/ SeekRejected(s)
            \/ \E p \in SeekTimes : SeekByIndex(s, p) \/ SeekByScan(s, p)

Next == Open \/ Read \/ Scan \/ CallNext \/ SeekTo

Spec == Init /\ [][Next]_vars

(***************************************************************************)
(* A call runs on its caller's thread until it returns; a caller that      *)
(* drains the file keeps calling next_packet.                              *)
(***************************************************************************)
FairSpec == Spec /\ WF_vars(Open \/ Read \/ Scan) /\ WF_vars(CallNext)
=============================================================================
