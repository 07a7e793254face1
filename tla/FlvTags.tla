------------------------------ MODULE FlvTags ------------------------------
(***************************************************************************)
(* The tags of an FLV file as the demuxer tells them apart, and the pure   *)
(* functions of demuxer.rs from one tag to (at most) one packet.           *)
(*                                                                         *)
(* A file is a sequence of tags.  Bytes are abstracted to the decisions    *)
(* the code takes on them; a packet or a side channel names the tag it was *)
(* built from instead of carrying a copy of its bytes.                     *)
(***************************************************************************)
EXTENDS Integers, Sequences

Media == {"audio", "video"}

(***************************************************************************)
(* What follows a reader's position, as TagHeader::read and read_body see  *)
(* it.                                                                     *)
(*                                                                         *)
(*   kind "stray"    fewer bytes are left than a tag header has            *)
(*   kind "unknown"  the low five bits of the tag type are not 8, 9 or 18  *)
(*   size "fit"      header, body and PreviousTagSize are all in the file  *)
(*   size "over"     DataSize exceeds the bytes left; the tags after it in *)
(*                   the sequence are what its own body parses as          *)
(*   size "cut"      only the PreviousTagSize is short; strays may follow  *)
(*   preamble        "clear" when the Filter bit 0x20 is unset, otherwise  *)
(*                   whether EncryptedTagPreamble::parse accepts the body  *)
(***************************************************************************)
Kinds == Media \cup {"script", "unknown", "stray"}
Sizes == {"fit", "over", "cut"}
Preambles == {"clear", "good", "bad"}

(***************************************************************************)
(* A media body.                                                           *)
(*                                                                         *)
(*   form    "ex" an Enhanced-RTMP header parses; "malformed" its marker   *)
(*           is there but the parse fails, and codec and unit describe the *)
(*           reading of the same bytes as a legacy body                    *)
(*   codec   "avc" H.264 (and HEVC, VVC in an Ex body), "aac", "plain"     *)
(*   frame   the frame type bits of a video body                           *)
(*   unit    the packet type: "config" (sequence start), "data" (coded     *)
(*           frames), "dataX" (Ex coded frames without composition time),  *)
(*           "end" (end of sequence), "info" (Ex MultichannelConfig or     *)
(*           Metadata), "other"; "short" when the bytes end before it      *)
(*   multitrack, tracks   the Ex multitrack flag and the track ids in wire *)
(*           order; <<>> when split_tracks fails (it never returns none)   *)
(*   modex   the ModEx prefix: none, with or without a nano offset         *)
(*   cto     composition time offset                                       *)
(*   info    what an "info" body holds: it does not parse, it has a zero   *)
(*           channel count, or it has content; of a multitrack Metadata    *)
(*           body, what its track framing and the rest parse as together   *)
(***************************************************************************)
Forms  == {"empty", "legacy", "ex", "malformed"}
Codecs == {"avc", "aac", "plain"}
Frames == {"key", "inter", "command"}
Units  == {"config", "data", "dataX", "end", "info", "other", "short"}

Body == [form : Forms, codec : Codecs, frame : Frames, unit : Units,
         multitrack : BOOLEAN, tracks : Seq(Nat),
         modex : {"none", "nano", "reserved"}, cto : Int,
         info : {"bad", "zero", "some"}]

(***************************************************************************)
(* A script body: the name, whether the value has the shape that name      *)
(* calls for, the duration (negative: none usable) and the keyframes       *)
(* object, a sequence of [time, dest] with the index of the tag an offset  *)
(* points at (<<>>: no keyframes object, or arrays of unequal length).     *)
(* Times are seconds in floating point; here, half milliseconds.           *)
(***************************************************************************)
Script == [name : {"onMetaData", "|AdditionalHeader", "other"},
           valid : BOOLEAN, duration : Int,
           keyframes : Seq([time : Int, dest : Nat \ {0}])]

Tag == [kind : Kinds, size : Sizes, preamble : Preambles, ts : Nat,
        body : Body, script : Script]

\* Nothing but strays follows a tag whose trailer is short, or a stray.
IsFile(f) ==
  \A h, j \in 1 .. Len(f) :
    h < j /\ (f[h].kind = "stray" \/ f[h].size = "cut") => f[j].kind = "stray"

Filtered(t) == t.preamble # "clear"

(***************************************************************************)
(* Ex header facts the demuxer asks for.                                   *)
(***************************************************************************)
\* A VideoCommand byte follows the Ex header and there is no payload.
HasCommand(b) == b.frame = "command" /\ b.unit # "info"

\* The default track can be selected from the body.
HasDefaultTrack(b) == b.multitrack => b.tracks # <<>>

\* Track 0, or the first one on the wire.
DefaultTrack(b) ==
  IF \E k \in 1 .. Len(b.tracks) : b.tracks[k] = 0 THEN 0 ELSE b.tracks[1]

\* The frame type VideoTagHeader::parse reads: with the Ex marker set the
\* four bits are 8 or more, which is no frame type at all.
LegacyFrame(b) == IF b.form = "malformed" THEN "unknown" ELSE b.frame

CarriesTracks(b) == b.form = "ex" /\ b.multitrack /\ b.tracks # <<>>
CarriesModEx(b)  == b.form = "ex" /\ b.modex # "none"

(***************************************************************************)
(* Which bodies become packets, and which packets.  A malformed Ex header  *)
(* falls through to the legacy reading.                                    *)
(***************************************************************************)
AudioYields(b) ==
  \/ b.form = "empty"
  \/ b.form = "ex" /\ b.unit # "end" /\ HasDefaultTrack(b)
  \/ b.form \in {"legacy", "malformed"} /\ (b.codec = "aac" => b.unit \in {"config", "data"})

VideoYields(b) ==
  \/ b.form = "ex" /\ b.unit # "end" /\ (HasCommand(b) \/ HasDefaultTrack(b))
  \/ /\ b.form \in {"legacy", "malformed"}
     /\ IF LegacyFrame(b) = "command"
        THEN b.unit # "short"
        ELSE b.codec = "avc" => b.unit \in {"config", "data"}

\* The track number that stands for "not one of several tracks".
Whole == -1

AudioPacket(i, t, s) ==
  LET b == t.body IN
  [tag |-> i, stream |-> s, pts |-> t.ts, dts |-> t.ts, key |-> TRUE,
   header  |-> b.form = "empty" \/ (b.form = "ex" /\ b.unit # "data")
                 \/ (b.form = "legacy" /\ b.codec = "aac" /\ b.unit = "config"),
   discard |-> b.form = "empty" \/ (b.form = "ex" /\ b.unit \notin {"config", "data"}),
   track   |-> IF CarriesTracks(b) THEN DefaultTrack(b) ELSE Whole]

\* pts is moved by the composition time of AVC, HEVC and VVC coded frames only.
VideoShift(b) ==
  IF b.codec = "avc" /\ b.unit = "data" /\
       (IF b.form = "ex" THEN ~(b.multitrack /\ HasCommand(b))
                         ELSE LegacyFrame(b) # "command")
  THEN b.cto ELSE 0

VideoPacket(i, t, s) ==
  LET b == t.body
      command == IF b.form = "ex" THEN b.frame = "command" ELSE LegacyFrame(b) = "command"
      opaque  == b.form = "ex" /\ b.unit \in {"info", "other"}
      config  == b.unit = "config" /\ (b.form = "ex" \/ b.codec = "avc")
  IN [tag |-> i, stream |-> s, pts |-> t.ts + VideoShift(b), dts |-> t.ts,
      key     |-> (IF b.form = "ex" THEN b.frame ELSE LegacyFrame(b)) = "key",
      header  |-> command \/ opaque \/ config,
      discard |-> command \/ opaque,
      track   |-> IF CarriesTracks(b) /\ ~HasCommand(b) THEN DefaultTrack(b) ELSE Whole]

CipherPacket(i, t, s) ==
  [tag |-> i, stream |-> s, pts |-> t.ts, dts |-> t.ts, key |-> FALSE,
   header |-> FALSE, discard |-> TRUE, track |-> Whole]

Packet == [tag : Nat, stream : Nat, pts : Int, dts : Int, key : BOOLEAN,
           header : BOOLEAN, discard : BOOLEAN, track : Int]

Yields(t) == IF t.kind = "audio" THEN AudioYields(t.body) ELSE VideoYields(t.body)

PacketOf(i, t, s) == IF t.kind = "audio" THEN AudioPacket(i, t, s) ELSE VideoPacket(i, t, s)

(***************************************************************************)
(* The keyframe test of a scanning seek.  It looks at the first body byte  *)
(* only: the Ex marker, then the frame type bits, whatever the rest of the *)
(* tag turns out to be.  The first byte of a filtered body is NumFilters,  *)
(* which EncryptedTagPreamble::parse wants to be 1: frame type 0.          *)
(***************************************************************************)
LooksLikeKeyframe(t) == t.body.form # "empty" /\ t.body.frame = "key" /\ t.preamble # "good"
=============================================================================
