---------------------------- MODULE SessionCalls ----------------------------
(***************************************************************************)
(* The writers of tag.rs with every argument they take, and what each      *)
(* documents for the reader of its tag.                                    *)
(*                                                                         *)
(* A call is the tag a writer gave (or none: it refused), and what its     *)
(* caller may expect of it at the other end: the packet; the codec and the *)
(* decoder configuration if its tag is the first of its kind; and what     *)
(* belongs to the kind of tag it wrote.                                    *)
(***************************************************************************)
EXTENDS SideFrames

CONSTANTS
  Payloads,    \* media data, decoder configurations, frames of other writers
  Octets,      \* single bytes: alpha offsets, commands
  Offsets,     \* composition time offsets
  Layouts,     \* speaker layouts, valid or not
  ColorInfos,  \* colour descriptions, encodable or not
  AmfBodies    \* AMF values of other writers' metadata frames

Option(S) == {s \in Seq(S) : Len(s) <= 1}

ASSUME ArgumentsAssumption ==
  /\ Payloads \subseteq Seq(Nat) /\ Octets \subseteq Nat /\ Offsets \subseteq Int
  /\ Layouts \subseteq [order : Nat, count : Nat, mapping : Option(Seq(Nat)), flags : Option(Nat)]

Nothing ==
  [answer |-> None, codec |-> "", config |-> <<>>, fixedRate |-> None,
   layout |-> None, color |-> None, cue |-> None, image |-> None,
   properties |-> <<>>, tracks |-> <<>>,
   index |-> None, headline |-> None, xmp |-> None]

Call(tags, says) == [tags |-> tags, says |-> says]

(***************************************************************************)
(* What a packet is to be like.                                            *)
(***************************************************************************)
Reply(data, shift, key, header, discard, amf) ==
  << [data |-> data, shift |-> shift, key |-> key, header |-> header, discard |-> discard, amf |-> amf] >>

Picture(key, shift, data) == Reply(data, shift, key, FALSE, FALSE, <<>>)
Config(data) == Reply(data, 0, TRUE, TRUE, FALSE, <<>>)
Side(key, data, amf) == Reply(data, 0, key, TRUE, TRUE, amf)

Media0(tags, codec, config, answer) ==
  Call(tags, [Nothing EXCEPT !.answer = answer, !.codec = codec, !.config = config])

Sound(tags, codec, data) == Media0(tags, codec, <<>>, Picture(TRUE, 0, data))
Pictured(tags, codec, key, data) == Media0(tags, codec, <<>>, Picture(key, 0, data))
Start(tags, codec, config) == Media0(tags, codec, config, Config(config))
Ending(tags, codec) == Media0(tags, codec, <<>>, None)

(***************************************************************************)
(* Audio.                                                                  *)
(***************************************************************************)
Rate8k == 8000
Rate16k == 16000

Fixed(call, rate) == [call EXCEPT !.says.fixedRate = <<rate>>]

\* The writer of 8 kHz MP3 documents a rate pinned to 8 kHz as well (tag.rs:408-411);
\* the reader does not pin it, and nothing is expected of it here.
LegacyAudio(rate, wide, stereo, data) ==
  { Sound(WriteMp3(rate, wide, stereo, data), "mp3", data),
    Sound(WriteMp38k(wide, stereo, data), "mp3", data),
    Sound(WriteAacRaw(data), "aac", data),
    Start(WriteAacSequenceHeader(data), "aac", data),
    Sound(WritePcm(TRUE, rate, wide, stereo, data), "pcm_s16le", data),
    Sound(WritePcm(FALSE, rate, wide, stereo, data), "pcm_s16le", data),
    Sound(WriteAdpcm(rate, wide, stereo, data), "adpcm_swf", data),
    Sound(WriteALaw(rate, stereo, data), "pcm_alaw", data),
    Sound(WriteMuLaw(rate, stereo, data), "pcm_mulaw", data),
    Sound(WriteNellymoser(rate, stereo, data), "nellymoser", data),
    Fixed(Sound(WriteNellymoser8k(data), "nellymoser", data), Rate8k),
    Fixed(Sound(WriteNellymoser16k(data), "nellymoser", data), Rate16k),
    Fixed(Sound(WriteSpeex(data), "speex", data), Rate16k) }

\* The packet is documented for a silence behind the first audio body. For one in front
\* of it none is (tag.rs:439-441); the reader gives the same packet for both, and that
\* is what is expected here.
Silence == Media0(WriteSilence, "", <<>>, Side(TRUE, <<>>, <<>>))

AudioNames ==
  {<<Ac3, "ac3">>, <<Eac3, "eac3">>, <<Opus, "opus">>, <<ExMp3, "mp3">>, <<Flac, "flac">>, <<Mp4a, "aac">>}

ExAudio(name, data) ==
  { Start(WriteExAudioStart(name[1], data), name[2], data),
    Sound(WriteExAudioFrames(name[1], data), name[2], data),
    Ending(WriteExAudioSequenceEnd(name[1]), name[2]) }

(***************************************************************************)
(* Video.                                                                  *)
(***************************************************************************)
LegacyVideo(key, octet, offset, data) ==
  { Pictured(WriteH263(key, data), "flv1", key, data),
    Pictured(WriteVp6(key, data), "vp6f", key, data),
    Media0(WriteVp6a(key, octet, data), "vp6a", <<octet>>, Picture(key, 0, <<octet>> \o data)),
    Pictured(WriteScreen(key, data), "flashsv", key, data),
    Pictured(WriteScreen2(key, data), "flashsv2", key, data),
    Start(WriteAvcSequenceHeader(data), "h264", data),
    Media0(WriteAvcNalu(key, offset, data), "h264", <<>>, Picture(key, offset, data)),
    Ending(WriteAvcEndOfSequence, "h264"),
    Media0(WriteInfoCommand(octet), Unnamed(0, "flv:video:", ""), <<>>, Side(FALSE, <<octet>>, <<>>)) }

VideoNames ==
  {<<Av01, "av1">>, <<Vp09, "vp9">>, <<Vp08, "vp8">>, <<Hvc1, "h265">>, <<Avc1, "h264">>, <<Vvc1, "h266">>}

\* Only the codecs with B-frames take an offset.
ExCodedFrames(name, key, offset, data) ==
  IF name[1] \in Reordering
  THEN Media0(WriteCodedFrames(name[1], key, <<offset>>, data), name[2], <<>>, Picture(key, offset, data))
  ELSE Pictured(WriteCodedFrames(name[1], key, <<>>, data), name[2], key, data)

ExVideo(name, key, offset, data) ==
  { Start(WriteSequenceStart(name[1], data), name[2], data),
    ExCodedFrames(name, key, offset, data),
    Pictured(WriteHevcCodedFramesX(key, data), "h265", key, data),
    Ending(WriteExVideoSequenceEnd(name[1]), name[2]) }

(***************************************************************************)
(* Frames without media.  Other writers' layouts may end too early, and    *)
(* need not fit their count, and other writers' metadata frames hold       *)
(* anything.                                                               *)
(***************************************************************************)
SideAudio(tags, name, data, layout) ==
  Call(tags, [Nothing EXCEPT !.answer = Side(TRUE, data, <<>>), !.codec = name[2], !.layout = layout])

LayoutFrame(name, c) ==
  SideAudio(WriteMultichannelConfig(name[1], c), name, LayoutBytes(c), <<c>>)

ForeignLayout(name, bytes, layout) ==
  SideAudio(WriteExAudio(MultichannelType, name[1], bytes), name, bytes, layout)

Shaped(c) == (c.order = Native <=> c.flags # None) /\ (c.order = Custom <=> c.mapping # None)

Complete(c) == Shaped(c) /\ (c.order = Custom => Len(c.mapping[1]) = c.count)

EndsEarly(bytes) ==
  \/ Len(bytes) < 2
  \/ bytes[1] = Native /\ Len(bytes) < 3
  \/ bytes[1] = Custom /\ Len(bytes) < 2 + bytes[2]

LayoutFrames ==
  { LayoutFrame(name, c) : name \in AudioNames, c \in Layouts }
    \cup { ForeignLayout(name, bytes, None) :
             name \in AudioNames, bytes \in {p \in Payloads : EndsEarly(p)} }
    \cup { ForeignLayout(name, LayoutBytes(c) \o rest, <<c>>) :
             name \in AudioNames, c \in {l \in Layouts : Complete(l)}, rest \in Payloads }

SideVideo(tags, name, amf, color) ==
  Call(tags, [Nothing EXCEPT !.answer = Side(TRUE, <<>>, amf), !.codec = name[2], !.color = color])

ColorFrame(name, ci) == SideVideo(WriteColorInfo(name[1], ci), name, EncodeColor(ci), <<ci>>)

ColorReset(name) ==
  SideVideo(WriteColorInfoReset(name[1]), name, <<String("colorInfo"), Undefined>>, << <<>> >>)

ForeignFrame(name, amf, color) == SideVideo(WriteExVideoMetadata(name[1], amf), name, amf, color)

ColorFrames ==
  { ColorFrame(name, ci) : name \in VideoNames, ci \in ColorInfos }
    \cup { ColorReset(name) : name \in VideoNames }
    \cup { ForeignFrame(name, amf, color) :
             name \in VideoNames, amf \in AmfBodies, color \in {None} \cup {<<ci>> : ci \in ColorInfos} }

(***************************************************************************)
(* Every call of a writer of media tags.                                   *)
(***************************************************************************)
MediaCalls ==
  {Silence} \cup LayoutFrames \cup ColorFrames
    \cup UNION ({ LegacyAudio(rate, wide, stereo, data) :
                    rate \in 0 .. 3, wide \in BOOLEAN, stereo \in BOOLEAN, data \in Payloads }
                \cup { ExAudio(name, data) : name \in AudioNames, data \in Payloads }
                \cup { LegacyVideo(key, octet, offset, data) :
                         key \in BOOLEAN, octet \in Octets, offset \in Offsets, data \in Payloads }
                \cup { ExVideo(name, key, offset, data) :
                         name \in VideoNames, key \in BOOLEAN, offset \in Offsets, data \in Payloads })

\* A call of a writer of script tags: no packet comes of it.
IsScriptCall(c) ==
  /\ c.tags # Refused => c.tags[1].kind = "script"
  /\ c.says.answer = None /\ c.says.layout = None
=============================================================================
