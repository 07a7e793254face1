----------------------------- MODULE TagWriters -----------------------------
(***************************************************************************)
(* The writers of tag.rs for media tags, and the demuxer's reading of what *)
(* they write.                                                             *)
(*                                                                         *)
(* A tag is its kind, the fields of its body up to an AMF payload, and the *)
(* AMF values of that payload (for a script tag: the name and the value).  *)
(* A field is a byte, or a FourCC, an SI24 or an UI32 as one number.  A    *)
(* writer gives what it appends to the file: one tag, or, when it returns  *)
(* an error, none.                                                         *)
(***************************************************************************)
EXTENDS FlvTags, TLC

Wrote(kind, fields, amf) == <<[kind |-> kind, fields |-> fields, amf |-> amf]>>

Refused == <<>>

Bit(b) == IF b THEN 1 ELSE 0

(***************************************************************************)
(* Legacy audio: SoundFormat, SoundRate, SoundSize and SoundType in a byte.*)
(***************************************************************************)
LpcmNative == 0
Adpcm == 1
Mp3 == 2
LpcmLe == 3
Nellymoser16k == 4
Nellymoser8k == 5
Nellymoser == 6
ALaw == 7
MuLaw == 8
Aac == 10
Speex == 11
Mp38k == 14
DeviceSpecific == 15

SoundByte(codec, rate, wide, stereo) == codec * 16 + (rate % 4) * 4 + Bit(wide) * 2 + Bit(stereo)

WriteAudio(byte, payload) == Wrote("audio", <<byte>> \o payload, <<>>)

WriteMp3(rate, wide, stereo, data) == WriteAudio(SoundByte(Mp3, rate, wide, stereo), data)
WriteMp38k(wide, stereo, data) == WriteAudio(SoundByte(Mp38k, 0, wide, stereo), data)
WriteAacRaw(au) == WriteAudio(SoundByte(Aac, 3, TRUE, TRUE), <<1>> \o au)
WriteAacSequenceHeader(asc) == WriteAudio(SoundByte(Aac, 3, TRUE, TRUE), <<0>> \o asc)
WritePcm(little, rate, wide, stereo, data) ==
  WriteAudio(SoundByte(IF little THEN LpcmLe ELSE LpcmNative, rate, wide, stereo), data)
WriteAdpcm(rate, wide, stereo, data) == WriteAudio(SoundByte(Adpcm, rate, wide, stereo), data)
WriteALaw(rate, stereo, data) == WriteAudio(SoundByte(ALaw, rate, TRUE, stereo), data)
WriteMuLaw(rate, stereo, data) == WriteAudio(SoundByte(MuLaw, rate, TRUE, stereo), data)
WriteNellymoser(rate, stereo, data) == WriteAudio(SoundByte(Nellymoser, rate, TRUE, stereo), data)
WriteNellymoser8k(data) == WriteAudio(SoundByte(Nellymoser8k, 0, TRUE, FALSE), data)
WriteNellymoser16k(data) == WriteAudio(SoundByte(Nellymoser16k, 0, TRUE, FALSE), data)
WriteSpeex(data) == WriteAudio(SoundByte(Speex, 0, TRUE, FALSE), data)
WriteSilence == Wrote("audio", <<>>, <<>>)

(***************************************************************************)
(* Legacy video: FrameType and CodecID in a byte.                          *)
(***************************************************************************)
Jpeg == 1
Flv1 == 2
ScreenV1 == 3
Vp6 == 4
Vp6a == 5
ScreenV2 == 6
H264 == 7

KeyFrame == 1
InterFrame == 2
DisposableFrame == 3
GeneratedKeyFrame == 4
CommandFrame == 5

FrameOf(key) == IF key THEN KeyFrame ELSE InterFrame

WriteVideo(frame, codec, payload) == Wrote("video", <<frame * 16 + codec>> \o payload, <<>>)

WriteH263(key, data) == WriteVideo(FrameOf(key), Flv1, data)
WriteVp6(key, data) == WriteVideo(FrameOf(key), Vp6, data)
WriteVp6a(key, alpha, data) == WriteVideo(FrameOf(key), Vp6a, <<alpha>> \o data)
WriteScreen(key, data) == WriteVideo(FrameOf(key), ScreenV1, data)
WriteScreen2(key, data) == WriteVideo(FrameOf(key), ScreenV2, data)

\* 2^23 and 2^24.
Half24 == 8388608
Whole24 == 16777216

FitsSI24(c) == -Half24 <= c /\ c < Half24

\* Mutant: what does not fit is cut to its low 24 bits.
WriteAvcNaluAny(key, cto, au) == WriteVideo(FrameOf(key), H264, <<1, cto % Whole24>> \o au)

WriteAvcSequenceHeader(config) == WriteVideo(KeyFrame, H264, <<0, 0>> \o config)
WriteAvcNalu(key, cto, au) ==
  IF FitsSI24(cto) THEN WriteVideo(FrameOf(key), H264, <<1, cto % Whole24>> \o au) ELSE Refused
WriteAvcEndOfSequence == WriteVideo(DisposableFrame, H264, <<2, 0>>)
WriteInfoCommand(command) == WriteVideo(CommandFrame, 0, <<command>>)

(***************************************************************************)
(* Enhanced RTMP: an Ex header with one track and no ModEx, then the       *)
(* payload.  The codecs with B-frames carry an SI24 with coded frames.     *)
(***************************************************************************)
Av01 == 1635135537
Vp09 == 1987063865
Vp08 == 1987063864
Hvc1 == 1752589105
Avc1 == 1635148593
Vvc1 == 1987470129
Ac3 == 1633889587
Eac3 == 1700998451
Opus == 1332770163
ExMp3 == 778924083
Flac == 1716281667
Mp4a == 1836069985

Reordering == {Hvc1, Avc1, Vvc1}

SequenceStart == 0
CodedFrames == 1
SequenceEnd == 2
CodedFramesX == 3
Metadata == 4            \* of ExPacketType; of ExAudioPacketType, MultichannelConfig
MultichannelType == 4

ExByte(marker, high, packet) == marker + high * 16 + packet

\* ExVideoTagHeader::to_bytes for one track: the offset goes with the coded
\* frames of the reordering codecs and with nothing else.
WriteExVideo(frame, packet, fourcc, cto, payload, amf) ==
  IF (packet = CodedFrames /\ fourcc \in Reordering) # (cto # <<>>)
       \/ (cto # <<>> /\ ~FitsSI24(cto[1]))
  THEN Refused
  ELSE Wrote("video", <<ExByte(128, frame, packet), fourcc>>
                        \o [i \in 1 .. Len(cto) |-> cto[i] % Whole24] \o payload, amf)

WriteExAudio(packet, fourcc, payload) ==
  Wrote("audio", <<ExByte(0, 9, packet), fourcc>> \o payload, <<>>)

WriteSequenceStart(fourcc, config) ==
  WriteExVideo(KeyFrame, SequenceStart, fourcc, <<>>, config, <<>>)
WriteCodedFrames(fourcc, key, cto, data) ==
  WriteExVideo(FrameOf(key), CodedFrames, fourcc, cto, data, <<>>)
WriteHevcCodedFramesX(key, data) ==
  WriteExVideo(FrameOf(key), CodedFramesX, Hvc1, <<>>, data, <<>>)
WriteExVideoSequenceEnd(fourcc) ==
  WriteExVideo(KeyFrame, SequenceEnd, fourcc, <<>>, <<>>, <<>>)
WriteExVideoMetadata(fourcc, amf) ==
  WriteExVideo(KeyFrame, Metadata, fourcc, <<>>, <<>>, amf)

WriteExAudioStart(fourcc, config) == WriteExAudio(SequenceStart, fourcc, config)
WriteExAudioFrames(fourcc, data) == WriteExAudio(CodedFrames, fourcc, data)
WriteExAudioSequenceEnd(fourcc) == WriteExAudio(SequenceEnd, fourcc, <<>>)

(***************************************************************************)
(* The demuxer's reading.                                                  *)
(***************************************************************************)
SoundFormat(t) == t.fields[1] \div 16
IsEx(t) == /\ t.fields # <<>>
           /\ IF t.kind = "audio" THEN SoundFormat(t) = 9 ELSE t.fields[1] >= 128

Field(t, i, default) == IF i <= Len(t.fields) THEN t.fields[i] ELSE default

FrameTypeOf(t) == (t.fields[1] % 128) \div 16
ExPacket(t) == t.fields[1] % 16
VideoCodec(t) == t.fields[1] % 16

SignExtended(raw) == IF raw >= Half24 THEN raw - Whole24 ELSE raw

HasOffset(t) == t.kind = "video" /\ IsEx(t) /\ ExPacket(t) = CodedFrames /\ t.fields[2] \in Reordering

ExUnit(t) ==
  CASE ExPacket(t) = SequenceStart -> "config"
    [] ExPacket(t) = CodedFrames -> "data"
    [] ExPacket(t) = SequenceEnd -> "end"
    [] ExPacket(t) = CodedFramesX /\ t.kind = "video" -> "dataX"
    [] ExPacket(t) = Metadata -> "info"
    [] OTHER -> "other"

\* AACPacketType and AVCPacketType.
LegacyUnit(n) == IF n = 0 THEN "config" ELSE IF n = 1 THEN "data" ELSE IF n = 2 THEN "end" ELSE "short"

IsAac(t) == t.kind = "audio" /\ ~IsEx(t) /\ SoundFormat(t) = Aac
IsAvc(t) == t.kind = "video" /\ ~IsEx(t) /\ VideoCodec(t) = H264

\* The body as FlvTags describes it.
AsBody(t) ==
  [form |-> IF t.fields = <<>> THEN "empty" ELSE IF IsEx(t) THEN "ex" ELSE "legacy",
   codec |-> IF t.fields = <<>> THEN "plain"
             ELSE IF IsAvc(t) \/ HasOffset(t) THEN "avc" ELSE IF IsAac(t) THEN "aac" ELSE "plain",
   frame |-> IF t.kind = "audio" THEN "inter"
             ELSE IF FrameTypeOf(t) \in {KeyFrame, GeneratedKeyFrame} THEN "key"
             ELSE IF FrameTypeOf(t) = CommandFrame THEN "command" ELSE "inter",
   unit  |-> IF t.fields = <<>> THEN "short"
             ELSE IF IsEx(t) THEN ExUnit(t)
             ELSE IF IsAac(t) \/ IsAvc(t) THEN LegacyUnit(Field(t, 2, 3)) ELSE "data",
   multitrack |-> FALSE, tracks |-> <<>>, modex |-> "none",
   cto  |-> IF t.fields # <<>> /\ (IsAvc(t) \/ HasOffset(t))
            THEN SignExtended(Field(t, 3, 0)) ELSE 0,
   info |-> "some"]

\* Where the data starts: behind the sound or frame byte, the packet type and
\* the offset, or behind the Ex header.
DataStart(t) ==
  IF t.fields = <<>> THEN 1
  ELSE IF IsEx(t) THEN IF HasOffset(t) THEN 4 ELSE 3
  ELSE IF IsAac(t) THEN 3
  ELSE IF IsAvc(t) /\ FrameTypeOf(t) # CommandFrame THEN 4 ELSE 2

DataOf(t) == SubSeq(t.fields, DataStart(t), Len(t.fields))

\* A legacy codec is a number of four bits; a FourCC is a larger one.
Unnamed(id, family, fourccs) == (IF id <= 255 THEN family ELSE fourccs) \o ToString(id)

AudioCodecStr(id) ==
  CASE id \in {LpcmNative, LpcmLe} -> "pcm_s16le" [] id = Adpcm -> "adpcm_swf"
    [] id \in {Mp3, Mp38k, ExMp3} -> "mp3" [] id = ALaw -> "pcm_alaw" [] id = MuLaw -> "pcm_mulaw"
    [] id \in {Nellymoser16k, Nellymoser8k, Nellymoser} -> "nellymoser"
    [] id \in {Aac, Mp4a} -> "aac" [] id = Speex -> "speex"
    [] id = DeviceSpecific -> "flv:audio:device"
    [] id = Ac3 -> "ac3" [] id = Eac3 -> "eac3" [] id = Opus -> "opus" [] id = Flac -> "flac"
    [] OTHER -> Unnamed(id, "flv:audio:", "flv:exaudio:")

VideoCodecStr(id) ==
  CASE id = Jpeg -> "mjpeg" [] id = Flv1 -> "flv1" [] id = ScreenV1 -> "flashsv"
    [] id = Vp6 -> "vp6f" [] id = Vp6a -> "vp6a" [] id = ScreenV2 -> "flashsv2"
    [] id \in {H264, Avc1} -> "h264" [] id = Av01 -> "av1" [] id = Vp09 -> "vp9"
    [] id = Vp08 -> "vp8" [] id = Hvc1 -> "h265" [] id = Vvc1 -> "h266"
    [] OTHER -> Unnamed(id, "flv:video:", "flv:exvideo:")
=============================================================================
