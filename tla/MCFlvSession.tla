----------------------------- MODULE MCFlvSession -----------------------------
(***************************************************************************)
(* Three producers: one calls every writer of media tags, one the builders *)
(* of script tags, one changes speaker layout and colour in mid-file.      *)
(* Payloads are one byte; what each call says is what its writer documents *)
(* for the reader.                                                         *)
(***************************************************************************)
EXTENDS FlvSessionProps, ScriptBuilders

D0 == <<77>>            \* a payload, and a decoder configuration
C0 == <<66>>
Far == -8388608         \* the least offset that fits

SomeOctets == {1, 9}
SomeOffsets == {-7, 0, Far, 8388607, 8388608}

SpeexCall == Fixed(Sound(WriteSpeex(D0), "speex", D0), 16000)
OpusFrames == Sound(WriteExAudioFrames(Opus, D0), "opus", D0)

AudioCalls ==
  LegacyAudio(3, TRUE, TRUE, D0) \cup LegacyAudio(1, FALSE, FALSE, C0) \cup {Silence}
    \cup UNION {ExAudio(name, D0) : name \in {<<Flac, "flac">>, <<Mp4a, "aac">>}}
    \cup { Sound(WriteExAudioFrames(name[1], D0), name[2], D0) : name \in AudioNames }

AvcNalu(key, offset) == Media0(WriteAvcNalu(key, offset, D0), "h264", <<>>, Picture(key, offset, D0))
AvcKey == AvcNalu(TRUE, 0)
AvcStart == Start(WriteAvcSequenceHeader(C0), "h264", C0)

VideoCalls ==
  LegacyVideo(TRUE, 9, 0, D0) \cup LegacyVideo(FALSE, 1, Far, C0) \cup {AvcNalu(FALSE, 8388608)}
    \cup UNION { ExVideo(name, FALSE, -7, D0) : name \in {<<Hvc1, "h265">>, <<Av01, "av1">>} }
    \cup { ExCodedFrames(name, TRUE, 8388607, D0) : name \in VideoNames }
    \cup { ExCodedFrames(<<Hvc1, "h265">>, TRUE, 8388608, D0) }

(***************************************************************************)
(* Script tags.                                                            *)
(***************************************************************************)
\* The properties that have a typed accessor.
Described(members) ==
  Call(WriteOnMetadata(members), [Nothing EXCEPT !.properties = members])

Full == Described(<< Member("duration", Number(9)), Member("width", Number(640)),
  Member("height", Number(360)), Member("videoframerate", Number(30)), Member("framerate", Number(25)),
  Member("videodatarate", Number(500)), Member("audiodatarate", Number(128)),
  Member("audiosamplerate", Number(48000)), Member("audiosamplesize", Number(8)),
  Member("stereo", Boolean(TRUE)), Member("videocodecid", Number(H264)),
  Member("audiocodecid", Number(Opus)), Member("creationdate", Date(7, -60)) >>)

Terse == Described(<< Member("width", Number(1280)), Member("framerate", Number(24)),
  Member("audiodelay", Number(-2)), Member("moovposition", Number(0)),
  Member("stereo", Boolean(FALSE)), Member("audiosamplesize", Number(24)),
  Member("audiosamplerate", Number(0)), Member("videocodecid", String("avc1")) >>)

\* First entries of no use: the typed view has no width, the stream may have one. The
\* numbers that 32 bits do not hold are no sizes, but the view shows such a rate.
TooWide == MaxU32 + 1

Unclear == Described(<<Member("width", String("wide")), Member("height", Number(Infinite)),
  Member("audiosamplesize", Number(TooWide)), Member("audiosamplerate", Number(TooWide))>>)

Relayed == Call(WriteScript("onMetaData", TypedObject("Meta", <<Member("width", Number(320))>>)),
                [Nothing EXCEPT !.properties = <<Member("width", Number(320))>>])

Table(ps, ts) ==
  Call(WriteOnMetadata(With(Bag, "keyframes", Keyframes(ps, ts))),
       [Nothing EXCEPT !.index = <<[positions |-> ps, times |-> ts]>>])

ForeignTable ==
  Call(WriteScript("onMetaData", Object(<<Member("keyframes",
         Object(<<Member("times", Numbers(<<0>>)), Member("filepositions", Numbers(<<-1>>))>>))>>)),
       Nothing)

Stated0(kind, id, info) ==
  LET names == SelectSeq(TrackFields[kind], LAMBDA f : f \in DOMAIN info)
  IN [i \in 1 .. Len(names) |-> [kind |-> kind, id |-> id, field |-> names[i], value |-> info[names[i]]]]

TrackMap(kind, map) ==
  Call(WriteOnMetadata(WithTrackMap(Bag, kind, map)),
       [Nothing EXCEPT !.tracks = FlattenSeq([i \in 1 .. Len(map) |-> Stated0(kind, map[i].id, map[i].info)])])

Variants ==
  TrackMap("video", << [id |-> 2, info |-> [width |-> 320, height |-> 180]],
                       [id |-> 1, info |-> [width |-> 160, videocodecid |-> Av01, framerate |-> 15]],
                       [id |-> 0, info |-> [width |-> 640]],
                       [id |-> 2, info |-> [width |-> 99]], [id |-> 3, info |-> <<>>] >>)
LaterVariants ==
  TrackMap("video", <<[id |-> 3, info |-> [width |-> 80]], [id |-> 1, info |-> [height |-> 90]]>>)
Languages ==
  TrackMap("audio", <<[id |-> 1, info |-> [channels |-> 6, samplerate |-> 44100, audiodatarate |-> 96]]>>)

Cue(name, type, parameters) ==
  Call(WriteOnCuePoint(name, 3, type, parameters), [Nothing EXCEPT !.cue = <<name>>])
ForeignCue(v) == Call(WriteScript("onCuePoint", v), Nothing)

Image(data, track) ==
  Call(WriteOnImageData(data, track), [Nothing EXCEPT !.image = <<[data |-> data, track |-> track]>>])
NoImage(v) == Call(WriteScript("onImageData", v), Nothing)

Xmp(s) == Call(WriteOnXmpData(s), [Nothing EXCEPT !.xmp = <<s>>])
Header(h) == Call(WriteAdditionalHeader(h), [Nothing EXCEPT !.headline = <<h>>])
Odd == Call(WriteScript("onTextData", AvmPlus(Parts("object3", "T", TRUE, <<Member("text", Null)>>, <<Undefined>>))),
            Nothing)
Numberless == Call(Wrote("script", <<>>, <<Number(1), Null>>), Nothing)
ForeignXmp == Call(WriteScript("onXMPData", Xml("bare")), [Nothing EXCEPT !.xmp = <<"bare">>])

Scripts ==
  { Full, Terse, Unclear, Relayed, ForeignTable, Variants, LaterVariants, Languages,
    Table(<<100, 200>>, <<0, 1>>), Table(<<100, 200>>, <<1, 0>>), Table(<<300>>, <<0>>), Table(<<>>, <<>>),
    Cue("a", "event", <<Member("p", String("q"))>>), Cue("b", "navigation", <<>>),
    ForeignCue(StrictArray(<<Number(1), Reference(0), Unsupported>>)), ForeignCue(Number(1)),
    Image(D0, <<2>>), Image(C0 \o C0, None), NoImage(AvmPlus(Object3("", <<Member("data", Null)>>))),
    Xmp("x"), ForeignXmp, Header(FlashAccessV2), Header(FmrmsV1), Odd, Numberless }

Described0 == {Full, Terse, Unclear, Relayed}

(***************************************************************************)
(* Frames without media.                                                   *)
(***************************************************************************)
OfOpus == <<Opus, "opus">>
OfHevc == <<Hvc1, "h265">>

Stereo == Layout(Native, 2, None, <<3>>)
Reserved == Layout(7, 0, None, None)

\* Of its count, the last but one, and the rest not, or not shaped as a layout is.
SomeLayouts ==
  { Stereo, Layout(Custom, 3, <<<<0, 1, 2>>>>, None), Layout(Unspecified, 0, None, None),
    Layout(Custom, 2, <<<<Unused, 30>>>>, None), Reserved,
    Layout(Native, 6, None, <<3>>), Layout(Native, 25, None, <<16777219>>),
    Layout(Custom, 2, <<<<0>>>>, None) }

SomePayloads == {D0, C0, <<>>, <<Custom, 4, 1>>}

LayoutCalls ==
  { LayoutFrame(OfOpus, c) : c \in SomeLayouts }
    \cup { ForeignLayout(OfOpus, <<Custom, 4, 1>>, None),
           ForeignLayout(OfOpus, LayoutBytes(Layout(Native, 6, None, <<3>>)) \o D0,
                         <<Layout(Native, 6, None, <<3>>)>>),
           ForeignLayout(OfOpus, LayoutBytes(Reserved), <<Reserved>>) }

Pq == [colorConfig |-> [bitDepth |-> 10, transferCharacteristics |-> 16]]
Hdr == [colorConfig |-> [colorPrimaries |-> 9, matrixCoefficients |-> 9], hdrCll |-> [maxFall |-> 4000000],
        hdrMdcv |-> [redX |-> 6800, maxLuminance |-> 10000000]]
Loud == [hdrCll |-> [maxCLL |-> 0]]

SomeColors == {Pq, Hdr, Loud, <<>>}

\* What other writers put into a metadata frame, and the colour it shows, if any.
ForeignBodies ==
  { [amf |-> <<String("colorInfo"), Object(<<>>)>>, color |-> << <<>> >>],
    [amf |-> <<String("colorInfo"), StrictArray(<<Number(1)>>)>>, color |-> << <<>> >>],
    [amf |-> EncodeColor(Hdr) \o EncodeColor(Pq), color |-> <<Pq>>],
    [amf |-> EncodeColor(Pq) \o <<Null>> \o EncodeColor(Hdr), color |-> <<Pq>>],
    [amf |-> <<String("colorInfo")>>, color |-> None],
    [amf |-> <<String("width"), Number(1)>>, color |-> None] }

SomeBodies == {body.amf : body \in ForeignBodies}

ColorCalls ==
  { ColorFrame(OfHevc, ci) : ci \in SomeColors \ {<<>>} } \cup {ColorReset(OfHevc)}
    \cup { ForeignFrame(OfHevc, body.amf, body.color) : body \in ForeignBodies }

(***************************************************************************)
(* The producers.                                                          *)
(***************************************************************************)
SomeModes == {"media", "script", "frames"}

SomeCalls ==
  [media  |-> AudioCalls \cup VideoCalls \cup Described0,
   script |-> Scripts \cup {AvcKey, OpusFrames},
   frames |-> LayoutCalls \cup ColorCalls \cup {SpeexCall, Silence, Full, AvcStart}]

SomeLengths == [media |-> 2, script |-> 3, frames |-> 3]
=============================================================================
