--------------------------- MODULE MetadataReader ---------------------------
(***************************************************************************)
(* How demuxer.rs reads script tags into its state, and how it describes   *)
(* the streams from the first body of each kind and the metadata read by   *)
(* then.                                                                   *)
(*                                                                         *)
(* What the discovery loop has found:                                      *)
(*   bag        the metadata, in order                                     *)
(*   images     the embedded images                                        *)
(*   duration, index, headline, xmp   each None or what was found          *)
(***************************************************************************)
EXTENDS ScriptWriters

NothingFound ==
  [bag |-> <<>>, images |-> <<>>, duration |-> None, index |-> None, headline |-> None, xmp |-> None]

Adding(d, entries) == [d EXCEPT !.bag = @ \o entries]

(***************************************************************************)
(* onMetaData.                                                             *)
(***************************************************************************)
AllNumbers(v) == \A i \in 1 .. Len(v.items) : v.items[i].m = "number" /\ IsFinite(v.items[i].text.n)

NumbersOf(v) == [i \in 1 .. Len(v.items) |-> v.items[i].text.n]

AnyNegative(v) == \E i \in 1 .. Len(v.items) : v.items[i].text.n < 0

\* The members of an object that are strict arrays.
Arrays(v) == {i \in 1 .. Len(v.members) : v.members[i].value.m = "strict"}

LastArray(v, name) ==
  LET at == {i \in Arrays(v) : v.members[i].key = name}
  IN IF at = {} THEN None ELSE <<NumbersOf(v.members[CHOOSE i \in at : \A j \in at : j <= i].value)>>

\* parse_keyframes_object: any array in it that is not all numbers spoils it.
ParseKeyframes(v) ==
  IF v.m = "typed" THEN None
  ELSE LET positions == LastArray(v, "filepositions")
           times == LastArray(v, "times")
       IN IF \/ \E i \in Arrays(v) : ~AllNumbers(v.members[i].value)
             \/ \E i \in Arrays(v) : v.members[i].key = "filepositions" /\ AnyNegative(v.members[i].value)
             \/ positions = None \/ times = None
          THEN None
          ELSE IF positions[1] # <<>> /\ Len(positions[1]) = Len(times[1]) /\ Sorted(times[1])
               THEN <<[positions |-> positions[1], times |-> times[1]]>> ELSE None

DurationAfter(d, name, v) ==
  IF name = "duration" /\ d.duration = None /\ v.m = "number" /\ IsFinite(v.text.n) /\ v.text.n >= 0
  THEN <<v.text.n>> ELSE d.duration

IsTrackMap(name) == name \in {TrackMapName["video"], TrackMapName["audio"]}

LoweredMap(name) ==
  IF name = TrackMapName["video"] THEN "videotrackidinfomap" ELSE "audiotrackidinfomap"

\* One property. The first keyframes object is taken for the seek table,
\* whether it parses or not; another one goes into the bag.
TakeProperty(d, name, v) ==
  IF v.m \in Composites0 /\ name = "keyframes" /\ d.index = None
  THEN [d EXCEPT !.index = ParseKeyframes(v)]
  ELSE Adding([d EXCEPT !.duration = DurationAfter(d, name, v)],
              Flatten(v, <<IF v.m \in Composites0 /\ IsTrackMap(name) THEN LoweredMap(name) ELSE name>>))

TakeMetaData(d, v) ==
  IF v.m \notin Composites0 THEN d
  ELSE FoldLeft(LAMBDA e, p : TakeProperty(e, p.key, p.value),
                IF v.m = "typed" THEN Adding(d, <<Entry(<<"scriptdata", "class">>, Word(v.class))>>) ELSE d,
                v.members)

(***************************************************************************)
(* The other names.                                                        *)
(***************************************************************************)
\* xmp_liveXML: the first liveXML that is text, or a bare text.
LiveXml(v) ==
  IF v.m \in {"string", "xml"} THEN <<v.text.s>>
  ELSE IF v.m \notin Composites0 THEN None
  ELSE LET texts == SelectSeq(v.members, LAMBDA p : p.key = "liveXML" /\ p.value.m \in {"string", "xml"})
       IN IF texts = <<>> THEN None ELSE <<texts[1].value.text.s>>

TakeXmp(d, v) == IF LiveXml(v) = None THEN d ELSE [d EXCEPT !.xmp = LiveXml(v)]

CueNumbers == 0 .. 9     \* bound: the cue numbers the model has a name for

\* The number a key has between its first two dots: 0 when it does not parse.
CueNumber(key) ==
  IF \E n \in CueNumbers : key[2] = ToString(n)
  THEN CHOOSE n \in CueNumbers : key[2] = ToString(n) ELSE 0

\* Mutant: cues are counted, not numbered after the highest.
NextCueCounted(bag) == Cardinality({i \in 1 .. Len(bag) : Under(<<"cuepoint">>, bag[i].key)})

NextCue(bag) ==
  LET cues == {i \in 1 .. Len(bag) : Under(<<"cuepoint">>, bag[i].key)}
  IN IF cues = {} THEN 0
     ELSE 1 + CHOOSE n \in {CueNumber(bag[i].key) : i \in cues} :
                \A i \in cues : CueNumber(bag[i].key) <= n

TakeCue(d, v) == Adding(d, Flatten(v, <<"cuepoint", ToString(NextCue(d.bag))>>))

TrackIdOf(inner) ==
  LET id == Get3(inner, "trackid")
  IN IF id = None THEN None
     ELSE IF id[1].m = "number" /\ IsFinite(id[1].text.n) /\ FitsU32(id[1].text.n) THEN <<id[1].text.n>> ELSE None

ImageKey(n, field) == <<"onimagedata", ToString(n), field>>

TakeImage(d, v) ==
  IF v.m # "avmplus" THEN d
  ELSE LET data == Get3(v.inner, "data")
           id == TrackIdOf(v.inner)
           n == Len(d.images)
       IN IF data = None THEN d
          ELSE IF data[1].m # "bytes" THEN d
          ELSE [Adding(d, [i \in 1 .. Len(id) |-> Entry(ImageKey(n, "trackid"), Numeral(id[i]))]
                            \o <<Entry(ImageKey(n, "length"), Numeral(Len(data[1].data)))>>)
                  EXCEPT !.images = Append(@, [data |-> data[1].data, track |-> id])]

\* Option::and_then: the member of what may be there, if it has the marker.
Step(v, name) == IF v = None THEN None ELSE Get(v[1], name)
OfKind(v, m) == IF v # None /\ v[1].m = m THEN <<v[1].text>> ELSE None

\* parse_additional_header: what is missing or of the wrong type is left out.
Headline(v) ==
  LET enc == Get(v, "Encryption")
      params == Step(enc, "Params")
  IN IF enc = None THEN None
     ELSE << [version |-> OfKind(Step(enc, "Version"), "number"),
              method |-> OfKind(Step(enc, "Method"), "string"),
              algorithm |-> OfKind(Step(params, "EncryptionAlgorithm"), "string"),
              keyLength |-> OfKind(Step(Step(params, "EncryptionParams"), "KeyLength"), "number"),
              subtype |-> OfKind(Step(Step(params, "KeyInfo"), "SubType"), "string")] >>

TakeUnknown(d, name, v) ==
  Adding(d, <<Entry(<<"scriptdata", "name">>, Word(name))>> \o Flatten(v, <<"scriptdata", name>>))

\* parse_script_body: a body without a name and a value changes nothing.
ParseScriptTag(d, amf) ==
  IF Len(amf) < 2 \/ amf[1].m # "string" THEN d
  ELSE LET name == amf[1].text.s
           v == amf[2]
       IN CASE name = "onMetaData" -> TakeMetaData(d, v)
            [] name = "onXMPData" -> TakeXmp(d, v)
            [] name = "onCuePoint" -> TakeCue(d, v)
            [] name = "onImageData" -> TakeImage(d, v)
            [] name = "|AdditionalHeader" -> [d EXCEPT !.headline = Headline(v)]
            [] OTHER -> TakeUnknown(d, name, v)

\* The end of open_concrete: the headline and the XMP packet go into the bag.
HeadlineFields == <<"version", "method", "algorithm", "key_length", "key_subtype">>

HeadlineText(h, field) ==
  CASE field = "key_length" -> h.keyLength [] field = "key_subtype" -> h.subtype
    [] OTHER -> h[field]

Published(d) ==
  d.bag
    \o (IF d.headline = None THEN <<>>
        ELSE <<Entry(<<"encryption">>, Word("true"))>>
               \o FlattenSeq([i \in 1 .. Len(HeadlineFields) |->
                    LET text == HeadlineText(d.headline[1], HeadlineFields[i])
                    IN [j \in 1 .. Len(text) |-> Entry(<<"encryption", HeadlineFields[i]>>, text[j])]]))
    \o [i \in 1 .. Len(d.xmp) |-> Entry(<<"xmp">>, Word(d.xmp[i]))]

(***************************************************************************)
(* Streams.                                                                *)
(***************************************************************************)
Usable(text) == text.is = "number" /\ IsFinite(text.n)

\* Mutant: the last usable entry of that key.
LookupNumberLast(bag, name, Accepted) ==
  LET fit == SelectSeq(bag, LAMBDA e : e.key = <<name>> /\ Usable(e.text) /\ e.text.n \in Accepted)
  IN IF fit = <<>> THEN None ELSE <<Last(fit).text.n>>

U32 == 0 .. MaxU32

\* metadata_lookup_u32 (U32) and _f64 (Int): the first usable entry of that key.
LookupNumber(bag, name, Accepted) ==
  LET fit == SelectSeq(bag, LAMBDA e : e.key = <<name>> /\ Usable(e.text) /\ e.text.n \in Accepted)
  IN IF fit = <<>> THEN None ELSE <<fit[1].text.n>>

NonNegative(n) == n >= 0

\* metadata_lookup_bool: the first entry of that key decides.
LookupBool(bag, name) ==
  CASE Find(bag, <<name>>) = <<Word("true")>> -> <<TRUE>>
    [] Find(bag, <<name>>) = <<Word("false")>> -> <<FALSE>>
    [] OTHER -> None

OrElse(a, b) == IF a = None THEN b ELSE a

KeptIf(v, Accepts(_)) == IF v # None /\ Accepts(v[1]) THEN v ELSE None

Positive(n) == n > 0

\* Kilobits per second in the metadata.
BitRate(bag, name) ==
  LET kbps == KeptIf(LookupNumber(bag, name, Int), NonNegative)
  IN [i \in 1 .. Len(kbps) |-> kbps[i] * 1000]

RateStated(bag) == KeptIf(LookupNumber(bag, "audiosamplerate", U32), Positive)

ChannelsStated(bag) ==
  LET stereo == LookupBool(bag, "stereo") IN [i \in 1 .. Len(stereo) |-> IF stereo[i] THEN 2 ELSE 1]

FormatStated(bag) ==
  CASE LookupNumber(bag, "audiosamplesize", U32) = <<8>> -> <<"u8">>
    [] LookupNumber(bag, "audiosamplesize", U32) = <<16>> -> <<"s16">>
    [] OTHER -> None

\* Nellymoser 8/16 kHz and Speex have one rate and one channel whatever is said.
SpecFixed == {Nellymoser8k, Nellymoser16k, Speex}

RateIndex(t) == (t.fields[1] \div 4) % 4

HeaderRate(t) ==
  CASE SoundFormat(t) \in {Mp38k, Nellymoser8k} -> 8000
    [] SoundFormat(t) \in {Nellymoser16k, Speex} -> 16000
    [] SoundFormat(t) = Aac -> 44100
    [] OTHER -> <<5512, 11025, 22050, 44100>>[RateIndex(t) + 1]

HeaderChannels(t) == IF SoundFormat(t) \notin SpecFixed /\ t.fields[1] % 2 = 1 THEN 2 ELSE 1

HeaderFormat(t) == IF (t.fields[1] \div 2) % 2 = 1 THEN "s16" ELSE "u8"

\* The bytes behind the Ex header of a sequence start.
ExConfig(t) == IF ExPacket(t) = SequenceStart THEN DataOf(t) ELSE <<>>

ExAudioStream(t, bag) ==
  [codec |-> AudioCodecStr(t.fields[2]), rate |-> RateStated(bag),
   channels |-> ChannelsStated(bag), format |-> FormatStated(bag),
   bitRate |-> BitRate(bag, "audiodatarate"), extradata |-> ExConfig(t)]

\* Mutant: the metadata moves a format off its one rate and channel.
LegacyAudioStreamAsTold(t, bag) ==
  [codec |-> AudioCodecStr(SoundFormat(t)),
   rate |-> OrElse(RateStated(bag), <<HeaderRate(t)>>),
   channels |-> OrElse(ChannelsStated(bag), <<HeaderChannels(t)>>),
   format |-> OrElse(FormatStated(bag), <<HeaderFormat(t)>>),
   bitRate |-> BitRate(bag, "audiodatarate"),
   extradata |-> IF IsAac(t) /\ Field(t, 2, 1) = 0 THEN DataOf(t) ELSE <<>>]

LegacyAudioStream(t, bag) ==
  LET fixed == SoundFormat(t) \in SpecFixed
  IN [codec |-> AudioCodecStr(SoundFormat(t)),
      rate |-> IF fixed THEN <<HeaderRate(t)>> ELSE OrElse(RateStated(bag), <<HeaderRate(t)>>),
      channels |-> IF fixed THEN <<1>> ELSE OrElse(ChannelsStated(bag), <<HeaderChannels(t)>>),
      format |-> OrElse(FormatStated(bag), <<HeaderFormat(t)>>),
      bitRate |-> BitRate(bag, "audiodatarate"),
      extradata |-> IF IsAac(t) /\ Field(t, 2, 1) = 0 THEN DataOf(t) ELSE <<>>]

AudioStream(t, bag) == IF IsEx(t) THEN ExAudioStream(t, bag) ELSE LegacyAudioStream(t, bag)

FrameRate(bag) ==
  KeptIf(OrElse(LookupNumber(bag, "videoframerate", Int), LookupNumber(bag, "framerate", Int)),
         Positive)

\* The alpha offset of VP6 with alpha is all the decoder configuration it has.
VideoConfig(t) ==
  CASE IsEx(t) -> ExConfig(t)
    [] IsAvc(t) /\ Len(t.fields) >= 3 /\ t.fields[2] = 0 -> SubSeq(t.fields, 4, Len(t.fields))
    [] ~IsEx(t) /\ VideoCodec(t) = Vp6a /\ Len(t.fields) >= 2 -> <<t.fields[2]>>
    [] OTHER -> <<>>

VideoStream(t, bag) ==
  [codec |-> VideoCodecStr(IF IsEx(t) THEN t.fields[2] ELSE VideoCodec(t)),
   width |-> LookupNumber(bag, "width", U32),
   height |-> LookupNumber(bag, "height", U32),
   frameRate |-> FrameRate(bag),
   bitRate |-> BitRate(bag, "videodatarate"),
   extradata |-> VideoConfig(t)]
=============================================================================
