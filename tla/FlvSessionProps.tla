--------------------------- MODULE FlvSessionProps ---------------------------
(***************************************************************************)
(* What the two ends of a session may rely on.                             *)
(***************************************************************************)
EXTENDS FlvSession

\* Calls, positions, streams, metadata and packets have their types, and a stream
\* never has a rate or a channel count of zero, whatever metadata or layout say.
TypeOK ==
  /\ mode \in Modes /\ phase \in {"writing", "opening", "reading", "failed"}
  /\ Len(calls) <= AtMost[mode] /\ \A i \in 1 .. Len(calls) : Tag0(i).kind \in Kinds
  /\ cursor \in 1 .. Len(calls) + 1 /\ scanned \in 0 .. Len(calls)
  /\ \A k \in Media : Len(streams[k]) <= 1
  /\ HasStream("audio") => \A n \in ToSet(streams.audio[1].rate) \cup ToSet(streams.audio[1].channels) : n > 0
  /\ \A i \in 1 .. Len(bag) : bag[i].key # <<>> /\ bag[i].text.is \in {"number", "word", "date"}
  /\ \A i \in 1 .. Len(packets) : packets[i].packet \in Packet

Reading == phase = "reading"
Read == 1 .. cursor - 1
Discovered == 1 .. scanned

\* The last, or the first, call in a range that says something of the sort.
Saying(range, Tells(_)) == {i \in range : Tells(Says(i))}
LastOf(S) == CHOOSE i \in S : \A j \in S : j <= i
FirstOf(S) == CHOOSE i \in S : \A j \in S : i <= j
InOrder(S) == SetToSortSeq(S, LAMBDA i, j : i < j)

(***************************************************************************)
(* Every media tag an accepted write put into the file comes back as the   *)
(* one packet its writer documents, with the payload and the composition   *)
(* time it was given, in order; the ends of sequences give none.           *)
(*                                                                         *)
(* A silence in front of the first audio body is not one of these: the doc *)
(* of write_audio_silence says that the reader skips it.  The code does    *)
(* not, since discovery makes the stream of a later body and rewinds, and  *)
(* what is stated of it here is what the code does: the same packet as for *)
(* any other silence, and none if the file has no audio body.              *)
(***************************************************************************)
Expected(a, i, stream) ==
  [packet |-> [tag |-> i, stream |-> stream, pts |-> i + a.shift, dts |-> i,
               key |-> a.key, header |-> a.header, discard |-> a.discard, track |-> Whole],
   data |-> a.data, amf |-> a.amf]

Answer(i) ==
  LET a == Says(i).answer
      k == Tag0(i).kind
  IN IF k \in Media /\ a # None /\ HasStream(k) THEN <<Expected(a[1], i, StreamIndex(k))>> ELSE <<>>

EveryWriteIsAnswered ==
  Reading => packets = FlattenSeq([i \in 1 .. cursor - 1 |-> Answer(i)])

(***************************************************************************)
(* A stream has the codec and the decoder configuration of the first body  *)
(* of its kind, whichever writer wrote it; a format with one rate and one  *)
(* channel keeps them whatever onMetaData says, but for a speaker layout   *)
(* that counts channels.  The channel count is then that of the last such  *)
(* layout read; one that counts none, or ends too early, changes nothing.  *)
(*                                                                         *)
(* The formats with one rate are Nellymoser at 8 and 16 kHz and Speex.     *)
(* The doc of write_mp3_8k_tag says that its rate is pinned, too, which    *)
(* the code does not do: an audiosamplerate in front of it counts, as      *)
(* TypedViewsAgree states, and no rate is promised for it here.            *)
(***************************************************************************)
FirstBody(k) == FirstOf({i \in Discovered : Tag0(i).kind = k /\ Tag0(i).fields # <<>>})

LayoutsRead == {i \in Read : Says(i).layout # None}
LayoutsCounted == {i \in LayoutsRead : Says(i).layout[1].count > 0}

FirstBodyDecides(k) ==
  LET s == streams[k][1]
      said == Says(FirstBody(k))
  IN /\ s.codec = said.codec
     /\ s.extradata = said.config
     /\ k = "audio" /\ said.fixedRate # None =>
          s.rate = said.fixedRate /\ (LayoutsCounted = {} => s.channels = <<1>>)

ChannelsFollowLayouts ==
  LayoutsCounted # {} =>
    HasStream("audio") /\ streams.audio[1].channels = <<Says(LastOf(LayoutsCounted)).layout[1].count>>

StreamsAreAsWritten ==
  Reading => ChannelsFollowLayouts /\ \A k \in Media : HasStream(k) => FirstBodyDecides(k)

(***************************************************************************)
(* Every property of onMetaData comes back through its typed accessor, as  *)
(* the first onMetaData that has it says.  What the typed views tell of a  *)
(* stream is what the stream says: the views go by the first entry of a    *)
(* key, the stream by the first usable one that was there when it was      *)
(* made, and both may see nothing, but they never see different numbers.   *)
(* An audio stream has values of its own, and a frame rate has two names,  *)
(* so that for these onMetaData must stand before the stream.  A sample    *)
(* rate of zero, or one that 32 bits do not hold, is seen by the view      *)
(* only.  8 kHz MP3 has the rate onMetaData states in front of it, against *)
(* the doc of its writer, and 8 kHz if the metadata has no sample rate.    *)
(* Only a Metadata frame that reuses one of the names comes between them.  *)
(***************************************************************************)
Properties == FlattenSeq([i \in 1 .. scanned |-> Says(i).properties])

PropertyFirst(name) == SelectSeq(Properties, LAMBDA p : p.key = name)[1].value

ComesBack(name, v) ==
  CASE name \in TypedNumbers \cup TypedAmounts ->
         TypedNumber(bag, name) = IF Usable(v.text) THEN <<v.text.n>> ELSE None
    [] name \in TypedCounts ->
         TypedNumber(bag, name) = IF Usable(v.text) /\ FitsU32(v.text.n) THEN <<v.text.n>> ELSE None
    [] name \in TypedFlags -> TypedFlag(bag, name) = <<v.text = Word("true")>>
    [] name = "creationdate" -> CreationDate(bag) = <<v.text>>

Agree(stated, kept) == stated # None /\ kept # None => stated = kept

NamesAreColor == \A i \in Read : IsMetadata(Tag0(i)) => Says(i).color # None

Thousand(kbps) == [i \in 1 .. Len(kbps) |-> kbps[i] * 1000]

MetadataLeads(k) ==
  \A i \in Discovered : Tag0(i).kind = "script" => i < FirstBody(k)

\* A videoframerate of no use hides a later one from the view, not from the stream.
FrameRateIsPlain ==
  LET text == Find(bag, <<"videoframerate">>) IN text # None => Usable(text[1])

VideoAgrees(s, codecId) ==
  /\ Agree(TypedNumber(bag, "width"), s.width)
  /\ Agree(TypedNumber(bag, "height"), s.height)
  /\ MetadataLeads("video") /\ FrameRateIsPlain => Agree(EffectiveFrameRate(bag), s.frameRate)
  /\ Agree(Thousand(TypedNumber(bag, "videodatarate")), s.bitRate)
  /\ TypedNumber(bag, "videocodecid") = <<codecId>> => TypedVideoCodec(bag) = <<s.codec>>
  /\ CodecText(bag, "videocodecid") # None => TypedVideoCodec(bag) = None

IsRate(n) == n > 0 /\ FitsU32(n)

AudioAgrees(s, codecId, fixed) ==
  /\ Agree(Thousand(TypedNumber(bag, "audiodatarate")), s.bitRate)
  /\ codecId = Mp38k /\ Find(bag, <<"audiosamplerate">>) = None => s.rate = <<Rate8k>>
  /\ TypedNumber(bag, "audiocodecid") = <<codecId>> => TypedAudioCodec(bag) = <<s.codec>>
  /\ ~fixed /\ MetadataLeads("audio") =>
       /\ Agree(KeptIf(TypedNumber(bag, "audiosamplerate"), IsRate), s.rate)
       /\ LayoutsRead = {} => Agree(ChannelsStated(bag), s.channels)
       /\ Agree(FormatStated(bag), s.format)

CodecIdOf(t) ==
  IF IsEx(t) THEN t.fields[2] ELSE IF t.kind = "audio" THEN SoundFormat(t) ELSE VideoCodec(t)

TypedViewsAgree ==
  Reading /\ NamesAreColor =>
    /\ \A j \in 1 .. Len(Properties) :
         ComesBack(Properties[j].key, PropertyFirst(Properties[j].key))
    /\ HasStream("video") => VideoAgrees(streams.video[1], CodecIdOf(Tag0(FirstBody("video"))))
    /\ HasStream("audio") =>
         AudioAgrees(streams.audio[1], CodecIdOf(Tag0(FirstBody("audio"))),
                     Says(FirstBody("audio")).fixedRate # None)

(***************************************************************************)
(* Cue points and images do not run into each other: every cue the         *)
(* producer wrote has a number of its own in the metadata, the numbers run *)
(* from zero when no other cue comes between, and the scalars of the n-th  *)
(* image describe the n-th image.                                          *)
(***************************************************************************)
CueNames == SelectSeq(bag, LAMBDA e : Len(e.key) = 3 /\ e.key[1] = "cuepoint" /\ e.key[3] = "name")

CuesWritten == InOrder({i \in Discovered : Says(i).cue # None})

OnlyWrittenCues ==
  \A i \in Discovered : Tag0(i).kind = "script" =>
    (Tag0(i).amf[1] = String("onCuePoint") => Says(i).cue # None)

ImagesWritten == InOrder({i \in Discovered : Says(i).image # None})

CuesAndImagesStayApart ==
  Reading =>
    /\ [j \in 1 .. Len(CueNames) |-> CueNames[j].text]
         = [j \in 1 .. Len(CuesWritten) |-> Word(Says(CuesWritten[j]).cue[1])]
    /\ \A h, j \in 1 .. Len(CueNames) : CueNames[h].key = CueNames[j].key => h = j
    /\ OnlyWrittenCues => \A j \in 1 .. Len(CueNames) : CueNames[j].key[2] = ToString(j - 1)
    /\ Len(found.images) = Len(ImagesWritten)
    /\ \A j \in 1 .. Len(ImagesWritten) :
         LET image == Says(ImagesWritten[j]).image[1] IN
         /\ found.images[j] = image
         /\ Find(bag, ImageKey(j - 1, "length")) = <<Numeral(Len(image.data))>>
         /\ Find(bag, ImageKey(j - 1, "trackid"))
              = [m \in 1 .. Len(image.track) |-> Numeral(image.track[m])]

(***************************************************************************)
(* Every field of every additional track comes back through the typed      *)
(* views, and the iterator gives the tracks in the order they were         *)
(* declared; of two statements about a field the first counts.  Track 0 is *)
(* the default track, and the views know nothing of it, whatever map it is *)
(* in.                                                                     *)
(***************************************************************************)
Stated ==
  SelectSeq(FlattenSeq([i \in 1 .. scanned |-> Says(i).tracks]), LAMBDA s : s.id # 0)

StatedFirst(kind, id, field) ==
  SelectSeq(Stated, LAMBDA s : s.kind = kind /\ s.id = id /\ s.field = field)

StatedIds(kind) ==
  LET at == {i \in 1 .. Len(Stated) :
               /\ Stated[i].kind = kind
               /\ \A h \in 1 .. i - 1 : Stated[h].kind = kind => Stated[h].id # Stated[i].id}
  IN [j \in 1 .. Cardinality(at) |-> Stated[InOrder(at)[j]].id]

TrackMapsComeBack ==
  Reading => \A kind \in Media :
    /\ IterIds(bag, kind) = StatedIds(kind)
    /\ \A id \in {0, 1, 2, 3} : HasTrackInfo(bag, kind, id) <=> id \in ToSet(StatedIds(kind))
    /\ \A id \in {1, 2, 3} : \A f \in ToSet(TrackFields[kind]) :
         LET stated == StatedFirst(kind, id, f) IN
         Property(bag, kind, id, f) = IF stated = <<>> THEN None ELSE <<stated[1].value>>

(***************************************************************************)
(* The typed colour view shows the last Metadata frame read that has a     *)
(* colorInfo, whole and with nothing of an earlier one, and a reset shows  *)
(* no colour.                                                              *)
(***************************************************************************)
ColorsRead == {i \in Read : Says(i).color # None}

ColorInfoIsLatest ==
  Reading =>
    IF ColorsRead = {} THEN ~HasColor(bag)
    ELSE LET ci == Says(LastOf(ColorsRead)).color[1] IN
         /\ ToColorInfo(bag) = ci
         /\ ci # <<>> => HasColor(bag) /\ ~IsResetSentinel(bag)

(***************************************************************************)
(* The metadata describes the last speaker layout read, with nothing of an *)
(* earlier one: the channels it lists are those the layout says are        *)
(* present, as many as it counts.                                          *)
(***************************************************************************)
LayoutBag == SelectSeq(bag, LAMBDA e : e.key[1] = "multichannelconfig")

Audible(c) == SelectSeq(PresentChannels(c), LAMBDA ch : HasChannel(c, ch))

LayoutIsLatest ==
  Reading =>
    IF LayoutsRead = {} THEN LayoutBag = <<>>
    ELSE LET c == Says(LastOf(LayoutsRead)).layout[1]
             labels == Word(Joined([i \in 1 .. Len(Audible(c)) |-> SpeakerLabel(Audible(c)[i])]))
         IN /\ LayoutBag[1] = Entry(LayoutKey("order"), Word(OrderLabel(c.order)))
            /\ LayoutBag[2] = Entry(LayoutKey("channelcount"), Numeral(c.count))
            /\ \A i \in 3 .. Len(LayoutBag) :
                 LayoutBag[i].key \in {LayoutKey("flags"), LayoutKey("layout"), LayoutKey("mapping")}
            /\ LayoutValid(c) /\ c.order = Native =>
                 Find(bag, LayoutKey("layout")) = <<labels>> /\ Len(Audible(c)) = c.count
            /\ LayoutValid(c) /\ c.order = Custom /\ Unused \notin ToSet(c.mapping[1]) =>
                 Find(bag, LayoutKey("mapping")) = <<labels>>

(***************************************************************************)
(* A keyframes table that write_on_metadata accepts is one the demuxer     *)
(* seeks by; the encryption headline is that of the last header written    *)
(* and is published once, and so is the XMP packet.                        *)
(***************************************************************************)
HeadlineOf(h) ==
  << Entry(<<"encryption">>, Word("true")),
     Entry(<<"encryption", "version">>, Numeral(h.version)),
     Entry(<<"encryption", "method">>, Word(h.method)),
     Entry(<<"encryption", "algorithm">>, Word(h.algorithm)),
     Entry(<<"encryption", "key_length">>, Numeral(h.keyLength)),
     Entry(<<"encryption", "key_subtype">>, Word(h.subtype)) >>

FoundIsAsWritten ==
  Reading =>
    LET tables == {i \in Discovered : Says(i).index # None}
        headers == {i \in Discovered : Says(i).headline # None}
        xmps == {i \in Discovered : Says(i).xmp # None}
    IN /\ found.index = IF tables = {} THEN None ELSE Says(FirstOf(tables)).index
       /\ SelectSeq(bag, LAMBDA e : e.key[1] = "encryption")
            = IF headers = {} THEN <<>> ELSE HeadlineOf(Says(LastOf(headers)).headline[1])
       /\ SelectSeq(bag, LAMBDA e : e.key = <<"xmp">>)
            = IF xmps = {} THEN <<>> ELSE <<Entry(<<"xmp">>, Word(Says(LastOf(xmps)).xmp[1]))>>
=============================================================================
