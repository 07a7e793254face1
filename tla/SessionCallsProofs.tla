------------------------- MODULE SessionCallsProofs -------------------------
(***************************************************************************)
(* Whatever calls of its writers a producer makes, in whatever order, the  *)
(* reader of the file gets what the writers document.                      *)
(***************************************************************************)
EXTENDS FlvSessionProps, SequenceFacts

(***************************************************************************)
(* The fields of a body: a header, and the data behind it.                 *)
(***************************************************************************)
LEMMA Behind ==
  ASSUME NEW S, NEW head \in Seq(S), NEW data \in Seq(S), NEW f, f = head \o data
  PROVE  /\ f \in Seq(S) /\ Len(f) = Len(head) + Len(data) /\ Len(data) \in Nat
         /\ \A i \in 1 .. Len(head) : f[i] = head[i]
         /\ SubSeq(f, Len(head) + 1, Len(f)) = data
<1> DEFINE n == Len(head)
           m == Len(data)
<1>1. n \in Nat /\ m \in Nat
  BY LenProperties
<1>2. f \in Seq(S) /\ Len(f) = n + m
  BY ConcatProperties
<1>3. \A i \in 1 .. n + m : f[i] = IF i <= n THEN head[i] ELSE data[i - n]
  BY ConcatProperties
<1> HIDE DEF n, m
<1>4. \A i \in 1 .. n : f[i] = head[i]
  <2>1. \A i \in 1 .. n : i \in 1 .. n + m /\ i <= n
    BY <1>1, SMT
  <2> QED
    BY <1>3, <2>1
<1> DEFINE g == SubSeq(f, n + 1, n + m)
<1>5. /\ g \in Seq(S)
      /\ Len(g) = IF n + 1 <= n + m THEN (n + m) - (n + 1) + 1 ELSE 0
      /\ \A i \in 1 .. (n + m) - (n + 1) + 1 : g[i] = f[n + 1 + i - 1]
  <2>1. n + 1 \in Int /\ n + m \in Int /\ \A i \in n + 1 .. n + m : i \in 1 .. n + m
    BY <1>1, SMT
  <2>2. \A i \in n + 1 .. n + m : f[i] \in S
    BY <1>2, <2>1, ElementOfSeq
  <2> DEFINE p == n + 1
             q == n + m
  <2>3. p \in Int /\ q \in Int /\ \A i \in p .. q : f[i] \in S
    BY <2>1, <2>2
  <2> HIDE DEF p, q
  <2>4. /\ SubSeq(f, p, q) \in Seq(S)
        /\ Len(SubSeq(f, p, q)) = IF p <= q THEN q - p + 1 ELSE 0
        /\ \A i \in 1 .. q - p + 1 : SubSeq(f, p, q)[i] = f[p + i - 1]
    BY ONLY <2>3, SubSeqProperties
  <2> QED
    BY <2>4 DEF p, q
<1> HIDE DEF g
<1>6. Len(g) = m
  BY <1>1, <1>5, SMT
<1>7. ASSUME NEW i \in 1 .. m PROVE g[i] = data[i]
  <2>1. i \in 1 .. (n + m) - (n + 1) + 1 /\ n + 1 + i - 1 = n + i
        /\ n + i \in 1 .. n + m /\ ~(n + i <= n) /\ (n + i) - n = i
    BY <1>1, SMT
  <2>2. g[i] = f[n + i]
    BY <1>5, <2>1
  <2>3. f[n + i] = data[i]
    BY <1>3, <2>1
  <2> QED
    BY <2>2, <2>3
<1>8. g = data
  <2>1. Len(g) = Len(data) /\ \A i \in 1 .. Len(g) : g[i] = data[i]
    BY <1>6, <1>7 DEF m
  <2> QED
    BY <1>5, <2>1, SeqEqual
<1> QED
  BY <1>1, <1>2, <1>4, <1>8 DEF g, n, m

\* Behind a header of one field, of two and of three.
LEMMA Behind1 ==
  ASSUME NEW a \in Nat, NEW data \in Seq(Nat), NEW f, f = <<a>> \o data
  PROVE  /\ f \in Seq(Nat) /\ f # <<>> /\ Len(data) \in Nat /\ Len(f) = 1 + Len(data)
         /\ f[1] = a /\ SubSeq(f, 2, Len(f)) = data
<1> DEFINE head == <<a>>
<1>1. head \in Seq(Nat) /\ Len(head) = 1 /\ head[1] = a
  BY SMT
<1> HIDE DEF head
<1>2. f = head \o data
  BY DEF head
<1>3. /\ f \in Seq(Nat) /\ Len(f) = Len(head) + Len(data) /\ Len(data) \in Nat
      /\ \A i \in 1 .. Len(head) : f[i] = head[i]
      /\ SubSeq(f, Len(head) + 1, Len(f)) = data
  BY <1>1, <1>2, Behind
<1>4. 1 \in 1 .. 1 /\ 1 + 1 = 2
  BY SMT
<1>5. f # <<>>
  <2>1. Len(f) # 0
    BY <1>1, <1>3, SMT
  <2> QED
    BY <2>1, EmptySeq
<1> QED
  BY <1>1, <1>3, <1>4, <1>5

LEMMA Behind2 ==
  ASSUME NEW a \in Nat, NEW b \in Nat, NEW data \in Seq(Nat), NEW f, f = <<a, b>> \o data
  PROVE  /\ f \in Seq(Nat) /\ f # <<>> /\ Len(data) \in Nat /\ Len(f) = 2 + Len(data)
         /\ f[1] = a /\ f[2] = b /\ SubSeq(f, 3, Len(f)) = data
<1> DEFINE head == <<a, b>>
<1>1. head \in Seq(Nat) /\ Len(head) = 2 /\ head[1] = a /\ head[2] = b
  BY SMT
<1> HIDE DEF head
<1>2. f = head \o data
  BY DEF head
<1>3. /\ f \in Seq(Nat) /\ Len(f) = Len(head) + Len(data) /\ Len(data) \in Nat
      /\ \A i \in 1 .. Len(head) : f[i] = head[i]
      /\ SubSeq(f, Len(head) + 1, Len(f)) = data
  BY <1>1, <1>2, Behind
<1>4. 1 \in 1 .. 2 /\ 2 \in 1 .. 2 /\ 2 + 1 = 3
  BY SMT
<1>5. f # <<>>
  <2>1. Len(f) # 0
    BY <1>1, <1>3, SMT
  <2> QED
    BY <2>1, EmptySeq
<1> QED
  BY <1>1, <1>3, <1>4, <1>5

LEMMA Behind3 ==
  ASSUME NEW a \in Nat, NEW b \in Nat, NEW c \in Nat, NEW data \in Seq(Nat),
         NEW f, f = <<a, b, c>> \o data
  PROVE  /\ f \in Seq(Nat) /\ f # <<>> /\ Len(data) \in Nat /\ Len(f) = 3 + Len(data)
         /\ f[1] = a /\ f[2] = b /\ f[3] = c /\ SubSeq(f, 4, Len(f)) = data
<1> DEFINE head == <<a, b, c>>
<1>1. head \in Seq(Nat) /\ Len(head) = 3 /\ head[1] = a /\ head[2] = b /\ head[3] = c
  BY SMT
<1> HIDE DEF head
<1>2. f = head \o data
  BY DEF head
<1>3. /\ f \in Seq(Nat) /\ Len(f) = Len(head) + Len(data) /\ Len(data) \in Nat
      /\ \A i \in 1 .. Len(head) : f[i] = head[i]
      /\ SubSeq(f, Len(head) + 1, Len(f)) = data
  BY <1>1, <1>2, Behind
<1>4. 1 \in 1 .. 3 /\ 2 \in 1 .. 3 /\ 3 \in 1 .. 3 /\ 3 + 1 = 4
  BY SMT
<1>5. f # <<>>
  <2>1. Len(f) # 0
    BY <1>1, <1>3, SMT
  <2> QED
    BY <2>1, EmptySeq
<1> QED
  BY <1>1, <1>3, <1>4, <1>5

(***************************************************************************)
(* Answers.                                                                *)
(***************************************************************************)
\* A tag gives the packet it is to give.
Answers(t, answer) ==
  \A i \in Nat, stream \in Nat :
    PacketsOf(t, i, stream) = IF answer = None THEN <<>> ELSE <<Expected(answer[1], i, stream)>>

\* The packet of an audio body of one track.
LEMMA AudioAnswers ==
  ASSUME NEW t, t.kind = "audio", NEW data, DataOf(t) = data,
         NEW header \in BOOLEAN, NEW discard \in BOOLEAN,
         AudioYields(AsBody(t)),
         header <=> \/ AsBody(t).form = "empty"
                    \/ AsBody(t).form = "ex" /\ AsBody(t).unit # "data"
                    \/ AsBody(t).form = "legacy" /\ AsBody(t).codec = "aac" /\ AsBody(t).unit = "config",
         discard <=> \/ AsBody(t).form = "empty"
                     \/ AsBody(t).form = "ex" /\ AsBody(t).unit \notin {"config", "data"}
  PROVE  Answers(t, Reply(data, 0, TRUE, header, discard, t.amf))
<1> SUFFICES ASSUME NEW i \in Nat, NEW stream \in Nat
             PROVE  PacketsOf(t, i, stream)
                      = <<Expected(Reply(data, 0, TRUE, header, discard, t.amf)[1], i, stream)>>
  BY DEF Answers, Reply, None
<1> DEFINE b == [body |-> AsBody(t), kind |-> t.kind, ts |-> i]
<1>1. b.body = AsBody(t) /\ b.kind = "audio" /\ b.ts = i
  OBVIOUS
<1>2. Yields(b)
  BY <1>1 DEF Yields
<1>3. PacketOf(i, b, stream) = AudioPacket(i, b, stream)
  BY <1>1 DEF PacketOf
<1>4. ~CarriesTracks(AsBody(t))
  BY DEF CarriesTracks, AsBody
<1>5. AudioPacket(i, b, stream)
        = [tag |-> i, stream |-> stream, pts |-> i, dts |-> i, key |-> TRUE,
           header |-> header, discard |-> discard, track |-> Whole]
  <2> HIDE DEF b
  <2>1. b.body.form = AsBody(t).form /\ b.body.unit = AsBody(t).unit /\ b.body.codec = AsBody(t).codec
    BY <1>1
  <2> QED
    BY <1>1, <1>4, <2>1, Zenon DEF AudioPacket
<1>6. i + 0 = i
  BY SMT
<1>7. PacketsOf(t, i, stream)
        = << [packet |-> PacketOf(i, b, stream), data |-> DataOf(t), amf |-> t.amf] >>
  BY <1>2, Zenon DEF PacketsOf
<1> HIDE DEF b
<1> QED
  BY <1>3, <1>5, <1>6, <1>7, Zenon DEF Expected, Reply

\* The stream a first body makes has what it is to have, whatever is stated of it.
StreamKept(t, says) ==
  \A stated :
    LET s == IF t.kind = "audio" THEN AudioStream(t, stated) ELSE VideoStream(t, stated) IN
    /\ s.codec = says.codec /\ s.extradata = says.config
    /\ t.kind = "audio" /\ says.fixedRate # None => s.rate = says.fixedRate /\ s.channels = <<1>>

\* What a tag does at the other end is what its writer documents.
KeptBy(t, says) ==
  /\ t.kind \in Media
  /\ Answers(t, says.answer)
  /\ t.fields # <<>> => StreamKept(t, says)
  /\ says.layout = IF IsLayout(t) THEN ParseLayout(DataOf(t)) ELSE None

Kept(c) == c.tags # Refused => KeptBy(c.tags[1], c.says)

\* What a call of a writer says.
LEMMA MediaSays ==
  ASSUME NEW tags, NEW codec, NEW config, NEW answer, NEW c, c = Media0(tags, codec, config, answer)
  PROVE  /\ c.tags = tags
         /\ c.says.answer = answer /\ c.says.codec = codec /\ c.says.config = config
         /\ c.says.fixedRate = None /\ c.says.layout = None
  BY DEF Media0, Call, Nothing

LEMMA FixedSays ==
  ASSUME NEW tags, NEW codec, NEW config, NEW answer, NEW rate,
         NEW c, c = Fixed(Media0(tags, codec, config, answer), rate)
  PROVE  /\ c.tags = tags
         /\ c.says.answer = answer /\ c.says.codec = codec /\ c.says.config = config
         /\ c.says.fixedRate = <<rate>> /\ c.says.layout = None
  BY DEF Fixed, Media0, Call, Nothing

LEMMA WroteIs ==
  ASSUME NEW kind, NEW fields, NEW amf
  PROVE  /\ Wrote(kind, fields, amf) # Refused
         /\ Wrote(kind, fields, amf)[1].kind = kind
         /\ Wrote(kind, fields, amf)[1].fields = fields
         /\ Wrote(kind, fields, amf)[1].amf = amf
  BY SMT DEF Wrote, Refused

(***************************************************************************)
(* The names of codecs.                                                    *)
(***************************************************************************)
LEMMA AudioCodecsAre ==
  /\ AudioCodecStr(LpcmNative) = "pcm_s16le" /\ AudioCodecStr(LpcmLe) = "pcm_s16le"
  /\ AudioCodecStr(Adpcm) = "adpcm_swf" /\ AudioCodecStr(Mp3) = "mp3" /\ AudioCodecStr(Mp38k) = "mp3"
  /\ AudioCodecStr(ALaw) = "pcm_alaw" /\ AudioCodecStr(MuLaw) = "pcm_mulaw"
  /\ AudioCodecStr(Nellymoser) = "nellymoser" /\ AudioCodecStr(Nellymoser8k) = "nellymoser"
  /\ AudioCodecStr(Nellymoser16k) = "nellymoser"
  /\ AudioCodecStr(Aac) = "aac" /\ AudioCodecStr(Speex) = "speex"
  /\ AudioCodecStr(Ac3) = "ac3" /\ AudioCodecStr(Eac3) = "eac3" /\ AudioCodecStr(Opus) = "opus"
  /\ AudioCodecStr(ExMp3) = "mp3" /\ AudioCodecStr(Flac) = "flac" /\ AudioCodecStr(Mp4a) = "aac"
BY SMT DEF AudioCodecStr, LpcmNative, Adpcm, Mp3, LpcmLe, Nellymoser16k, Nellymoser8k, Nellymoser,
           ALaw, MuLaw, Aac, Speex, Mp38k, DeviceSpecific, Ac3, Eac3, Opus, ExMp3, Flac, Mp4a

LEMMA VideoCodecsAre ==
  /\ VideoCodecStr(Flv1) = "flv1" /\ VideoCodecStr(ScreenV1) = "flashsv" /\ VideoCodecStr(Vp6) = "vp6f"
  /\ VideoCodecStr(Vp6a) = "vp6a" /\ VideoCodecStr(ScreenV2) = "flashsv2" /\ VideoCodecStr(H264) = "h264"
  /\ VideoCodecStr(Avc1) = "h264" /\ VideoCodecStr(Av01) = "av1" /\ VideoCodecStr(Vp09) = "vp9"
  /\ VideoCodecStr(Vp08) = "vp8" /\ VideoCodecStr(Hvc1) = "h265" /\ VideoCodecStr(Vvc1) = "h266"
  /\ VideoCodecStr(0) = Unnamed(0, "flv:video:", "")
BY SMT DEF VideoCodecStr, Unnamed, Jpeg, Flv1, ScreenV1, Vp6, Vp6a, ScreenV2, H264, Av01, Vp09, Vp08,
           Hvc1, Avc1, Vvc1

(***************************************************************************)
(* Legacy audio.                                                           *)
(***************************************************************************)
LEMMA SoundByteIs ==
  ASSUME NEW codec \in Nat, NEW rate \in Nat, NEW wide \in BOOLEAN, NEW stereo \in BOOLEAN
  PROVE  SoundByte(codec, rate, wide, stereo) \in Nat /\ SoundByte(codec, rate, wide, stereo) \div 16 = codec
<1> DEFINE r == rate % 4
           w == Bit(wide)
           s == Bit(stereo)
<1>1. r \in Nat /\ r <= 3 /\ w \in Nat /\ w <= 1 /\ s \in Nat /\ s <= 1
  BY SMT DEF Bit
<1> HIDE DEF r, w, s
<1>2. codec * 16 + r * 4 + w * 2 + s \in Nat /\ (codec * 16 + r * 4 + w * 2 + s) \div 16 = codec
  BY <1>1, SMT
<1> QED
  BY <1>2, Zenon DEF SoundByte, r, w, s

\* A format without a packet type.
LEMMA PlainSoundKept ==
  ASSUME NEW codec \in Nat, codec # 9, codec # Aac,
         NEW byte \in Nat, byte \div 16 = codec, NEW data \in Seq(Nat),
         NEW t, t.kind = "audio", t.fields = <<byte>> \o data, t.amf = <<>>,
         NEW says, says.answer = Picture(TRUE, 0, data), says.codec = AudioCodecStr(codec),
         says.config = <<>>, says.layout = None,
         says.fixedRate # None => codec \in SpecFixed /\ says.fixedRate = <<HeaderRate(t)>>
  PROVE  KeptBy(t, says)
<1>1. /\ t.fields # <<>> /\ t.fields[1] = byte
      /\ SubSeq(t.fields, 2, Len(t.fields)) = data
  BY Behind1
<1>2. SoundFormat(t) = codec
  BY <1>1 DEF SoundFormat
<1>3. ~IsEx(t) /\ ~IsAac(t) /\ ~IsAvc(t) /\ ~HasOffset(t)
  BY <1>2 DEF IsEx, IsAac, IsAvc, HasOffset
<1>4. DataOf(t) = data
  BY <1>1, <1>3 DEF DataOf, DataStart
<1>5. AsBody(t).form = "legacy" /\ AsBody(t).codec = "plain" /\ AsBody(t).unit = "data"
  BY <1>1, <1>3 DEF AsBody
<1>6. AudioYields(AsBody(t))
  BY <1>5 DEF AudioYields
<1>7. Answers(t, Reply(data, 0, TRUE, FALSE, FALSE, t.amf))
  BY <1>4, <1>5, <1>6, AudioAnswers
<1>8. StreamKept(t, says)
  <2> SUFFICES ASSUME NEW stated
               PROVE  LET s == AudioStream(t, stated) IN
                      /\ s.codec = says.codec /\ s.extradata = says.config
                      /\ says.fixedRate # None => s.rate = says.fixedRate /\ s.channels = <<1>>
    BY DEF StreamKept
  <2>1. AudioStream(t, stated) = LegacyAudioStream(t, stated)
    BY <1>3 DEF AudioStream
  <2>2. LegacyAudioStream(t, stated).codec = AudioCodecStr(codec)
    BY <1>2 DEF LegacyAudioStream
  <2>3. LegacyAudioStream(t, stated).extradata = <<>>
    BY <1>3, Zenon DEF LegacyAudioStream
  <2>4. codec \in SpecFixed => /\ LegacyAudioStream(t, stated).rate = <<HeaderRate(t)>>
                              /\ LegacyAudioStream(t, stated).channels = <<1>>
    BY <1>2, Zenon DEF LegacyAudioStream
  <2> QED
    BY <2>1, <2>2, <2>3, <2>4, Zenon
<1>9. ~IsLayout(t)
  BY <1>3 DEF IsLayout
<1> QED
  BY <1>7, <1>8, <1>9 DEF KeptBy, Picture, Media

\* A body without a packet.
LEMMA NoAnswer ==
  ASSUME NEW t, t.kind = "audio" => ~AudioYields(AsBody(t)), t.kind # "audio" => ~VideoYields(AsBody(t))
  PROVE  Answers(t, None)
<1> SUFFICES ASSUME NEW i \in Nat, NEW stream \in Nat PROVE PacketsOf(t, i, stream) = <<>>
  BY DEF Answers
<1> DEFINE b == [body |-> AsBody(t), kind |-> t.kind, ts |-> i]
<1>1. b.body = AsBody(t) /\ b.kind = t.kind
  OBVIOUS
<1>2. ~Yields(b)
  BY <1>1 DEF Yields
<1> QED
  BY <1>2, Zenon DEF PacketsOf

\* A header of one field in front of another.
LEMMA OneMore ==
  ASSUME NEW S, NEW a \in S, NEW b \in S, NEW data \in Seq(S)
  PROVE  <<a, b>> \o data = <<a>> \o (<<b>> \o data)
<1> DEFINE x == <<a>>
           y == <<b>>
<1>1. x \in Seq(S) /\ y \in Seq(S)
  OBVIOUS
<1>2. x \o y = <<a, b>>
  <2> DEFINE z == <<a, b>>
  <2>1. Len(x) = 1 /\ x[1] = a /\ Len(y) = 1 /\ y[1] = b
    BY SMT
  <2>2. z \in Seq(S) /\ Len(z) = 2 /\ z[1] = a /\ z[2] = b
    BY SMT
  <2> HIDE DEF x, y, z
  <2>3. /\ x \o y \in Seq(S) /\ Len(x \o y) = Len(x) + Len(y)
        /\ \A i \in 1 .. Len(x) + Len(y) : (x \o y)[i] = IF i <= Len(x) THEN x[i] ELSE y[i - Len(x)]
    BY ONLY <1>1, ConcatProperties
  <2>4. Len(x \o y) = 2 /\ (x \o y)[1] = a /\ (x \o y)[2] = b
    BY <2>1, <2>3, SMT
  <2>5. Len(x \o y) = Len(z) /\ \A i \in 1 .. Len(x \o y) : (x \o y)[i] = z[i]
    <3>1. \A i \in 1 .. 2 : i = 1 \/ i = 2
      BY SMT
    <3> QED
      BY <2>2, <2>4, <3>1
  <2>6. x \o y = z
    BY ONLY <2>2, <2>3, <2>5, SeqEqual
  <2> QED
    BY <2>6 DEF z
<1> HIDE DEF x, y
<1>3. (x \o y) \o data = x \o (y \o data)
  BY ONLY <1>1, data \in Seq(S), ConcatAssociative
<1> QED
  BY <1>2, <1>3 DEF x, y

\* AAC: a sequence header is the configuration of the decoder.
LEMMA AacKept ==
  ASSUME NEW byte \in Nat, byte \div 16 = Aac, NEW unit \in Nat, unit <= 1, NEW data \in Seq(Nat),
         NEW t, t.kind = "audio", t.fields = <<byte>> \o (<<unit>> \o data), t.amf = <<>>,
         NEW says, says.answer = Reply(data, 0, TRUE, unit = 0, FALSE, <<>>), says.codec = "aac",
         says.config = (IF unit = 0 THEN data ELSE <<>>), says.layout = None, says.fixedRate = None
  PROVE  KeptBy(t, says)
<1>1. t.fields = <<byte, unit>> \o data
  <2>1. <<byte, unit>> \o data = <<byte>> \o (<<unit>> \o data)
    BY ONLY byte \in Nat, unit \in Nat, data \in Seq(Nat), OneMore
  <2> QED
    BY <2>1
<1>2. /\ t.fields # <<>> /\ t.fields[1] = byte /\ t.fields[2] = unit
      /\ Len(data) \in Nat /\ Len(t.fields) = 2 + Len(data)
      /\ SubSeq(t.fields, 3, Len(t.fields)) = data
  BY <1>1, Behind2
<1>3. SoundFormat(t) = Aac
  BY <1>2 DEF SoundFormat
<1>4. ~IsEx(t) /\ IsAac(t) /\ ~IsAvc(t) /\ ~HasOffset(t)
  BY <1>3 DEF IsEx, IsAac, IsAvc, HasOffset, Aac
<1>5. Field(t, 2, 3) = unit /\ Field(t, 2, 1) = unit
  BY <1>2, SMT DEF Field
<1>6. DataOf(t) = data
  BY <1>2, <1>4 DEF DataOf, DataStart
<1>7. unit = 0 \/ unit = 1
  BY SMT
<1>8. /\ AsBody(t).form = "legacy" /\ AsBody(t).codec = "aac"
      /\ AsBody(t).unit = IF unit = 0 THEN "config" ELSE "data"
  BY <1>2, <1>4, <1>5, <1>7 DEF AsBody, LegacyUnit
<1>9. AudioYields(AsBody(t))
  BY <1>8 DEF AudioYields
<1>10. Answers(t, Reply(data, 0, TRUE, unit = 0, FALSE, t.amf))
  BY <1>6, <1>7, <1>8, <1>9, AudioAnswers
<1>11. StreamKept(t, says)
  <2> SUFFICES ASSUME NEW stated
               PROVE  AudioStream(t, stated).codec = says.codec /\ AudioStream(t, stated).extradata = says.config
    BY DEF StreamKept
  <2>1. AudioStream(t, stated) = LegacyAudioStream(t, stated)
    BY <1>4 DEF AudioStream
  <2>2. LegacyAudioStream(t, stated).codec = AudioCodecStr(Aac)
    BY <1>3 DEF LegacyAudioStream
  <2>3. LegacyAudioStream(t, stated).extradata = IF unit = 0 THEN data ELSE <<>>
    BY <1>4, <1>5, <1>6, Zenon DEF LegacyAudioStream
  <2>4. AudioCodecStr(Aac) = "aac"
    BY AudioCodecsAre
  <2> QED
    BY <2>1, <2>2, <2>3, <2>4, Zenon
<1>12. ~IsLayout(t)
  BY <1>4 DEF IsLayout
<1> QED
  BY <1>10, <1>11, <1>12 DEF KeptBy, Media

\* What a call did is judged by the tag it wrote.
LEMMA KeptTag ==
  ASSUME NEW c, NEW kind, NEW fields, NEW amf, c.tags = Wrote(kind, fields, amf),
         ASSUME NEW t, t.kind = kind, t.fields = fields, t.amf = amf PROVE KeptBy(t, c.says)
  PROVE  Kept(c)
<1> DEFINE t == c.tags[1]
<1>1. t.kind = kind /\ t.fields = fields /\ t.amf = amf
  BY WroteIs
<1> HIDE DEF t
<1>2. KeptBy(t, c.says)
  BY <1>1
<1> QED
  BY <1>2 DEF Kept, t

LEMMA MediaKept ==
  ASSUME NEW kind, NEW fields, NEW amf, NEW codec, NEW config, NEW answer,
         ASSUME NEW t, t.kind = kind, t.fields = fields, t.amf = amf,
                NEW says, says.answer = answer, says.codec = codec, says.config = config,
                says.fixedRate = None, says.layout = None
         PROVE  KeptBy(t, says)
  PROVE  Kept(Media0(Wrote(kind, fields, amf), codec, config, answer))
<1> DEFINE tags == Wrote(kind, fields, amf)
           c == Media0(tags, codec, config, answer)
<1> HIDE DEF tags
<1>1. c = Media0(tags, codec, config, answer)
  OBVIOUS
<1> HIDE DEF c
<1>2. /\ c.tags = tags
      /\ c.says.answer = answer /\ c.says.codec = codec /\ c.says.config = config
      /\ c.says.fixedRate = None /\ c.says.layout = None
  BY ONLY <1>1, MediaSays
<1>3. ASSUME NEW t, t.kind = kind, t.fields = fields, t.amf = amf PROVE KeptBy(t, c.says)
  BY <1>2, <1>3
<1>4. Kept(c)
  BY <1>2, <1>3, KeptTag DEF tags
<1> QED
  BY <1>4 DEF c, tags

LEMMA FixedKept ==
  ASSUME NEW kind, NEW fields, NEW amf, NEW codec, NEW config, NEW answer, NEW rate,
         ASSUME NEW t, t.kind = kind, t.fields = fields, t.amf = amf,
                NEW says, says.answer = answer, says.codec = codec, says.config = config,
                says.fixedRate = <<rate>>, says.layout = None
         PROVE  KeptBy(t, says)
  PROVE  Kept(Fixed(Media0(Wrote(kind, fields, amf), codec, config, answer), rate))
<1> DEFINE tags == Wrote(kind, fields, amf)
           c == Fixed(Media0(tags, codec, config, answer), rate)
<1> HIDE DEF tags
<1>1. c = Fixed(Media0(tags, codec, config, answer), rate)
  OBVIOUS
<1> HIDE DEF c
<1>2. /\ c.tags = tags
      /\ c.says.answer = answer /\ c.says.codec = codec /\ c.says.config = config
      /\ c.says.fixedRate = <<rate>> /\ c.says.layout = None
  BY ONLY <1>1, FixedSays
<1>3. ASSUME NEW t, t.kind = kind, t.fields = fields, t.amf = amf PROVE KeptBy(t, c.says)
  BY <1>2, <1>3
<1>4. Kept(c)
  BY <1>2, <1>3, KeptTag DEF tags
<1> QED
  BY <1>4 DEF c, tags

LEMMA SoundKept ==
  ASSUME NEW codec \in Nat, codec # 9, codec # Aac,
         NEW rate \in Nat, NEW wide \in BOOLEAN, NEW stereo \in BOOLEAN, NEW data \in Seq(Nat)
  PROVE  Kept(Sound(WriteAudio(SoundByte(codec, rate, wide, stereo), data), AudioCodecStr(codec), data))
<1> DEFINE byte == SoundByte(codec, rate, wide, stereo)
           fields == <<byte>> \o data
           name == AudioCodecStr(codec)
           answer == Picture(TRUE, 0, data)
<1>1. byte \in Nat /\ byte \div 16 = codec
  BY SoundByteIs
<1> HIDE DEF byte
<1>2. ASSUME NEW t, t.kind = "audio", t.fields = fields, t.amf = <<>>,
             NEW says, says.answer = answer, says.codec = name, says.config = <<>>,
             says.fixedRate = None, says.layout = None
      PROVE  KeptBy(t, says)
  BY <1>1, <1>2, PlainSoundKept
<1> HIDE DEF fields, name, answer
<1>3. Kept(Media0(Wrote("audio", fields, <<>>), name, <<>>, answer))
  BY ONLY <1>2, MediaKept
<1> QED
  BY <1>3 DEF Sound, WriteAudio, byte, fields, name, answer

\* A format of one rate and one channel.
LEMMA FixedSoundKept ==
  ASSUME NEW codec \in SpecFixed, NEW fixed,
         codec = Nellymoser8k => fixed = Rate8k, codec # Nellymoser8k => fixed = Rate16k,
         NEW data \in Seq(Nat)
  PROVE  Kept(Fixed(Sound(WriteAudio(SoundByte(codec, 0, TRUE, FALSE), data),
                          AudioCodecStr(codec), data), fixed))
<1> DEFINE byte == SoundByte(codec, 0, TRUE, FALSE)
           fields == <<byte>> \o data
           name == AudioCodecStr(codec)
           answer == Picture(TRUE, 0, data)
<1>1. codec \in Nat /\ codec # 9 /\ codec # Aac
  BY SMT DEF SpecFixed, Nellymoser8k, Nellymoser16k, Speex, Aac
<1>2. byte \in Nat /\ byte \div 16 = codec
  <2>1. 0 \in Nat /\ TRUE \in BOOLEAN /\ FALSE \in BOOLEAN
    BY SMT
  <2> QED
    BY ONLY <1>1, <2>1, SoundByteIs
<1> HIDE DEF byte
<1>3. ASSUME NEW t, t.kind = "audio", t.fields = fields, t.amf = <<>>,
             NEW says, says.answer = answer, says.codec = name, says.config = <<>>,
             says.fixedRate = <<fixed>>, says.layout = None
      PROVE  KeptBy(t, says)
  <2>1. t.fields[1] = byte
    BY <1>2, <1>3, Behind1
  <2>2. SoundFormat(t) = codec
    BY <1>2, <2>1 DEF SoundFormat
  <2>3. HeaderRate(t) = fixed
    BY <2>2, SMT DEF HeaderRate, SpecFixed, Rate8k, Rate16k, Nellymoser8k, Nellymoser16k, Speex, Mp38k, Aac
  <2>4. says.fixedRate # None => codec \in SpecFixed /\ says.fixedRate = <<HeaderRate(t)>>
    BY <1>3, <2>3
  <2>5. /\ t.kind = "audio" /\ t.fields = <<byte>> \o data /\ t.amf = <<>>
        /\ says.answer = Picture(TRUE, 0, data) /\ says.codec = AudioCodecStr(codec)
        /\ says.config = <<>> /\ says.layout = None
    BY <1>3
  <2> QED
    BY ONLY <1>1, <1>2, <2>4, <2>5, data \in Seq(Nat), PlainSoundKept
<1> HIDE DEF fields, name, answer
<1>4. Kept(Fixed(Media0(Wrote("audio", fields, <<>>), name, <<>>, answer), fixed))
  BY ONLY <1>3, FixedKept
<1> QED
  BY ONLY <1>4 DEF Sound, WriteAudio, byte, fields, name, answer

LEMMA AacSoundKept ==
  ASSUME NEW unit \in Nat, unit <= 1, NEW data \in Seq(Nat)
  PROVE  Kept(Media0(WriteAudio(SoundByte(Aac, 3, TRUE, TRUE), <<unit>> \o data), "aac",
                     IF unit = 0 THEN data ELSE <<>>, Reply(data, 0, TRUE, unit = 0, FALSE, <<>>)))
<1> DEFINE byte == SoundByte(Aac, 3, TRUE, TRUE)
           fields == <<byte>> \o (<<unit>> \o data)
           config == IF unit = 0 THEN data ELSE <<>>
           answer == Reply(data, 0, TRUE, unit = 0, FALSE, <<>>)
<1>1. byte \in Nat /\ byte \div 16 = Aac
  <2>1. Aac \in Nat /\ 3 \in Nat /\ TRUE \in BOOLEAN
    BY SMT DEF Aac
  <2> QED
    BY ONLY <2>1, SoundByteIs
<1> HIDE DEF byte
<1>2. ASSUME NEW t, t.kind = "audio", t.fields = fields, t.amf = <<>>,
             NEW says, says.answer = answer, says.codec = "aac", says.config = config,
             says.fixedRate = None, says.layout = None
      PROVE  KeptBy(t, says)
  BY <1>1, <1>2, AacKept
<1> HIDE DEF fields, config, answer
<1>3. Kept(Media0(Wrote("audio", fields, <<>>), "aac", config, answer))
  BY ONLY <1>2, MediaKept
<1> QED
  BY <1>3 DEF WriteAudio, byte, fields, config, answer

LEMMA LegacyAudioKept ==
  ASSUME NEW rate \in Nat, NEW wide \in BOOLEAN, NEW stereo \in BOOLEAN, NEW data \in Seq(Nat)
  PROVE  \A c \in LegacyAudio(rate, wide, stereo, data) : Kept(c)
<1>1. 0 \in Nat /\ TRUE \in BOOLEAN
  BY SMT
<1>2. \A codec \in {Mp3, Mp38k, LpcmLe, LpcmNative, Adpcm, ALaw, MuLaw, Nellymoser} :
        codec \in Nat /\ codec # 9 /\ codec # Aac
  BY SMT DEF Mp3, Mp38k, LpcmLe, LpcmNative, Adpcm, ALaw, MuLaw, Nellymoser, Aac
<1>3. \A codec \in {Mp3, Mp38k, LpcmLe, LpcmNative, Adpcm, ALaw, MuLaw, Nellymoser},
         r \in Nat, w \in BOOLEAN :
        Kept(Sound(WriteAudio(SoundByte(codec, r, w, stereo), data), AudioCodecStr(codec), data))
  BY <1>2, SoundKept
<1>4. /\ Kept(Sound(WriteMp3(rate, wide, stereo, data), "mp3", data))
      /\ Kept(Sound(WriteMp38k(wide, stereo, data), "mp3", data))
  BY <1>1, <1>3, AudioCodecsAre, Zenon DEF WriteMp3, WriteMp38k
<1>5. /\ Kept(Sound(WritePcm(TRUE, rate, wide, stereo, data), "pcm_s16le", data))
      /\ Kept(Sound(WritePcm(FALSE, rate, wide, stereo, data), "pcm_s16le", data))
  BY <1>1, <1>3, AudioCodecsAre, Zenon DEF WritePcm
<1>6. /\ Kept(Sound(WriteAdpcm(rate, wide, stereo, data), "adpcm_swf", data))
      /\ Kept(Sound(WriteALaw(rate, stereo, data), "pcm_alaw", data))
  BY <1>1, <1>3, AudioCodecsAre, Zenon DEF WriteAdpcm, WriteALaw
<1>7. /\ Kept(Sound(WriteMuLaw(rate, stereo, data), "pcm_mulaw", data))
      /\ Kept(Sound(WriteNellymoser(rate, stereo, data), "nellymoser", data))
  BY <1>1, <1>3, AudioCodecsAre, Zenon DEF WriteMuLaw, WriteNellymoser
<1>8. /\ Kept(Fixed(Sound(WriteNellymoser8k(data), "nellymoser", data), Rate8k))
      /\ Kept(Fixed(Sound(WriteNellymoser16k(data), "nellymoser", data), Rate16k))
      /\ Kept(Fixed(Sound(WriteSpeex(data), "speex", data), Rate16k))
  <2>1. /\ Nellymoser8k # Nellymoser16k /\ Nellymoser8k # Speex
        /\ Nellymoser8k \in SpecFixed /\ Nellymoser16k \in SpecFixed /\ Speex \in SpecFixed
    BY SMT DEF Nellymoser8k, Nellymoser16k, Speex, SpecFixed
  <2>2. \A fixed : \A codec \in SpecFixed :
          (codec = Nellymoser8k => fixed = Rate8k) /\ (codec # Nellymoser8k => fixed = Rate16k) =>
            Kept(Fixed(Sound(WriteAudio(SoundByte(codec, 0, TRUE, FALSE), data),
                             AudioCodecStr(codec), data), fixed))
    BY ONLY data \in Seq(Nat), FixedSoundKept
  <2> QED
    BY <2>1, <2>2, AudioCodecsAre, Zenon DEF WriteNellymoser8k, WriteNellymoser16k, WriteSpeex
<1>9. \A unit \in {0, 1} :
        Kept(Media0(WriteAudio(SoundByte(Aac, 3, TRUE, TRUE), <<unit>> \o data), "aac",
                    IF unit = 0 THEN data ELSE <<>>, Reply(data, 0, TRUE, unit = 0, FALSE, <<>>)))
  <2>1. \A unit \in {0, 1} : unit \in Nat /\ unit <= 1
    BY SMT
  <2> QED
    BY <2>1, AacSoundKept
<1>10. Kept(Sound(WriteAacRaw(data), "aac", data))
  <2> DEFINE unit == 1
  <2>1. unit \in {0, 1} /\ (unit = 0) = FALSE
    BY SMT
  <2> HIDE DEF unit
  <2>2. Kept(Media0(WriteAudio(SoundByte(Aac, 3, TRUE, TRUE), <<unit>> \o data), "aac",
                    <<>>, Reply(data, 0, TRUE, FALSE, FALSE, <<>>)))
    BY <1>9, <2>1
  <2> QED
    BY <2>2 DEF Sound, Picture, WriteAacRaw, unit
<1>11. Kept(Start(WriteAacSequenceHeader(data), "aac", data))
  <2> DEFINE unit == 0
  <2>1. unit \in {0, 1} /\ (unit = 0) = TRUE
    BY SMT
  <2> HIDE DEF unit
  <2>2. Kept(Media0(WriteAudio(SoundByte(Aac, 3, TRUE, TRUE), <<unit>> \o data), "aac",
                    data, Reply(data, 0, TRUE, TRUE, FALSE, <<>>)))
    BY <1>9, <2>1
  <2> QED
    BY <2>2 DEF Start, Config, WriteAacSequenceHeader, unit
<1> QED
  BY <1>4, <1>5, <1>6, <1>7, <1>8, <1>10, <1>11, Zenon DEF LegacyAudio

LEMMA SilenceKept == Kept(Silence)
<1> DEFINE c == Silence
           t == c.tags[1]
<1>1. /\ t.kind = "audio" /\ t.fields = <<>> /\ t.amf = <<>>
      /\ c.says.answer = Side(TRUE, <<>>, <<>>) /\ c.says.layout = None
  <2>1. c = Media0(WriteSilence, "", <<>>, Side(TRUE, <<>>, <<>>))
    BY DEF Silence
  <2> HIDE DEF c
  <2>2. c.tags = WriteSilence /\ c.says.answer = Side(TRUE, <<>>, <<>>) /\ c.says.layout = None
    BY <2>1 DEF Media0, Call, Nothing
  <2> QED
    BY <2>2, WroteIs DEF WriteSilence
<1> HIDE DEF t, c
<1>2. DataOf(t) = <<>>
  <2>1. Len(<<>>) = 0 /\ 0 < 1 /\ 0 \in Int /\ 1 \in Int
    BY SMT
  <2>2. DataStart(t) = 1
    BY <1>1 DEF DataStart
  <2> QED
    BY <1>1, <2>1, <2>2, SubSeqEmpty DEF DataOf
<1>3. AsBody(t).form = "empty"
  BY <1>1 DEF AsBody
<1>4. AudioYields(AsBody(t))
  BY <1>3 DEF AudioYields
<1>5. Answers(t, Reply(<<>>, 0, TRUE, TRUE, TRUE, t.amf))
  BY <1>1, <1>2, <1>3, <1>4, AudioAnswers
<1>6. ~IsLayout(t)
  BY <1>1 DEF IsLayout, IsEx
<1> QED
  BY <1>1, <1>5, <1>6 DEF Kept, KeptBy, Media, Side, t, c

(***************************************************************************)
(* Enhanced audio.                                                         *)
(***************************************************************************)
LEMMA ExAudioKept ==
  ASSUME NEW packet \in {SequenceStart, CodedFrames, SequenceEnd, MultichannelType},
         NEW fourcc \in Nat, NEW data \in Seq(Nat),
         NEW t, t.kind = "audio", t.fields = <<ExByte(0, 9, packet), fourcc>> \o data, t.amf = <<>>,
         NEW says, says.codec = AudioCodecStr(fourcc), says.fixedRate = None,
         says.config = (IF packet = SequenceStart THEN data ELSE <<>>),
         says.layout = (IF packet = MultichannelType THEN ParseLayout(data) ELSE None),
         says.answer = (IF packet = SequenceEnd THEN None
                        ELSE Reply(data, 0, TRUE, packet # CodedFrames, packet = MultichannelType, <<>>))
  PROVE  KeptBy(t, says)
<1> DEFINE byte == ExByte(0, 9, packet)
<1>1. byte \in Nat /\ byte \div 16 = 9 /\ byte % 16 = packet
  BY SMT DEF ExByte, SequenceStart, CodedFrames, SequenceEnd, MultichannelType
<1> HIDE DEF byte
<1>2. t.fields = <<byte, fourcc>> \o data
  BY DEF byte
<1>3. /\ t.fields # <<>> /\ t.fields[1] = byte /\ t.fields[2] = fourcc
      /\ SubSeq(t.fields, 3, Len(t.fields)) = data
  BY <1>1, <1>2, Behind2
<1>4. SoundFormat(t) = 9 /\ ExPacket(t) = packet
  BY <1>1, <1>3 DEF SoundFormat, ExPacket
<1>5. IsEx(t) /\ ~IsAac(t) /\ ~IsAvc(t) /\ ~HasOffset(t)
  BY <1>3, <1>4 DEF IsEx, IsAac, IsAvc, HasOffset
<1>6. DataOf(t) = data
  BY <1>3, <1>5 DEF DataOf, DataStart
<1>7. /\ packet = SequenceStart => ExUnit(t) = "config"
      /\ packet = CodedFrames => ExUnit(t) = "data"
      /\ packet = SequenceEnd => ExUnit(t) = "end"
      /\ packet = MultichannelType => ExUnit(t) = "info"
  BY <1>4 DEF ExUnit, SequenceStart, CodedFrames, SequenceEnd, CodedFramesX, MultichannelType, Metadata
<1>8. /\ AsBody(t).form = "ex" /\ AsBody(t).codec = "plain" /\ AsBody(t).unit = ExUnit(t)
      /\ AsBody(t).multitrack = FALSE
  BY <1>3, <1>5 DEF AsBody
<1>9. Answers(t, says.answer)
  <2>1. CASE packet = SequenceEnd
    <3>1. ~AudioYields(AsBody(t))
      BY <1>7, <1>8, <2>1 DEF AudioYields
    <3> QED
      BY <2>1, <3>1, NoAnswer
  <2>2. CASE packet # SequenceEnd
    <3>1. AudioYields(AsBody(t))
      BY <1>7, <1>8, <2>2 DEF AudioYields, HasDefaultTrack
    <3>2. Answers(t, Reply(data, 0, TRUE, packet # CodedFrames, packet = MultichannelType, t.amf))
      <4>1. /\ packet # CodedFrames <=> AsBody(t).unit # "data"
            /\ packet = MultichannelType <=> AsBody(t).unit \notin {"config", "data"}
        BY <1>7, <1>8, <2>2 DEF SequenceStart, CodedFrames, SequenceEnd, MultichannelType
      <4> QED
        BY <1>6, <1>8, <3>1, <4>1, AudioAnswers
    <3> QED
      BY <2>2, <3>2
  <2> QED
    BY <2>1, <2>2
<1>10. StreamKept(t, says)
  <2> SUFFICES ASSUME NEW stated
               PROVE  AudioStream(t, stated).codec = says.codec /\ AudioStream(t, stated).extradata = says.config
    BY DEF StreamKept
  <2>1. AudioStream(t, stated) = ExAudioStream(t, stated)
    BY <1>5 DEF AudioStream
  <2>2. ExConfig(t) = IF packet = SequenceStart THEN data ELSE <<>>
    BY <1>4, <1>6 DEF ExConfig
  <2>3. ExAudioStream(t, stated).codec = AudioCodecStr(fourcc) /\ ExAudioStream(t, stated).extradata = ExConfig(t)
    BY <1>3, Zenon DEF ExAudioStream
  <2> QED
    BY <2>1, <2>2, <2>3, Zenon
<1>11. IsLayout(t) <=> packet = MultichannelType
  BY <1>4, <1>5 DEF IsLayout
<1> QED
  BY <1>6, <1>9, <1>10, <1>11 DEF KeptBy, Media

LEMMA AudioNamesAre ==
  \A name \in AudioNames : name[1] \in Nat /\ AudioCodecStr(name[1]) = name[2]
<1>1. /\ Ac3 \in Nat /\ Eac3 \in Nat /\ Opus \in Nat /\ ExMp3 \in Nat /\ Flac \in Nat /\ Mp4a \in Nat
  BY SMT DEF Ac3, Eac3, Opus, ExMp3, Flac, Mp4a
<1> QED
  BY <1>1, AudioCodecsAre, SMT DEF AudioNames

LEMMA ExAudioCallsKept ==
  ASSUME NEW name \in AudioNames, NEW data \in Seq(Nat)
  PROVE  \A c \in ExAudio(name, data) : Kept(c)
<1> DEFINE fourcc == name[1]
           codec == name[2]
           fields(packet, payload) == <<ExByte(0, 9, packet), fourcc>> \o payload
           config(packet, payload) == IF packet = SequenceStart THEN payload ELSE <<>>
           answer(packet, payload) ==
             IF packet = SequenceEnd THEN None
             ELSE Reply(payload, 0, TRUE, packet # CodedFrames, packet = MultichannelType, <<>>)
<1>1. fourcc \in Nat /\ codec = AudioCodecStr(fourcc)
  BY AudioNamesAre
<1> HIDE DEF fourcc, codec
<1>2. ASSUME NEW packet \in {SequenceStart, CodedFrames, SequenceEnd}, NEW payload \in Seq(Nat)
      PROVE  Kept(Media0(WriteExAudio(packet, fourcc, payload), codec,
                         config(packet, payload), answer(packet, payload)))
  <2>1. packet \in {SequenceStart, CodedFrames, SequenceEnd, MultichannelType} /\ packet # MultichannelType
    BY SMT DEF SequenceStart, CodedFrames, SequenceEnd, MultichannelType
  <2> DEFINE f == fields(packet, payload)
             k == config(packet, payload)
             a == answer(packet, payload)
  <2>2. ASSUME NEW t, t.kind = "audio", t.fields = f, t.amf = <<>>,
               NEW says, says.answer = a, says.codec = codec, says.config = k,
               says.fixedRate = None, says.layout = None
        PROVE  KeptBy(t, says)
    <3>1. says.layout = IF packet = MultichannelType THEN ParseLayout(payload) ELSE None
      BY <2>1, <2>2
    <3> QED
      BY <1>1, <2>1, <2>2, <3>1, ExAudioKept
  <2> HIDE DEF f, k, a
  <2>3. Kept(Media0(Wrote("audio", f, <<>>), codec, k, a))
    BY ONLY <2>2, MediaKept
  <2> QED
    BY <2>3 DEF WriteExAudio, f, k, a
<1>3. SequenceStart # SequenceEnd /\ SequenceStart # CodedFrames /\ CodedFrames # SequenceEnd
      /\ SequenceStart # MultichannelType /\ CodedFrames # MultichannelType /\ <<>> \in Seq(Nat)
  BY SMT DEF SequenceStart, CodedFrames, SequenceEnd, MultichannelType
<1>4. Kept(Start(WriteExAudioStart(fourcc, data), codec, data))
  <2>1. Kept(Media0(WriteExAudio(SequenceStart, fourcc, data), codec,
                    config(SequenceStart, data), answer(SequenceStart, data)))
    BY <1>2
  <2>2. config(SequenceStart, data) = data /\ answer(SequenceStart, data) = Config(data)
    BY <1>3 DEF Config
  <2> QED
    BY <2>1, <2>2 DEF Start, WriteExAudioStart
<1>5. Kept(Sound(WriteExAudioFrames(fourcc, data), codec, data))
  <2>1. Kept(Media0(WriteExAudio(CodedFrames, fourcc, data), codec,
                    config(CodedFrames, data), answer(CodedFrames, data)))
    BY <1>2
  <2>2. config(CodedFrames, data) = <<>> /\ answer(CodedFrames, data) = Picture(TRUE, 0, data)
    BY <1>3 DEF Picture
  <2> QED
    BY <2>1, <2>2 DEF Sound, WriteExAudioFrames
<1>6. Kept(Ending(WriteExAudioSequenceEnd(fourcc), codec))
  <2>1. Kept(Media0(WriteExAudio(SequenceEnd, fourcc, <<>>), codec,
                    config(SequenceEnd, <<>>), answer(SequenceEnd, <<>>)))
    BY <1>2, <1>3
  <2>2. config(SequenceEnd, <<>>) = <<>> /\ answer(SequenceEnd, <<>>) = None
    BY <1>3
  <2> QED
    BY <2>1, <2>2 DEF Ending, WriteExAudioSequenceEnd
<1> QED
  BY <1>4, <1>5, <1>6, Zenon DEF ExAudio, fourcc, codec

(***************************************************************************)
(* Video.                                                                  *)
(***************************************************************************)
\* The packet of a video body of one track.
LEMMA VideoAnswers ==
  ASSUME NEW t, t.kind = "video", NEW data, DataOf(t) = data,
         NEW key \in BOOLEAN, NEW header \in BOOLEAN, NEW discard \in BOOLEAN,
         NEW shift, VideoShift(AsBody(t)) = shift,
         VideoYields(AsBody(t)), AsBody(t).form \in {"ex", "legacy"},
         key <=> AsBody(t).frame = "key",
         discard <=> \/ AsBody(t).frame = "command"
                     \/ AsBody(t).form = "ex" /\ AsBody(t).unit \in {"info", "other"},
         header <=> \/ discard
                    \/ AsBody(t).unit = "config" /\ (AsBody(t).form = "ex" \/ AsBody(t).codec = "avc")
  PROVE  Answers(t, Reply(data, shift, key, header, discard, t.amf))
<1> SUFFICES ASSUME NEW i \in Nat, NEW stream \in Nat
             PROVE  PacketsOf(t, i, stream)
                      = <<Expected(Reply(data, shift, key, header, discard, t.amf)[1], i, stream)>>
  BY DEF Answers, Reply, None
<1> DEFINE b == [body |-> AsBody(t), kind |-> t.kind, ts |-> i]
<1>1. b.body = AsBody(t) /\ b.kind = "video" /\ b.ts = i
  OBVIOUS
<1>2. Yields(b)
  BY <1>1 DEF Yields
<1>3. PacketOf(i, b, stream) = VideoPacket(i, b, stream)
  BY <1>1 DEF PacketOf
<1>4. ~CarriesTracks(AsBody(t))
  BY DEF CarriesTracks, AsBody
<1>5. LegacyFrame(AsBody(t)) = AsBody(t).frame
  BY DEF LegacyFrame
<1>6. VideoPacket(i, b, stream)
        = [tag |-> i, stream |-> stream, pts |-> i + shift, dts |-> i, key |-> key,
           header |-> header, discard |-> discard, track |-> Whole]
  <2> HIDE DEF b
  <2>1. b.body.form = AsBody(t).form /\ b.body.unit = AsBody(t).unit /\ b.body.codec = AsBody(t).codec
        /\ b.body.frame = AsBody(t).frame
    BY <1>1
  <2> DEFINE command == IF b.body.form = "ex" THEN b.body.frame = "command" ELSE LegacyFrame(b.body) = "command"
             opaque == b.body.form = "ex" /\ b.body.unit \in {"info", "other"}
             config == b.body.unit = "config" /\ (b.body.form = "ex" \/ b.body.codec = "avc")
  <2>2. /\ ((IF b.body.form = "ex" THEN b.body.frame ELSE LegacyFrame(b.body)) = "key") = key
        /\ (command \/ opaque \/ config) = header
        /\ (command \/ opaque) = discard
    BY <1>1, <1>5, <2>1, Zenon
  <2>3. VideoPacket(i, b, stream)
          = [tag |-> i, stream |-> stream, pts |-> b.ts + VideoShift(b.body), dts |-> b.ts,
             key |-> ((IF b.body.form = "ex" THEN b.body.frame ELSE LegacyFrame(b.body)) = "key"),
             header |-> (command \/ opaque \/ config), discard |-> (command \/ opaque), track |-> Whole]
    BY <1>1, <1>4, Zenon DEF VideoPacket
  <2> HIDE DEF command, opaque, config
  <2> QED
    BY <1>1, <2>2, <2>3, Zenon
<1>7. PacketsOf(t, i, stream)
        = << [packet |-> PacketOf(i, b, stream), data |-> DataOf(t), amf |-> t.amf] >>
  BY <1>2, Zenon DEF PacketsOf
<1> HIDE DEF b
<1> QED
  BY <1>3, <1>6, <1>7, Zenon DEF Expected, Reply

\* The frame byte of a legacy body.
LEMMA FrameByteIs ==
  ASSUME NEW frame \in Nat, frame <= 7, NEW codec \in Nat, codec <= 15
  PROVE  /\ frame * 16 + codec \in Nat /\ ~(frame * 16 + codec >= 128)
         /\ (frame * 16 + codec) % 16 = codec
         /\ ((frame * 16 + codec) % 128) \div 16 = frame
<1>1. frame * 16 + codec \in Nat /\ frame * 16 + codec <= 127 /\ (frame * 16 + codec) % 16 = codec
  BY SMT
<1>2. (frame * 16 + codec) % 128 = frame * 16 + codec
  BY <1>1, SMT
<1>3. (frame * 16 + codec) \div 16 = frame
  BY SMT
<1> QED
  BY <1>1, <1>2, <1>3, SMT

\* A format without a packet type: a picture, or a command to the player.
LEMMA PlainVideoKept ==
  ASSUME NEW codec \in Nat, codec <= 15, codec # H264, NEW frame \in {KeyFrame, InterFrame, CommandFrame},
         NEW data \in Seq(Nat), codec = Vp6a => data # <<>>,
         NEW t, t.kind = "video", t.fields = <<frame * 16 + codec>> \o data, t.amf = <<>>,
         NEW says, says.codec = VideoCodecStr(codec), says.layout = None,
         says.answer = Reply(data, 0, frame = KeyFrame, frame = CommandFrame, frame = CommandFrame, <<>>),
         says.config = (IF codec = Vp6a THEN <<data[1]>> ELSE <<>>)
  PROVE  KeptBy(t, says)
<1> DEFINE byte == frame * 16 + codec
<1>1. frame \in Nat /\ frame <= 7
  BY SMT DEF KeyFrame, InterFrame, CommandFrame
<1>2. byte \in Nat /\ ~(byte >= 128) /\ byte % 16 = codec /\ (byte % 128) \div 16 = frame
  BY <1>1, FrameByteIs
<1> HIDE DEF byte
<1>3. t.fields = <<byte>> \o data
  BY DEF byte
<1>4. /\ t.fields \in Seq(Nat) /\ t.fields # <<>> /\ t.fields[1] = byte
      /\ Len(data) \in Nat /\ Len(t.fields) = 1 + Len(data)
      /\ SubSeq(t.fields, 2, Len(t.fields)) = data
  BY <1>2, <1>3, Behind1
<1>5. VideoCodec(t) = codec /\ FrameTypeOf(t) = frame
  BY <1>2, <1>4 DEF VideoCodec, FrameTypeOf
<1>6. ~IsEx(t) /\ ~IsAac(t) /\ ~IsAvc(t) /\ ~HasOffset(t)
  BY <1>2, <1>4, <1>5 DEF IsEx, IsAac, IsAvc, HasOffset
<1>7. DataOf(t) = data
  BY <1>4, <1>6 DEF DataOf, DataStart
<1>8. /\ AsBody(t).form = "legacy" /\ AsBody(t).codec = "plain" /\ AsBody(t).unit = "data"
      /\ AsBody(t).frame = IF frame = KeyFrame THEN "key"
                           ELSE IF frame = CommandFrame THEN "command" ELSE "inter"
  <2>1. frame \in {KeyFrame, GeneratedKeyFrame} <=> frame = KeyFrame
    BY SMT DEF KeyFrame, InterFrame, CommandFrame, GeneratedKeyFrame
  <2> QED
    BY <1>4, <1>5, <1>6, <2>1 DEF AsBody
<1>9. VideoYields(AsBody(t)) /\ VideoShift(AsBody(t)) = 0
  BY <1>8 DEF VideoYields, VideoShift
<1>10. KeyFrame # CommandFrame
  BY SMT DEF KeyFrame, CommandFrame
<1>11. Answers(t, Reply(data, 0, frame = KeyFrame, frame = CommandFrame, frame = CommandFrame, t.amf))
  <2> DEFINE key == frame = KeyFrame
             command == frame = CommandFrame
  <2>1. /\ key \in BOOLEAN /\ command \in BOOLEAN
        /\ key <=> AsBody(t).frame = "key"
        /\ command <=> \/ AsBody(t).frame = "command"
                       \/ AsBody(t).form = "ex" /\ AsBody(t).unit \in {"info", "other"}
        /\ command <=> \/ command
                       \/ AsBody(t).unit = "config" /\ (AsBody(t).form = "ex" \/ AsBody(t).codec = "avc")
        /\ AsBody(t).form \in {"ex", "legacy"}
    BY <1>8, <1>10
  <2> HIDE DEF key, command
  <2>2. Answers(t, Reply(data, 0, key, command, command, t.amf))
    BY <1>7, <1>9, <2>1, VideoAnswers
  <2> QED
    BY <2>2 DEF key, command
<1>12. StreamKept(t, says)
  <2> SUFFICES ASSUME NEW stated
               PROVE  VideoStream(t, stated).codec = says.codec /\ VideoStream(t, stated).extradata = says.config
    BY DEF StreamKept
  <2>1. VideoStream(t, stated).codec = VideoCodecStr(codec)
    BY <1>5, <1>6, Zenon DEF VideoStream
  <2>2. VideoStream(t, stated).extradata = VideoConfig(t)
    BY Zenon DEF VideoStream
  <2>3. VideoConfig(t) = IF codec = Vp6a THEN <<data[1]>> ELSE <<>>
    <3>1. codec = Vp6a => Len(t.fields) >= 2 /\ t.fields[2] = data[1]
      <4> SUFFICES ASSUME codec = Vp6a PROVE Len(t.fields) >= 2 /\ t.fields[2] = data[1]
        OBVIOUS
      <4>1. Len(data) # 0
        BY EmptySeq
      <4>2. Len(t.fields) >= 2
        BY <1>4, <4>1, SMT
      <4> DEFINE f == t.fields
                 n == Len(f)
      <4>3. f \in Seq(Nat) /\ n >= 2 /\ n \in Nat
        BY <1>4, <4>2
      <4>4. SubSeq(f, 2, n)[1] = f[2]
        BY <4>3, SMT
      <4> QED
        BY <1>4, <4>2, <4>4
    <3> QED
      BY <1>5, <1>6, <3>1 DEF VideoConfig
  <2> QED
    BY <2>1, <2>2, <2>3, Zenon
<1>13. ~IsLayout(t)
  BY DEF IsLayout
<1> QED
  BY <1>11, <1>12, <1>13 DEF KeptBy, Media

\* A header of one field in front of one of two.
LEMMA TwoMore ==
  ASSUME NEW S, NEW a \in S, NEW b \in S, NEW c \in S, NEW data \in Seq(S)
  PROVE  <<a, b, c>> \o data = <<a>> \o (<<b, c>> \o data)
<1> DEFINE x == <<a>>
           y == <<b, c>>
           z == <<a, b, c>>
<1>1. x \in Seq(S) /\ y \in Seq(S) /\ z \in Seq(S)
  BY SMT
<1>2. /\ Len(x) = 1 /\ x[1] = a /\ Len(y) = 2 /\ y[1] = b /\ y[2] = c
      /\ Len(z) = 3 /\ z[1] = a /\ z[2] = b /\ z[3] = c
  BY SMT
<1> HIDE DEF x, y, z
<1>3. x \o y = z
  <2>1. /\ x \o y \in Seq(S) /\ Len(x \o y) = Len(x) + Len(y)
        /\ \A i \in 1 .. Len(x) + Len(y) : (x \o y)[i] = IF i <= Len(x) THEN x[i] ELSE y[i - Len(x)]
    BY ONLY <1>1, ConcatProperties
  <2>2. Len(x \o y) = 3 /\ (x \o y)[1] = a /\ (x \o y)[2] = b /\ (x \o y)[3] = c
    BY <1>2, <2>1, SMT
  <2>3. Len(x \o y) = Len(z) /\ \A i \in 1 .. Len(x \o y) : (x \o y)[i] = z[i]
    <3>1. \A i \in 1 .. 3 : i = 1 \/ i = 2 \/ i = 3
      BY SMT
    <3> QED
      BY <1>2, <2>2, <3>1
  <2> QED
    BY ONLY <1>1, <2>1, <2>3, SeqEqual
<1>4. (x \o y) \o data = x \o (y \o data)
  BY ONLY <1>1, data \in Seq(S), ConcatAssociative
<1>5. z \o data = x \o (y \o data)
  BY ONLY <1>3, <1>4
<1> QED
  BY <1>5 DEF x, y, z

\* AVC: a packet type and an offset.
LEMMA AvcKept ==
  ASSUME NEW frame \in {KeyFrame, InterFrame, DisposableFrame}, NEW unit \in Nat, unit <= 2,
         NEW raw \in Nat, NEW data \in Seq(Nat),
         NEW t, t.kind = "video", t.fields = <<frame * 16 + H264>> \o (<<unit, raw>> \o data), t.amf = <<>>,
         NEW says, says.codec = "h264", says.layout = None,
         says.config = (IF unit = 0 THEN data ELSE <<>>),
         says.answer = (IF unit = 2 THEN None
                        ELSE Reply(data, IF unit = 1 THEN SignExtended(raw) ELSE 0,
                                   frame = KeyFrame, unit = 0, FALSE, <<>>))
  PROVE  KeptBy(t, says)
<1> DEFINE byte == frame * 16 + H264
<1>1. /\ frame \in Nat /\ frame <= 7 /\ H264 \in Nat /\ H264 <= 15
      /\ frame # CommandFrame /\ frame # GeneratedKeyFrame
  BY SMT DEF KeyFrame, InterFrame, DisposableFrame, H264, CommandFrame, GeneratedKeyFrame
<1>2. byte \in Nat /\ ~(byte >= 128) /\ byte % 16 = H264 /\ (byte % 128) \div 16 = frame
  BY <1>1, FrameByteIs
<1> HIDE DEF byte
<1>3. t.fields = <<byte, unit, raw>> \o data
  <2>1. t.fields = <<byte>> \o (<<unit, raw>> \o data)
    BY DEF byte
  <2> QED
    BY <1>2, <2>1, TwoMore
<1>4. /\ t.fields # <<>> /\ t.fields[1] = byte /\ t.fields[2] = unit /\ t.fields[3] = raw
      /\ Len(data) \in Nat /\ Len(t.fields) = 3 + Len(data)
      /\ SubSeq(t.fields, 4, Len(t.fields)) = data
  <2> DEFINE f == t.fields
  <2>1. byte \in Nat /\ f = <<byte, unit, raw>> \o data
    BY <1>2, <1>3
  <2> HIDE DEF f
  <2>2. /\ f # <<>> /\ f[1] = byte /\ f[2] = unit /\ f[3] = raw
        /\ Len(data) \in Nat /\ Len(f) = 3 + Len(data) /\ SubSeq(f, 4, Len(f)) = data
    BY ONLY <2>1, unit \in Nat, raw \in Nat, data \in Seq(Nat), Behind3
  <2> QED
    BY <2>2 DEF f
<1>5. VideoCodec(t) = H264 /\ FrameTypeOf(t) = frame
  BY <1>2, <1>4 DEF VideoCodec, FrameTypeOf
<1>6. ~IsEx(t) /\ ~IsAac(t) /\ IsAvc(t) /\ ~HasOffset(t)
  BY <1>2, <1>4, <1>5 DEF IsEx, IsAac, IsAvc, HasOffset
<1>7. Field(t, 2, 3) = unit /\ Field(t, 3, 0) = raw
  BY <1>4, SMT DEF Field
<1>8. DataOf(t) = data
  BY <1>1, <1>4, <1>5, <1>6 DEF DataOf, DataStart
<1>9. unit = 0 \/ unit = 1 \/ unit = 2
  BY SMT
<1>10. /\ AsBody(t).form = "legacy" /\ AsBody(t).codec = "avc"
       /\ AsBody(t).unit = IF unit = 0 THEN "config" ELSE IF unit = 1 THEN "data" ELSE "end"
       /\ AsBody(t).frame = IF frame = KeyFrame THEN "key" ELSE "inter"
       /\ AsBody(t).cto = SignExtended(raw)
  <2>1. AsBody(t).unit = LegacyUnit(unit) /\ AsBody(t).cto = SignExtended(raw)
    BY <1>4, <1>6, <1>7 DEF AsBody
  <2>2. AsBody(t).form = "legacy" /\ AsBody(t).codec = "avc"
    BY <1>4, <1>6 DEF AsBody
  <2>3. AsBody(t).frame = IF frame = KeyFrame THEN "key" ELSE "inter"
    BY <1>1, <1>5 DEF AsBody
  <2> QED
    BY <1>9, <2>1, <2>2, <2>3 DEF LegacyUnit
<1>11. Answers(t, says.answer)
  <2>1. CASE unit = 2
    <3>1. 2 # 0 /\ 2 # 1
      BY SMT
    <3>2. AsBody(t).unit = "end" /\ LegacyFrame(AsBody(t)) # "command"
      BY <1>10, <2>1, <3>1 DEF LegacyFrame
    <3>3. ~VideoYields(AsBody(t))
      BY <1>10, <3>2 DEF VideoYields
    <3> QED
      BY <2>1, <3>3, NoAnswer
  <2>2. CASE unit # 2
    <3> DEFINE shift == IF unit = 1 THEN SignExtended(raw) ELSE 0
               key == frame = KeyFrame
               header == unit = 0
    <3>1. LegacyFrame(AsBody(t)) # "command" /\ AsBody(t).frame # "command" /\ 0 # 1
      BY <1>10, SMT DEF LegacyFrame
    <3>2. VideoYields(AsBody(t))
      BY <1>9, <1>10, <2>2, <3>1 DEF VideoYields
    <3>3. VideoShift(AsBody(t)) = shift
      BY <1>9, <1>10, <2>2, <3>1 DEF VideoShift
    <3>4. /\ key \in BOOLEAN /\ header \in BOOLEAN /\ FALSE \in BOOLEAN
          /\ AsBody(t).form \in {"ex", "legacy"}
          /\ key <=> AsBody(t).frame = "key"
          /\ FALSE <=> \/ AsBody(t).frame = "command"
                       \/ AsBody(t).form = "ex" /\ AsBody(t).unit \in {"info", "other"}
          /\ header <=> \/ FALSE
                        \/ AsBody(t).unit = "config" /\ (AsBody(t).form = "ex" \/ AsBody(t).codec = "avc")
      BY <1>9, <1>10, <2>2, <3>1
    <3> HIDE DEF shift, key, header
    <3>5. Answers(t, Reply(data, shift, key, header, FALSE, t.amf))
      BY <1>8, <3>2, <3>3, <3>4, VideoAnswers
    <3> QED
      BY <2>2, <3>5 DEF shift, key, header
  <2> QED
    BY <2>1, <2>2
<1>12. StreamKept(t, says)
  <2> SUFFICES ASSUME NEW stated
               PROVE  VideoStream(t, stated).codec = says.codec /\ VideoStream(t, stated).extradata = says.config
    BY DEF StreamKept
  <2>1. VideoStream(t, stated).codec = VideoCodecStr(H264)
    BY <1>5, <1>6, Zenon DEF VideoStream
  <2>2. VideoStream(t, stated).extradata = VideoConfig(t)
    BY Zenon DEF VideoStream
  <2>3. VideoCodecStr(H264) = "h264"
    BY VideoCodecsAre
  <2>4. VideoConfig(t) = IF unit = 0 THEN data ELSE <<>>
    <3>1. Len(t.fields) >= 3 /\ H264 # Vp6a
      BY <1>4, SMT DEF H264, Vp6a
    <3> QED
      BY <1>4, <1>5, <1>6, <3>1 DEF VideoConfig
  <2> QED
    BY <2>1, <2>2, <2>3, <2>4, Zenon
<1>13. ~IsLayout(t)
  BY DEF IsLayout
<1> QED
  BY <1>11, <1>12, <1>13 DEF KeptBy, Media

\* What fits in 24 bits comes back from them.
LEMMA OffsetsComeBack ==
  ASSUME NEW cto \in Int, FitsSI24(cto)
  PROVE  cto % Whole24 \in Nat /\ SignExtended(cto % Whole24) = cto
<1> DEFINE h == Half24
           w == Whole24
<1>1. h \in Nat /\ h > 0 /\ w = 2 * h
  BY SMT DEF Half24, Whole24
<1>2. -h <= cto /\ cto < h
  BY DEF FitsSI24
<1> HIDE DEF h, w
<1>3. cto % w = IF cto >= 0 THEN cto ELSE cto + w
  <2>1. CASE cto >= 0
    <3>1. cto \in Nat /\ cto < w /\ w > 0 /\ w \in Nat
      BY <1>1, <1>2, <2>1, SMT
    <3> QED
      BY <2>1, <3>1, SMT
  <2>2. CASE ~(cto >= 0)
    <3> DEFINE c == cto + w
    <3>1. c \in Nat /\ c < w /\ w > 0 /\ w \in Nat /\ cto = c - w
      BY <1>1, <1>2, <2>2, SMT
    <3> HIDE DEF c
    <3>2. c - w = w * (-1) + c /\ -1 \in Int
      BY <3>1, SMT
    <3>3. (c - w) % w = c
      BY <3>1, <3>2, SMT
    <3> QED
      BY <2>2, <3>1, <3>3 DEF c
  <2> QED
    BY <2>1, <2>2
<1>4. cto % w \in Nat /\ (IF cto % w >= h THEN (cto % w) - w ELSE cto % w) = cto
  BY <1>1, <1>2, <1>3, SMT
<1> QED
  BY <1>4, Zenon DEF SignExtended, h, w

LEMMA PlainVideoCallKept ==
  ASSUME NEW codec \in Nat, codec <= 15, codec # H264, NEW frame \in {KeyFrame, InterFrame, CommandFrame},
         NEW data \in Seq(Nat), codec = Vp6a => data # <<>>
  PROVE  Kept(Media0(WriteVideo(frame, codec, data), VideoCodecStr(codec),
                     IF codec = Vp6a THEN <<data[1]>> ELSE <<>>,
                     Reply(data, 0, frame = KeyFrame, frame = CommandFrame, frame = CommandFrame, <<>>)))
<1> DEFINE fields == <<frame * 16 + codec>> \o data
           name == VideoCodecStr(codec)
           config == IF codec = Vp6a THEN <<data[1]>> ELSE <<>>
           answer == Reply(data, 0, frame = KeyFrame, frame = CommandFrame, frame = CommandFrame, <<>>)
<1>1. ASSUME NEW t, t.kind = "video", t.fields = fields, t.amf = <<>>,
             NEW says, says.answer = answer, says.codec = name, says.config = config,
             says.fixedRate = None, says.layout = None
      PROVE  KeptBy(t, says)
  BY <1>1, PlainVideoKept
<1> HIDE DEF fields, name, config, answer
<1>2. Kept(Media0(Wrote("video", fields, <<>>), name, config, answer))
  BY ONLY <1>1, MediaKept
<1> QED
  BY <1>2 DEF WriteVideo, fields, name, config, answer

LEMMA AvcCallKept ==
  ASSUME NEW frame \in {KeyFrame, InterFrame, DisposableFrame}, NEW unit \in Nat, unit <= 2,
         NEW raw \in Nat, NEW data \in Seq(Nat)
  PROVE  Kept(Media0(WriteVideo(frame, H264, <<unit, raw>> \o data), "h264",
                     IF unit = 0 THEN data ELSE <<>>,
                     IF unit = 2 THEN None
                     ELSE Reply(data, IF unit = 1 THEN SignExtended(raw) ELSE 0,
                                frame = KeyFrame, unit = 0, FALSE, <<>>)))
<1> DEFINE fields == <<frame * 16 + H264>> \o (<<unit, raw>> \o data)
           config == IF unit = 0 THEN data ELSE <<>>
           answer == IF unit = 2 THEN None
                     ELSE Reply(data, IF unit = 1 THEN SignExtended(raw) ELSE 0,
                                frame = KeyFrame, unit = 0, FALSE, <<>>)
<1>1. ASSUME NEW t, t.kind = "video", t.fields = fields, t.amf = <<>>,
             NEW says, says.answer = answer, says.codec = "h264", says.config = config,
             says.fixedRate = None, says.layout = None
      PROVE  KeptBy(t, says)
  <2>1. /\ t.kind = "video" /\ t.fields = <<frame * 16 + H264>> \o (<<unit, raw>> \o data) /\ t.amf = <<>>
        /\ says.codec = "h264" /\ says.layout = None
        /\ says.config = (IF unit = 0 THEN data ELSE <<>>)
        /\ says.answer = (IF unit = 2 THEN None
                          ELSE Reply(data, IF unit = 1 THEN SignExtended(raw) ELSE 0,
                                     frame = KeyFrame, unit = 0, FALSE, <<>>))
    BY <1>1
  <2> QED
    BY ONLY frame \in {KeyFrame, InterFrame, DisposableFrame}, unit \in Nat, unit <= 2, raw \in Nat,
            data \in Seq(Nat), <2>1, AvcKept
<1> HIDE DEF fields, config, answer
<1>2. Kept(Media0(Wrote("video", fields, <<>>), "h264", config, answer))
  BY ONLY <1>1, MediaKept
<1> QED
  BY <1>2 DEF WriteVideo, fields, config, answer

\* A writer that refused wrote nothing that could be kept.
LEMMA RefusedKept ==
  ASSUME NEW codec, NEW config, NEW answer
  PROVE  Kept(Media0(Refused, codec, config, answer))
<1> DEFINE tags == Refused
           c == Media0(tags, codec, config, answer)
<1> HIDE DEF tags
<1>1. c = Media0(tags, codec, config, answer)
  OBVIOUS
<1> HIDE DEF c
<1>2. c.tags = tags
  BY ONLY <1>1, MediaSays
<1> QED
  BY <1>2 DEF Kept, c, tags

LEMMA LegacyVideoKept ==
  ASSUME NEW key \in BOOLEAN, NEW octet \in Nat, NEW offset \in Int, NEW data \in Seq(Nat)
  PROVE  \A c \in LegacyVideo(key, octet, offset, data) : Kept(c)
<1> DEFINE frame == FrameOf(key)
<1>1. frame \in {KeyFrame, InterFrame} /\ (frame = KeyFrame) = key /\ (frame = CommandFrame) = FALSE
  BY SMT DEF FrameOf, KeyFrame, InterFrame, CommandFrame
<1>2. /\ \A codec \in {Flv1, Vp6, ScreenV1, ScreenV2} :
           codec \in Nat /\ codec <= 15 /\ codec # H264 /\ codec # Vp6a
      /\ Vp6a \in Nat /\ Vp6a <= 15 /\ Vp6a # H264
      /\ 0 \in Nat /\ 0 <= 15 /\ 0 # H264 /\ 0 # Vp6a
  BY SMT DEF Flv1, Vp6, ScreenV1, ScreenV2, H264, Vp6a
<1> HIDE DEF frame
<1>3. \A codec \in {Flv1, Vp6, ScreenV1, ScreenV2} :
        Kept(Pictured(WriteVideo(frame, codec, data), VideoCodecStr(codec), key, data))
  <2> TAKE codec \in {Flv1, Vp6, ScreenV1, ScreenV2}
  <2>1. codec \in Nat /\ codec <= 15 /\ codec # H264 /\ codec # Vp6a
    BY <1>2
  <2>2. Kept(Media0(WriteVideo(frame, codec, data), VideoCodecStr(codec),
                    IF codec = Vp6a THEN <<data[1]>> ELSE <<>>,
                    Reply(data, 0, frame = KeyFrame, frame = CommandFrame, frame = CommandFrame, <<>>)))
    BY <1>1, <2>1, PlainVideoCallKept
  <2> QED
    BY <1>1, <2>1, <2>2, Zenon DEF Pictured, Picture
<1>4. /\ Kept(Pictured(WriteH263(key, data), "flv1", key, data))
      /\ Kept(Pictured(WriteVp6(key, data), "vp6f", key, data))
      /\ Kept(Pictured(WriteScreen(key, data), "flashsv", key, data))
      /\ Kept(Pictured(WriteScreen2(key, data), "flashsv2", key, data))
  BY <1>3, VideoCodecsAre, Zenon DEF WriteH263, WriteVp6, WriteScreen, WriteScreen2, frame
<1>5. Kept(Media0(WriteVp6a(key, octet, data), "vp6a", <<octet>>, Picture(key, 0, <<octet>> \o data)))
  <2> DEFINE payload == <<octet>> \o data
  <2>1. payload \in Seq(Nat) /\ payload # <<>> /\ payload[1] = octet
    BY Behind1
  <2> HIDE DEF payload
  <2>2. Kept(Media0(WriteVideo(frame, Vp6a, payload), VideoCodecStr(Vp6a),
                    IF Vp6a = Vp6a THEN <<payload[1]>> ELSE <<>>,
                    Reply(payload, 0, frame = KeyFrame, frame = CommandFrame, frame = CommandFrame, <<>>)))
    BY <1>1, <1>2, <2>1, PlainVideoCallKept
  <2>3. Kept(Media0(WriteVideo(frame, Vp6a, payload), "vp6a", <<octet>>, Picture(key, 0, payload)))
    BY <1>1, <2>1, <2>2, VideoCodecsAre, Zenon DEF Picture
  <2> QED
    BY <2>3, Zenon DEF WriteVp6a, frame, payload
<1>6. Kept(Media0(WriteInfoCommand(octet), Unnamed(0, "flv:video:", ""), <<>>, Side(FALSE, <<octet>>, <<>>)))
  <2> DEFINE payload == <<octet>>
             codec == 0
  <2>1. payload \in Seq(Nat) /\ codec \in Nat /\ codec <= 15 /\ codec # H264 /\ codec # Vp6a
    BY <1>2
  <2>2. VideoCodecStr(codec) = Unnamed(0, "flv:video:", "")
    BY VideoCodecsAre
  <2>3. (CommandFrame = KeyFrame) = FALSE
    BY SMT DEF CommandFrame, KeyFrame
  <2> HIDE DEF payload, codec
  <2>4. Kept(Media0(WriteVideo(CommandFrame, codec, payload), VideoCodecStr(codec),
                    IF codec = Vp6a THEN <<payload[1]>> ELSE <<>>,
                    Reply(payload, 0, CommandFrame = KeyFrame, CommandFrame = CommandFrame,
                          CommandFrame = CommandFrame, <<>>)))
    BY <2>1, PlainVideoCallKept
  <2>5. Kept(Media0(WriteVideo(CommandFrame, codec, payload), Unnamed(0, "flv:video:", ""),
                    <<>>, Side(FALSE, payload, <<>>)))
    BY <2>1, <2>2, <2>3, <2>4, Zenon DEF Side
  <2> QED
    BY <2>5 DEF WriteInfoCommand, payload, codec
<1>7. Kept(Start(WriteAvcSequenceHeader(data), "h264", data))
  <2> DEFINE unit == 0
  <2>1. unit \in Nat /\ unit <= 2 /\ unit # 2 /\ unit # 1 /\ (unit = 0) = TRUE
    BY SMT
  <2> HIDE DEF unit
  <2>2. Kept(Media0(WriteVideo(KeyFrame, H264, <<unit, unit>> \o data), "h264",
                    IF unit = 0 THEN data ELSE <<>>,
                    IF unit = 2 THEN None
                    ELSE Reply(data, IF unit = 1 THEN SignExtended(unit) ELSE 0,
                               KeyFrame = KeyFrame, unit = 0, FALSE, <<>>)))
    BY <2>1, AvcCallKept
  <2>3. Kept(Media0(WriteVideo(KeyFrame, H264, <<unit, unit>> \o data), "h264", data, Config(data)))
    BY <2>1, <2>2, Zenon DEF Config
  <2> QED
    BY <2>3 DEF Start, WriteAvcSequenceHeader, unit
<1>8. Kept(Media0(WriteAvcNalu(key, offset, data), "h264", <<>>, Picture(key, offset, data)))
  <2>1. CASE FitsSI24(offset)
    <3> DEFINE unit == 1
               raw == offset % Whole24
    <3>1. unit \in Nat /\ unit <= 2 /\ unit # 2 /\ unit = 1 /\ (unit = 0) = FALSE
      BY SMT
    <3>2. raw \in Nat /\ SignExtended(raw) = offset
      BY <2>1, OffsetsComeBack
    <3> HIDE DEF unit, raw
    <3>3. Kept(Media0(WriteVideo(frame, H264, <<unit, raw>> \o data), "h264",
                      IF unit = 0 THEN data ELSE <<>>,
                      IF unit = 2 THEN None
                      ELSE Reply(data, IF unit = 1 THEN SignExtended(raw) ELSE 0,
                                 frame = KeyFrame, unit = 0, FALSE, <<>>)))
      BY <1>1, <3>1, <3>2, AvcCallKept
    <3>4. Kept(Media0(WriteVideo(frame, H264, <<unit, raw>> \o data), "h264", <<>>, Picture(key, offset, data)))
      BY <1>1, <3>1, <3>2, <3>3, Zenon DEF Picture
    <3>5. WriteAvcNalu(key, offset, data) = WriteVideo(frame, H264, <<unit, raw>> \o data)
      BY <2>1 DEF WriteAvcNalu, frame, unit, raw
    <3> QED
      BY <3>4, <3>5
  <2>2. CASE ~FitsSI24(offset)
    <3>1. WriteAvcNalu(key, offset, data) = Refused
      BY <2>2 DEF WriteAvcNalu
    <3> QED
      BY <3>1, RefusedKept
  <2> QED
    BY <2>1, <2>2
<1>9. Kept(Ending(WriteAvcEndOfSequence, "h264"))
  <2> DEFINE unit == 2
             raw == 0
             data0 == <<>>
             both == <<unit, raw>>
  <2>1. unit \in Nat /\ unit <= 2 /\ unit = 2 /\ unit # 0 /\ raw \in Nat /\ data0 \in Seq(Nat)
    BY SMT
  <2>2. both \o data0 = both
    <3>1. both \in Seq(Nat)
      BY <2>1
    <3> HIDE DEF both
    <3> QED
      BY <3>1, ConcatEmptySeq
  <2> HIDE DEF unit, raw
  <2>3. Kept(Media0(WriteVideo(DisposableFrame, H264, both \o data0), "h264",
                    IF unit = 0 THEN data0 ELSE <<>>,
                    IF unit = 2 THEN None
                    ELSE Reply(data0, IF unit = 1 THEN SignExtended(raw) ELSE 0,
                               DisposableFrame = KeyFrame, unit = 0, FALSE, <<>>)))
    <3> HIDE DEF data0
    <3> QED
      BY <2>1, AvcCallKept
  <2> HIDE DEF both
  <2>4. Kept(Media0(WriteVideo(DisposableFrame, H264, both), "h264", <<>>, None))
    BY <2>1, <2>2, <2>3, Zenon
  <2> QED
    BY <2>4 DEF Ending, WriteAvcEndOfSequence, both, unit, raw
<1> QED
  BY <1>4, <1>5, <1>6, <1>7, <1>8, <1>9, Zenon DEF LegacyVideo

(***************************************************************************)
(* Enhanced video.                                                         *)
(***************************************************************************)
\* The first byte of an Ex body.
LEMMA ExByteIs ==
  ASSUME NEW frame \in Nat, frame <= 7, NEW packet \in Nat, packet <= 15
  PROVE  /\ ExByte(128, frame, packet) \in Nat /\ ExByte(128, frame, packet) >= 128
         /\ ExByte(128, frame, packet) % 16 = packet
         /\ (ExByte(128, frame, packet) % 128) \div 16 = frame
<1> DEFINE low == frame * 16 + packet
<1>1. low \in Nat /\ low <= 127 /\ low % 16 = packet /\ low \div 16 = frame
  BY SMT
<1>2. ExByte(128, frame, packet) = 128 + low
  BY SMT DEF ExByte
<1> HIDE DEF low
<1>3. (128 + low) % 128 = low
  BY <1>1, SMT
<1>4. (128 + low) % 16 = low % 16
  BY <1>1, SMT
<1> QED
  BY <1>1, <1>2, <1>3, <1>4, SMT

ExPackets == {SequenceStart, CodedFrames, SequenceEnd, CodedFramesX, Metadata}

\* An Ex body: its answer is a matter of the packet type.
LEMMA ExVideoKept ==
  ASSUME NEW frame \in {KeyFrame, InterFrame}, NEW packet \in ExPackets,
         NEW fourcc \in Nat, NEW data \in Seq(Nat), NEW shift \in Int,
         NEW t, t.kind = "video", t.fields # <<>>,
         t.fields[1] = ExByte(128, frame, packet), t.fields[2] = fourcc,
         DataOf(t) = data, HasOffset(t) => SignExtended(Field(t, 3, 0)) = shift, ~HasOffset(t) => shift = 0,
         NEW says, says.codec = VideoCodecStr(fourcc), says.layout = None,
         says.config = (IF packet = SequenceStart THEN data ELSE <<>>),
         says.answer = (IF packet = SequenceEnd THEN None
                        ELSE Reply(data, shift, frame = KeyFrame, packet \in {SequenceStart, Metadata},
                                   packet = Metadata, t.amf))
  PROVE  KeptBy(t, says)
<1>1. /\ frame \in Nat /\ frame <= 7 /\ packet \in Nat /\ packet <= 15
      /\ frame # CommandFrame /\ frame # GeneratedKeyFrame
  BY SMT DEF KeyFrame, InterFrame, CommandFrame, GeneratedKeyFrame, ExPackets, SequenceStart,
             CodedFrames, SequenceEnd, CodedFramesX, Metadata
<1>2. IsEx(t) /\ ExPacket(t) = packet /\ FrameTypeOf(t) = frame
  BY <1>1, ExByteIs DEF IsEx, ExPacket, FrameTypeOf
<1>3. /\ packet = SequenceStart => ExUnit(t) = "config"
      /\ packet = CodedFrames => ExUnit(t) = "data"
      /\ packet = SequenceEnd => ExUnit(t) = "end"
      /\ packet = CodedFramesX => ExUnit(t) = "dataX"
      /\ packet = Metadata => ExUnit(t) = "info"
  BY <1>2 DEF ExUnit, SequenceStart, CodedFrames, SequenceEnd, CodedFramesX, Metadata
<1>4. ~IsAac(t) /\ ~IsAvc(t)
  BY <1>2 DEF IsAac, IsAvc
<1>5. /\ AsBody(t).form = "ex" /\ AsBody(t).unit = ExUnit(t) /\ AsBody(t).multitrack = FALSE
      /\ AsBody(t).codec = IF HasOffset(t) THEN "avc" ELSE "plain"
      /\ AsBody(t).cto = IF HasOffset(t) THEN shift ELSE 0
      /\ AsBody(t).frame = IF frame = KeyFrame THEN "key" ELSE "inter"
  <2>1. AsBody(t).frame = IF frame = KeyFrame THEN "key" ELSE "inter"
    BY <1>1, <1>2 DEF AsBody
  <2>2. AsBody(t).form = "ex" /\ AsBody(t).unit = ExUnit(t) /\ AsBody(t).multitrack = FALSE
    BY <1>2 DEF AsBody
  <2>3. AsBody(t).codec = IF HasOffset(t) THEN "avc" ELSE "plain"
    BY <1>4, Zenon DEF AsBody
  <2>4. AsBody(t).cto = IF HasOffset(t) THEN SignExtended(Field(t, 3, 0)) ELSE 0
    BY <1>4, Zenon DEF AsBody
  <2> QED
    BY <2>1, <2>2, <2>3, <2>4
<1>6. HasOffset(t) => packet = CodedFrames
  BY <1>2 DEF HasOffset
<1>7. VideoShift(AsBody(t)) = shift
  <2>1. CASE HasOffset(t)
    BY <1>3, <1>5, <1>6, <2>1 DEF VideoShift
  <2>2. CASE ~HasOffset(t)
    BY <1>5, <2>2 DEF VideoShift
  <2> QED
    BY <2>1, <2>2
<1>8. Answers(t, says.answer)
  <2>1. CASE packet = SequenceEnd
    <3>1. ~VideoYields(AsBody(t))
      BY <1>3, <1>5, <2>1 DEF VideoYields
    <3> QED
      BY <2>1, <3>1, NoAnswer
  <2>2. CASE packet # SequenceEnd
    <3> DEFINE key == frame = KeyFrame
               header == packet \in {SequenceStart, Metadata}
               discard == packet = Metadata
    <3>1. VideoYields(AsBody(t))
      BY <1>3, <1>5, <2>2 DEF VideoYields, HasDefaultTrack, ExPackets
    <3>2. SequenceStart # Metadata
      BY SMT DEF SequenceStart, Metadata
    <3>3. key \in BOOLEAN /\ header \in BOOLEAN /\ discard \in BOOLEAN
      OBVIOUS
    <3>4. key <=> AsBody(t).frame = "key"
      BY <1>5
    <3>5. discard <=> \/ AsBody(t).frame = "command"
                      \/ AsBody(t).form = "ex" /\ AsBody(t).unit \in {"info", "other"}
      BY <1>3, <1>5, <2>2 DEF ExPackets
    <3>6. header <=> \/ discard
                     \/ AsBody(t).unit = "config" /\ (AsBody(t).form = "ex" \/ AsBody(t).codec = "avc")
      BY <1>3, <1>5, <2>2 DEF ExPackets
    <3>7. AsBody(t).form \in {"ex", "legacy"}
      BY <1>5
    <3> HIDE DEF key, header, discard
    <3>8. Answers(t, Reply(data, shift, key, header, discard, t.amf))
      BY <1>7, <3>1, <3>3, <3>4, <3>5, <3>6, <3>7, VideoAnswers
    <3> QED
      BY <2>2, <3>8 DEF key, header, discard
  <2> QED
    BY <2>1, <2>2
<1>9. StreamKept(t, says)
  <2> SUFFICES ASSUME NEW stated
               PROVE  VideoStream(t, stated).codec = says.codec /\ VideoStream(t, stated).extradata = says.config
    BY DEF StreamKept
  <2>1. VideoStream(t, stated).codec = VideoCodecStr(fourcc)
    BY <1>2, Zenon DEF VideoStream
  <2>2. VideoStream(t, stated).extradata = VideoConfig(t)
    BY Zenon DEF VideoStream
  <2>3. VideoConfig(t) = IF packet = SequenceStart THEN data ELSE <<>>
    BY <1>2, <1>4 DEF VideoConfig, ExConfig
  <2> QED
    BY <2>1, <2>2, <2>3, Zenon
<1>10. ~IsLayout(t)
  BY DEF IsLayout
<1> QED
  BY <1>8, <1>9, <1>10 DEF KeptBy, Media

\* The fields of an Ex body: an offset stands behind the FourCC, or nothing does.
LEMMA OffsetFields ==
  ASSUME NEW a \in Nat, NEW b \in Nat, NEW data \in Seq(Nat), NEW g(_)
  PROVE  /\ <<a, b>> \o [i \in 1 .. Len(<<>>) |-> g(i)] \o data = <<a, b>> \o data
         /\ g(1) \in Nat => \A o : <<a, b>> \o [i \in 1 .. Len(<<o>>) |-> g(i)] \o data
                                      = <<a, b, g(1)>> \o data
<1> DEFINE x == <<a, b>>
           none == [i \in 1 .. Len(<<>>) |-> g(i)]
<1>1. x \in Seq(Nat) /\ Len(x) = 2 /\ x[1] = a /\ x[2] = b
  BY SMT
<1>2. x \o none = x
  <2>1. none = <<>>
    BY SMT
  <2> HIDE DEF x, none
  <2> QED
    BY <1>1, <2>1, ConcatEmptySeq
<1>3. ASSUME g(1) \in Nat, NEW o
      PROVE  x \o [i \in 1 .. Len(<<o>>) |-> g(i)] \o data = <<a, b, g(1)>> \o data
  <2> DEFINE one == [i \in 1 .. Len(<<o>>) |-> g(i)]
             y == <<a, b, g(1)>>
  <2>1. one \in Seq(Nat) /\ Len(one) = 1 /\ one[1] = g(1)
    <3>1. Len(<<o>>) = 1 /\ 1 \in Nat /\ \A i \in 1 .. 1 : i = 1
      BY SMT
    <3>2. one = [i \in 1 .. 1 |-> g(i)]
      BY <3>1
    <3>3. one \in [1 .. 1 -> Nat] /\ one[1] = g(1)
      <4>1. 1 \in 1 .. 1
        BY SMT
      <4> QED
        BY <1>3, <3>1, <3>2, <4>1
    <3> HIDE DEF one
    <3>4. one \in Seq(Nat)
      BY <3>1, <3>3, SeqDef
    <3>5. Len(one) = 1
      BY <3>1, <3>3, <3>4, LenProperties, SMT
    <3> QED
      BY <3>3, <3>4, <3>5
  <2>2. y \in Seq(Nat) /\ Len(y) = 3 /\ y[1] = a /\ y[2] = b /\ y[3] = g(1)
    BY <1>3, SMT
  <2> HIDE DEF x, y, one
  <2>3. /\ x \o one \in Seq(Nat) /\ Len(x \o one) = Len(x) + Len(one)
        /\ \A i \in 1 .. Len(x) + Len(one) :
             (x \o one)[i] = IF i <= Len(x) THEN x[i] ELSE one[i - Len(x)]
    BY <1>1, <2>1, ConcatProperties
  <2>4. Len(x \o one) = 3 /\ (x \o one)[1] = a /\ (x \o one)[2] = b /\ (x \o one)[3] = g(1)
    BY <1>1, <2>1, <2>3, SMT
  <2>5. Len(x \o one) = Len(y) /\ \A i \in 1 .. Len(x \o one) : (x \o one)[i] = y[i]
    <3>1. \A i \in 1 .. 3 : i = 1 \/ i = 2 \/ i = 3
      BY SMT
    <3> QED
      BY <2>2, <2>4, <3>1
  <2>6. x \o one = y
    BY ONLY <2>2, <2>3, <2>5, SeqEqual
  <2>7. (x \o one) \o data = y \o data
    BY <2>6
  <2> QED
    BY <2>7 DEF y, one
<1>4. (x \o none) \o data = x \o data
  BY <1>2
<1> QED
  BY <1>3, <1>4

\* A call of a writer of Ex bodies with one track.
LEMMA ExVideoCallKept ==
  ASSUME NEW frame \in {KeyFrame, InterFrame}, NEW packet \in ExPackets, NEW fourcc \in Nat,
         NEW cto, cto = <<>> \/ \E o \in Int : cto = <<o>>, NEW data \in Seq(Nat), NEW amf,
         NEW c, c.tags = WriteExVideo(frame, packet, fourcc, cto, data, amf),
         c.says.codec = VideoCodecStr(fourcc), c.says.layout = None,
         c.says.config = (IF packet = SequenceStart THEN data ELSE <<>>),
         c.says.answer = (IF packet = SequenceEnd THEN None
                          ELSE Reply(data, IF cto = <<>> THEN 0 ELSE cto[1], frame = KeyFrame,
                                     packet \in {SequenceStart, Metadata}, packet = Metadata, amf))
  PROVE  Kept(c)
<1> DEFINE says == c.says
           byte == ExByte(128, frame, packet)
           shift == IF cto = <<>> THEN 0 ELSE cto[1]
           offset == packet = CodedFrames /\ fourcc \in Reordering
           fields == <<byte, fourcc>> \o [i \in 1 .. Len(cto) |-> cto[i] % Whole24] \o data
<1>1. CASE c.tags = Refused
  BY <1>1 DEF Kept
<1>2. CASE c.tags # Refused
  <2>1. ~(offset # (cto # <<>>)) /\ ~(cto # <<>> /\ ~FitsSI24(cto[1]))
    BY <1>2 DEF WriteExVideo
  <2>2. c.tags = Wrote("video", fields, amf)
    BY <2>1 DEF WriteExVideo
  <2>3. byte \in Nat /\ byte >= 128 /\ byte % 16 = packet
    <3>1. frame \in Nat /\ frame <= 7 /\ packet \in Nat /\ packet <= 15
      BY SMT DEF KeyFrame, InterFrame, ExPackets, SequenceStart, CodedFrames, SequenceEnd,
                 CodedFramesX, Metadata
    <3>2. /\ ExByte(128, frame, packet) \in Nat /\ ExByte(128, frame, packet) >= 128
          /\ ExByte(128, frame, packet) % 16 = packet
      BY ONLY <3>1, ExByteIs
    <3> QED
      BY <3>2
  <2>4. /\ says.codec = VideoCodecStr(fourcc) /\ says.layout = None
        /\ says.config = (IF packet = SequenceStart THEN data ELSE <<>>)
        /\ says.answer = (IF packet = SequenceEnd THEN None
                          ELSE Reply(data, shift, frame = KeyFrame, packet \in {SequenceStart, Metadata},
                                     packet = Metadata, amf))
    OBVIOUS
  <2>5. byte = ExByte(128, frame, packet)
    OBVIOUS
  <2> HIDE DEF byte, says, shift
  <2>6. ASSUME NEW t, t.kind = "video", t.amf = amf, t.fields # <<>>, t.fields[1] = byte, t.fields[2] = fourcc,
               DataOf(t) = data, shift \in Int,
               HasOffset(t) => SignExtended(Field(t, 3, 0)) = shift, ~HasOffset(t) => shift = 0
        PROVE  KeptBy(t, says)
    <3>1. /\ t.kind = "video" /\ t.fields # <<>> /\ t.fields[2] = fourcc
          /\ t.fields[1] = ExByte(128, frame, packet)
          /\ DataOf(t) = data /\ shift \in Int
          /\ HasOffset(t) => SignExtended(Field(t, 3, 0)) = shift
          /\ ~HasOffset(t) => shift = 0
      BY <2>5, <2>6
    <3>2. says.answer = (IF packet = SequenceEnd THEN None
                         ELSE Reply(data, shift, frame = KeyFrame, packet \in {SequenceStart, Metadata},
                                    packet = Metadata, t.amf))
      BY <2>4, <2>6
    <3> QED
      BY ONLY <2>4, <3>1, <3>2, frame \in {KeyFrame, InterFrame}, packet \in ExPackets, fourcc \in Nat,
              data \in Seq(Nat), ExVideoKept
  <2>7. ASSUME NEW t, t.kind = "video", t.fields = fields, t.amf = amf PROVE KeptBy(t, says)
    <3> DEFINE raw == cto[1] % Whole24
    <3>1. CASE cto = <<>>
      <4>1. t.fields = <<byte, fourcc>> \o data
        <5> DEFINE g(i) == cto[i] % Whole24
        <5> HIDE DEF g
        <5>1. <<byte, fourcc>> \o [i \in 1 .. Len(<<>>) |-> g(i)] \o data = <<byte, fourcc>> \o data
          BY <2>3, OffsetFields
        <5> QED
          BY <2>7, <3>1, <5>1 DEF g
      <4>2. /\ t.fields # <<>> /\ t.fields[1] = byte /\ t.fields[2] = fourcc
            /\ SubSeq(t.fields, 3, Len(t.fields)) = data
        BY <2>3, <4>1, Behind2
      <4>3. IsEx(t) /\ ExPacket(t) = packet
        BY <2>3, <2>7, <4>2 DEF IsEx, ExPacket
      <4>4. ~HasOffset(t)
        BY <2>1, <3>1, <4>2, <4>3 DEF HasOffset
      <4>5. DataOf(t) = data
        BY <4>2, <4>3, <4>4 DEF DataOf, DataStart
      <4>6. shift = 0 /\ shift \in Int
        BY <3>1 DEF shift
      <4> QED
        BY <2>7, <2>6, <4>2, <4>4, <4>5, <4>6
    <3>2. CASE cto # <<>>
      <4>0. PICK o \in Int : cto = <<o>>
        BY <3>2
      <4>1. raw \in Nat /\ SignExtended(raw) = shift /\ shift \in Int
        <5>1. cto[1] \in Int /\ FitsSI24(cto[1])
          BY <2>1, <3>2, <4>0
        <5> QED
          BY <3>2, <5>1, OffsetsComeBack DEF shift
      <4>2. t.fields = <<byte, fourcc, raw>> \o data
        <5> DEFINE g(i) == cto[i] % Whole24
        <5>1. raw = g(1)
          OBVIOUS
        <5> HIDE DEF g, raw
        <5>2. <<byte, fourcc>> \o [i \in 1 .. Len(<<o>>) |-> g(i)] \o data = <<byte, fourcc, g(1)>> \o data
          BY <2>3, <4>1, <5>1, OffsetFields
        <5>3. t.fields = <<byte, fourcc>> \o [i \in 1 .. Len(<<o>>) |-> g(i)] \o data
          BY <2>7, <4>0 DEF g
        <5> QED
          BY <5>1, <5>2, <5>3
      <4> HIDE DEF raw
      <4>3. /\ t.fields # <<>> /\ t.fields[1] = byte /\ t.fields[2] = fourcc /\ t.fields[3] = raw
            /\ Len(data) \in Nat /\ Len(t.fields) = 3 + Len(data)
            /\ SubSeq(t.fields, 4, Len(t.fields)) = data
        <5> DEFINE f == t.fields
        <5>1. f = <<byte, fourcc, raw>> \o data
          BY <4>2
        <5> HIDE DEF f
        <5>2. /\ f # <<>> /\ f[1] = byte /\ f[2] = fourcc /\ f[3] = raw
              /\ Len(data) \in Nat /\ Len(f) = 3 + Len(data) /\ SubSeq(f, 4, Len(f)) = data
          BY ONLY <2>3, <4>1, <5>1, fourcc \in Nat, data \in Seq(Nat), Behind3
        <5> QED
          BY <5>2 DEF f
      <4>4. IsEx(t) /\ ExPacket(t) = packet
        BY <2>3, <2>7, <4>3 DEF IsEx, ExPacket
      <4>5. HasOffset(t)
        BY <2>1, <2>7, <3>2, <4>3, <4>4 DEF HasOffset
      <4>6. DataOf(t) = data
        BY <4>3, <4>4, <4>5 DEF DataOf, DataStart
      <4>7. Field(t, 3, 0) = raw
        <5>1. 3 <= Len(t.fields)
          BY <4>3, SMT
        <5> QED
          BY <4>3, <5>1 DEF Field
      <4> QED
        BY <2>7, <2>6, <4>1, <4>3, <4>5, <4>6, <4>7
    <3> QED
      BY <3>1, <3>2
  <2> HIDE DEF fields
  <2> QED
    BY <2>2, <2>7, KeptTag DEF says
<1> QED
  BY <1>1, <1>2

LEMMA MediaExVideoKept ==
  ASSUME NEW frame \in {KeyFrame, InterFrame}, NEW packet \in ExPackets, NEW fourcc \in Nat,
         NEW cto, cto = <<>> \/ \E o \in Int : cto = <<o>>, NEW data \in Seq(Nat), NEW shift,
         shift = IF cto = <<>> THEN 0 ELSE cto[1]
  PROVE  Kept(Media0(WriteExVideo(frame, packet, fourcc, cto, data, <<>>), VideoCodecStr(fourcc),
                     IF packet = SequenceStart THEN data ELSE <<>>,
                     IF packet = SequenceEnd THEN None
                     ELSE Reply(data, shift, frame = KeyFrame,
                                packet \in {SequenceStart, Metadata}, packet = Metadata, <<>>)))
<1> DEFINE tags == WriteExVideo(frame, packet, fourcc, cto, data, <<>>)
           name == VideoCodecStr(fourcc)
           config == IF packet = SequenceStart THEN data ELSE <<>>
           answer == IF packet = SequenceEnd THEN None
                     ELSE Reply(data, shift, frame = KeyFrame,
                                packet \in {SequenceStart, Metadata}, packet = Metadata, <<>>)
           c == Media0(tags, name, config, answer)
<1> HIDE DEF tags, name, config, answer
<1>1. c = Media0(tags, name, config, answer)
  OBVIOUS
<1> HIDE DEF c
<1>2. /\ c.tags = tags /\ c.says.answer = answer /\ c.says.codec = name /\ c.says.config = config
      /\ c.says.layout = None
  BY ONLY <1>1, MediaSays
<1>3. /\ c.tags = WriteExVideo(frame, packet, fourcc, cto, data, <<>>)
      /\ c.says.codec = VideoCodecStr(fourcc) /\ c.says.layout = None
      /\ c.says.config = (IF packet = SequenceStart THEN data ELSE <<>>)
      /\ c.says.answer = (IF packet = SequenceEnd THEN None
                          ELSE Reply(data, IF cto = <<>> THEN 0 ELSE cto[1], frame = KeyFrame,
                                     packet \in {SequenceStart, Metadata}, packet = Metadata, <<>>))
  BY <1>2 DEF tags, name, config, answer
<1>4. cto = <<>> \/ \E o \in Int : cto = <<o>>
  OBVIOUS
<1>5. Kept(c)
  BY ONLY <1>3, <1>4, frame \in {KeyFrame, InterFrame}, packet \in ExPackets, fourcc \in Nat,
          data \in Seq(Nat), ExVideoCallKept
<1> QED
  BY <1>5 DEF c, tags, name, config, answer

LEMMA VideoNamesAre ==
  /\ \A name \in VideoNames : name[1] \in Nat /\ VideoCodecStr(name[1]) = name[2]
  /\ Hvc1 \in Nat /\ VideoCodecStr(Hvc1) = "h265"
<1>1. Av01 \in Nat /\ Vp09 \in Nat /\ Vp08 \in Nat /\ Hvc1 \in Nat /\ Avc1 \in Nat /\ Vvc1 \in Nat
  BY SMT DEF Av01, Vp09, Vp08, Hvc1, Avc1, Vvc1
<1>2. /\ VideoCodecStr(Avc1) = "h264" /\ VideoCodecStr(Av01) = "av1" /\ VideoCodecStr(Vp09) = "vp9"
      /\ VideoCodecStr(Vp08) = "vp8" /\ VideoCodecStr(Hvc1) = "h265" /\ VideoCodecStr(Vvc1) = "h266"
  BY VideoCodecsAre
<1> QED
  BY <1>1, <1>2, SMT DEF VideoNames

LEMMA ExVideoCallsKept ==
  ASSUME NEW name \in VideoNames, NEW key \in BOOLEAN, NEW offset \in Int, NEW data \in Seq(Nat)
  PROVE  \A c \in ExVideo(name, key, offset, data) : Kept(c)
<1> DEFINE frame == FrameOf(key)
           none == <<>>
           zero == 0
<1>1. /\ frame \in {KeyFrame, InterFrame} /\ (frame = KeyFrame) = key /\ KeyFrame \in {KeyFrame, InterFrame}
  BY SMT DEF FrameOf, KeyFrame, InterFrame
<1>2. /\ SequenceStart \in ExPackets /\ CodedFrames \in ExPackets /\ SequenceEnd \in ExPackets
      /\ CodedFramesX \in ExPackets
      /\ SequenceStart # SequenceEnd /\ CodedFrames # SequenceEnd /\ CodedFramesX # SequenceEnd
      /\ CodedFrames # SequenceStart /\ CodedFramesX # SequenceStart
      /\ (SequenceStart = Metadata) = FALSE /\ (CodedFrames = Metadata) = FALSE
      /\ (CodedFramesX = Metadata) = FALSE
      /\ (SequenceStart \in {SequenceStart, Metadata}) = TRUE
      /\ (CodedFrames \in {SequenceStart, Metadata}) = FALSE
      /\ (CodedFramesX \in {SequenceStart, Metadata}) = FALSE
  BY SMT DEF ExPackets, SequenceStart, CodedFrames, SequenceEnd, CodedFramesX, Metadata
<1>3. name[1] \in Nat /\ VideoCodecStr(name[1]) = name[2] /\ Hvc1 \in Nat /\ VideoCodecStr(Hvc1) = "h265"
  BY VideoNamesAre
<1>4. /\ none \in Seq(Nat) /\ (none = <<>> \/ \E o \in Int : none = <<o>>)
      /\ zero = IF none = <<>> THEN 0 ELSE none[1]
  OBVIOUS
<1> DEFINE fourcc == name[1]
<1> HIDE DEF frame, none, zero, fourcc
<1>5. Kept(Start(WriteSequenceStart(fourcc, data), name[2], data))
  <2>1. Kept(Media0(WriteExVideo(KeyFrame, SequenceStart, fourcc, none, data, <<>>), VideoCodecStr(fourcc),
                    IF SequenceStart = SequenceStart THEN data ELSE <<>>,
                    IF SequenceStart = SequenceEnd THEN None
                    ELSE Reply(data, zero, KeyFrame = KeyFrame,
                               SequenceStart \in {SequenceStart, Metadata}, SequenceStart = Metadata, <<>>)))
    BY <1>1, <1>2, <1>3, <1>4, MediaExVideoKept DEF fourcc
  <2>2. Kept(Media0(WriteExVideo(KeyFrame, SequenceStart, fourcc, none, data, <<>>), name[2], data,
                    Reply(data, zero, TRUE, TRUE, FALSE, <<>>)))
    BY <1>2, <1>3, <2>1, Zenon DEF fourcc
  <2> QED
    BY <2>2 DEF Start, WriteSequenceStart, Config, none, zero
<1>6. Kept(ExCodedFrames(name, key, offset, data))
  <2>1. CASE fourcc \in Reordering
    <3> DEFINE cto == <<offset>>
    <3>1. /\ cto = <<>> \/ \E o \in Int : cto = <<o>>
          /\ offset = IF cto = <<>> THEN 0 ELSE cto[1]
      OBVIOUS
    <3> HIDE DEF cto
    <3>2. Kept(Media0(WriteExVideo(frame, CodedFrames, fourcc, cto, data, <<>>), VideoCodecStr(fourcc),
                      IF CodedFrames = SequenceStart THEN data ELSE <<>>,
                      IF CodedFrames = SequenceEnd THEN None
                      ELSE Reply(data, offset, frame = KeyFrame,
                                 CodedFrames \in {SequenceStart, Metadata}, CodedFrames = Metadata, <<>>)))
      BY <1>1, <1>2, <1>3, <3>1, MediaExVideoKept DEF fourcc
    <3>3. Kept(Media0(WriteExVideo(frame, CodedFrames, fourcc, cto, data, <<>>), name[2], <<>>,
                      Picture(key, offset, data)))
      BY <1>1, <1>2, <1>3, <3>2, Zenon DEF Picture, fourcc
    <3> QED
      BY <2>1, <3>3 DEF ExCodedFrames, WriteCodedFrames, frame, fourcc, cto
  <2>2. CASE fourcc \notin Reordering
    <3>1. Kept(Media0(WriteExVideo(frame, CodedFrames, fourcc, none, data, <<>>), VideoCodecStr(fourcc),
                      IF CodedFrames = SequenceStart THEN data ELSE <<>>,
                      IF CodedFrames = SequenceEnd THEN None
                      ELSE Reply(data, zero, frame = KeyFrame,
                                 CodedFrames \in {SequenceStart, Metadata}, CodedFrames = Metadata, <<>>)))
      BY <1>1, <1>2, <1>3, <1>4, MediaExVideoKept DEF fourcc
    <3>2. Kept(Media0(WriteExVideo(frame, CodedFrames, fourcc, none, data, <<>>), name[2], <<>>,
                      Picture(key, zero, data)))
      BY <1>1, <1>2, <1>3, <3>1, Zenon DEF Picture, fourcc
    <3> QED
      BY <2>2, <3>2 DEF ExCodedFrames, WriteCodedFrames, Pictured, frame, fourcc, none, zero
  <2> QED
    BY <2>1, <2>2
<1>7. Kept(Pictured(WriteHevcCodedFramesX(key, data), "h265", key, data))
  <2>1. Kept(Media0(WriteExVideo(frame, CodedFramesX, Hvc1, none, data, <<>>), VideoCodecStr(Hvc1),
                    IF CodedFramesX = SequenceStart THEN data ELSE <<>>,
                    IF CodedFramesX = SequenceEnd THEN None
                    ELSE Reply(data, zero, frame = KeyFrame,
                               CodedFramesX \in {SequenceStart, Metadata}, CodedFramesX = Metadata, <<>>)))
    BY <1>1, <1>2, <1>3, <1>4, MediaExVideoKept
  <2>2. Kept(Media0(WriteExVideo(frame, CodedFramesX, Hvc1, none, data, <<>>), "h265", <<>>,
                    Picture(key, zero, data)))
    BY <1>1, <1>2, <1>3, <2>1, Zenon DEF Picture
  <2> QED
    BY <2>2 DEF WriteHevcCodedFramesX, Pictured, frame, none, zero
<1>8. Kept(Ending(WriteExVideoSequenceEnd(fourcc), name[2]))
  <2>1. Kept(Media0(WriteExVideo(KeyFrame, SequenceEnd, fourcc, none, none, <<>>), VideoCodecStr(fourcc),
                    IF SequenceEnd = SequenceStart THEN none ELSE <<>>,
                    IF SequenceEnd = SequenceEnd THEN None
                    ELSE Reply(none, zero, KeyFrame = KeyFrame,
                               SequenceEnd \in {SequenceStart, Metadata}, SequenceEnd = Metadata, <<>>)))
    BY <1>1, <1>2, <1>3, <1>4, MediaExVideoKept DEF fourcc
  <2>2. Kept(Media0(WriteExVideo(KeyFrame, SequenceEnd, fourcc, none, none, <<>>), name[2], <<>>, None))
    BY <1>2, <1>3, <2>1, Zenon DEF fourcc
  <2> QED
    BY <2>2 DEF Ending, WriteExVideoSequenceEnd, none
<1> QED
  BY <1>5, <1>6, <1>7, <1>8, Zenon DEF ExVideo, fourcc

\* Metadata frames.
LEMMA SideVideoKept ==
  ASSUME NEW name \in VideoNames, NEW amf, NEW color
  PROVE  Kept(SideVideo(WriteExVideoMetadata(name[1], amf), name, amf, color))
<1> DEFINE tags == WriteExVideoMetadata(name[1], amf)
           c == SideVideo(tags, name, amf, color)
           none == <<>>
<1> HIDE DEF tags
<1>1. c = SideVideo(tags, name, amf, color)
  OBVIOUS
<1> HIDE DEF c
<1>2. /\ c.tags = tags /\ c.says.answer = Side(TRUE, <<>>, amf) /\ c.says.codec = name[2]
      /\ c.says.config = <<>> /\ c.says.layout = None
  BY ONLY <1>1 DEF SideVideo, Call, Nothing
<1>3. name[1] \in Nat /\ VideoCodecStr(name[1]) = name[2]
  BY VideoNamesAre
<1>4. /\ Metadata \in ExPackets /\ KeyFrame \in {KeyFrame, InterFrame}
      /\ Metadata # SequenceStart /\ Metadata # SequenceEnd
  BY SMT DEF ExPackets, Metadata, SequenceStart, SequenceEnd
<1>5. /\ none \in Seq(Nat) /\ (none = <<>> \/ \E o \in Int : none = <<o>>) /\ none = <<>>
  OBVIOUS
<1> DEFINE frame == KeyFrame
           packet == Metadata
           fourcc == name[1]
<1>6. /\ packet \in ExPackets /\ frame \in {KeyFrame, InterFrame} /\ fourcc \in Nat
      /\ (frame = KeyFrame) = TRUE /\ (packet \in {SequenceStart, Metadata}) = TRUE /\ (packet = Metadata) = TRUE
      /\ packet # SequenceStart /\ packet # SequenceEnd
  BY <1>3, <1>4
<1>7. c.tags = WriteExVideo(frame, packet, fourcc, none, none, amf) /\ c.says.codec = VideoCodecStr(fourcc)
  BY <1>2, <1>3, <1>5 DEF tags, WriteExVideoMetadata
<1> HIDE DEF none, frame, packet, fourcc
<1>8. /\ c.says.layout = None
      /\ c.says.config = (IF packet = SequenceStart THEN none ELSE <<>>)
      /\ c.says.answer = (IF packet = SequenceEnd THEN None
                          ELSE Reply(none, IF none = <<>> THEN 0 ELSE none[1], frame = KeyFrame,
                                     packet \in {SequenceStart, Metadata}, packet = Metadata, amf))
  BY <1>2, <1>5, <1>6, Zenon DEF Side
<1>9. Kept(c)
  <2>1. /\ c.tags = WriteExVideo(frame, packet, fourcc, none, none, amf)
        /\ c.says.codec = VideoCodecStr(fourcc) /\ c.says.layout = None
        /\ c.says.config = (IF packet = SequenceStart THEN none ELSE <<>>)
        /\ c.says.answer = (IF packet = SequenceEnd THEN None
                            ELSE Reply(none, IF none = <<>> THEN 0 ELSE none[1], frame = KeyFrame,
                                       packet \in {SequenceStart, Metadata}, packet = Metadata, amf))
    BY ONLY <1>7, <1>8
  <2>2. none = <<>> \/ \E o \in Int : none = <<o>>
    BY <1>5
  <2>3. packet \in ExPackets /\ frame \in {KeyFrame, InterFrame} /\ fourcc \in Nat /\ none \in Seq(Nat)
    BY <1>5, <1>6
  <2> QED
    BY ONLY <2>1, <2>2, <2>3, ExVideoCallKept
<1> QED
  BY <1>9 DEF c, tags

LEMMA ColorFramesKept == \A c \in ColorFrames : Kept(c)
<1>1. ASSUME NEW name \in VideoNames, NEW ci PROVE Kept(ColorFrame(name, ci))
  <2>1. CASE ColorEncodable(ci)
    <3>1. WriteColorInfo(name[1], ci) = WriteExVideoMetadata(name[1], EncodeColor(ci))
      BY <2>1 DEF WriteColorInfo
    <3> QED
      BY <3>1, SideVideoKept, Zenon DEF ColorFrame
  <2>2. CASE ~ColorEncodable(ci)
    <3>1. WriteColorInfo(name[1], ci) = Refused
      BY <2>2 DEF WriteColorInfo
    <3> DEFINE amf == EncodeColor(ci)
               color == <<ci>>
               c == SideVideo(WriteColorInfo(name[1], ci), name, amf, color)
    <3> HIDE DEF amf, color
    <3>2. c.tags = Refused
      BY <3>1 DEF SideVideo, Call
    <3> HIDE DEF c
    <3>3. Kept(c)
      BY <3>2 DEF Kept
    <3> QED
      BY <3>3, Zenon DEF ColorFrame, c, amf, color
  <2> QED
    BY <2>1, <2>2
<1>2. ASSUME NEW name \in VideoNames PROVE Kept(ColorReset(name))
  <2>1. WriteColorInfoReset(name[1]) = WriteExVideoMetadata(name[1], <<String("colorInfo"), Undefined>>)
    BY Zenon DEF WriteColorInfoReset
  <2> QED
    BY <2>1, SideVideoKept, Zenon DEF ColorReset
<1>3. ASSUME NEW name \in VideoNames, NEW amf, NEW color PROVE Kept(ForeignFrame(name, amf, color))
  BY SideVideoKept, Zenon DEF ForeignFrame
<1>4. ASSUME NEW c \in ColorFrames PROVE Kept(c)
  <2>1. \/ \E name \in VideoNames, ci \in ColorInfos : c = ColorFrame(name, ci)
        \/ \E name \in VideoNames : c = ColorReset(name)
        \/ \E name \in VideoNames, amf \in AmfBodies, color \in {None} \cup {<<ci>> : ci \in ColorInfos} :
             c = ForeignFrame(name, amf, color)
    BY SMT DEF ColorFrames
  <2> QED
    BY <1>1, <1>2, <1>3, <2>1
<1> QED
  BY <1>4

(***************************************************************************)
(* Speaker layouts.                                                        *)
(***************************************************************************)
\* What stands in front of a sequence.
LEMMA InFront ==
  ASSUME NEW S, NEW a \in Seq(S), NEW b \in Seq(S)
  PROVE  /\ a \o b \in Seq(S) /\ Len(a \o b) = Len(a) + Len(b) /\ Len(a) \in Nat /\ Len(b) \in Nat
         /\ SubSeq(a \o b, 1, Len(a)) = a
<1> DEFINE f == a \o b
           n == Len(a)
           m == Len(b)
           g == SubSeq(f, 1, n)
<1>1. n \in Nat /\ m \in Nat
  BY LenProperties
<1>2. f \in Seq(S) /\ Len(f) = n + m /\ \A i \in 1 .. n + m : f[i] = IF i <= n THEN a[i] ELSE b[i - n]
  BY ConcatProperties
<1> HIDE DEF f
<1>3. 1 \in Int /\ n \in Int /\ \A i \in 1 .. n : f[i] \in S
  <2>1. \A i \in 1 .. n : i \in 1 .. Len(f)
    BY <1>1, <1>2, SMT
  <2>2. \A i \in 1 .. n : f[i] \in S
    BY <1>2, <2>1, ElementOfSeq
  <2> QED
    BY <1>1, <2>2, SMT
<1> HIDE DEF n, m
<1>4. /\ g \in Seq(S) /\ Len(g) = IF 1 <= n THEN n - 1 + 1 ELSE 0
      /\ \A i \in 1 .. n - 1 + 1 : g[i] = f[1 + i - 1]
  BY ONLY <1>3, SubSeqProperties
<1> HIDE DEF g
<1>5. Len(g) = n
  BY <1>1, <1>4, SMT
<1>6. \A i \in 1 .. n : g[i] = a[i]
  <2> TAKE i \in 1 .. n
  <2>1. i \in 1 .. n - 1 + 1 /\ 1 + i - 1 = i /\ i \in 1 .. n + m /\ i <= n
    BY <1>1, SMT
  <2> QED
    BY <1>2, <1>4, <2>1
<1>7. g = a
  <2>1. Len(g) = Len(a) /\ \A i \in 1 .. Len(g) : g[i] = a[i]
    BY <1>5, <1>6 DEF n
  <2> QED
    BY ONLY <1>4, <2>1, a \in Seq(S), SeqEqual
<1> QED
  BY <1>1, <1>2, <1>7 DEF f, g, n, m

LEMMA OptionIs ==
  ASSUME NEW S, NEW o \in Option(S), o # <<>>
  PROVE  o[1] \in S /\ o = <<o[1]>> /\ o \in Seq(S)
<1>1. o \in Seq(S) /\ Len(o) <= 1
  BY DEF Option
<1>2. Len(o) = 1
  <2> DEFINE n == Len(o)
  <2>1. n \in Nat /\ n # 0 /\ n <= 1
    BY <1>1, LenProperties, EmptySeq
  <2> HIDE DEF n
  <2>2. n = 1
    BY ONLY <2>1, SMT
  <2> QED
    BY <2>2 DEF n
<1>3. 1 \in 1 .. Len(o)
  BY <1>2, SMT
<1>4. o[1] \in S
  BY <1>1, <1>3, ElementOfSeq
<1> DEFINE p == <<o[1]>>
<1>5. p \in Seq(S) /\ Len(p) = 1 /\ p[1] = o[1]
  BY <1>4, SMT
<1> HIDE DEF p
<1>6. Len(o) = Len(p) /\ \A i \in 1 .. Len(o) : o[i] = p[i]
  <2>1. \A i \in 1 .. 1 : i = 1
    BY SMT
  <2> QED
    BY <1>2, <1>5, <2>1
<1>7. o = p
  BY ONLY <1>1, <1>5, <1>6, SeqEqual
<1> QED
  BY <1>1, <1>4, <1>7 DEF p

\* Four sequences in a row, the last three taken together.
LEMMA Regrouped ==
  ASSUME NEW S, NEW a \in Seq(S), NEW b \in Seq(S), NEW c \in Seq(S), NEW d \in Seq(S)
  PROVE  /\ (a \o b \o c) \o d = a \o (b \o (c \o d))
         /\ b \o (c \o d) \in Seq(S) /\ a \o b \o c \in Seq(S)
<1>1. a \o b \in Seq(S)
  BY ConcatProperties
<1>2. a \o b \o c \in Seq(S)
  BY <1>1, ConcatProperties
<1>3. c \o d \in Seq(S)
  BY ConcatProperties
<1>4. b \o (c \o d) \in Seq(S)
  BY <1>3, ConcatProperties
<1> DEFINE ab == a \o b
           cd == c \o d
<1>5. ab \in Seq(S) /\ cd \in Seq(S)
  BY <1>1, <1>3
<1>6. ab \o cd = a \o (b \o cd)
  <2> HIDE DEF cd
  <2>1. (a \o b) \o cd = a \o (b \o cd)
    BY ONLY <1>5, a \in Seq(S), b \in Seq(S), ConcatAssociative
  <2> QED
    BY <2>1
<1> HIDE DEF ab
<1>7. (ab \o c) \o d = ab \o (c \o d)
  BY ONLY <1>5, c \in Seq(S), d \in Seq(S), ConcatAssociative
<1> QED
  BY <1>2, <1>4, <1>6, <1>7 DEF ab, cd

LayoutRecords == [order : Nat, count : Nat, mapping : Option(Seq(Nat)), flags : Option(Nat)]

\* A layout comes back from its bytes, whatever follows them, and every layout
\* that to_bytes accepts is one of these (ValidIsComplete): MultichannelConfig::parse
\* after MultichannelConfig::to_bytes.
THEOREM LayoutComesBack ==
  ASSUME NEW c \in LayoutRecords, Complete(c), NEW rest \in Seq(Nat)
  PROVE  /\ LayoutBytes(c) \in Seq(Nat) /\ LayoutBytes(c) \o rest \in Seq(Nat)
         /\ ParseLayout(LayoutBytes(c) \o rest) = <<c>>
<1> DEFINE head == <<c.order, c.count>>
           m == IF c.mapping = None THEN <<>> ELSE c.mapping[1]
           f == IF c.flags = None THEN <<>> ELSE c.flags
           tail == m \o (f \o rest)
           bytes == LayoutBytes(c) \o rest
<1>1. /\ c.order \in Nat /\ c.count \in Nat
      /\ c.mapping \in Option(Seq(Nat)) /\ c.flags \in Option(Nat)
      /\ c = Layout(c.order, c.count, c.mapping, c.flags)
  BY DEF LayoutRecords, Layout
<1>2. /\ c.mapping # None => c.mapping = <<m>> /\ m \in Seq(Nat)
      /\ c.mapping = None => m = <<>>
      /\ c.flags # None => c.flags = f /\ f = <<c.flags[1]>> /\ c.flags[1] \in Nat
      /\ c.flags = None => f = <<>>
      /\ m \in Seq(Nat) /\ f \in Seq(Nat) /\ head \in Seq(Nat)
  <2>1. c.mapping # None => c.mapping = <<c.mapping[1]>> /\ c.mapping[1] \in Seq(Nat)
    BY <1>1, OptionIs DEF None
  <2>2. c.flags # None => c.flags = <<c.flags[1]>> /\ c.flags[1] \in Nat /\ c.flags \in Seq(Nat)
    BY <1>1, OptionIs DEF None
  <2>3. <<>> \in Seq(Nat)
    BY SMT
  <2>4. head \in Seq(Nat)
    BY <1>1, SMT
  <2> QED
    BY <2>1, <2>2, <2>3, <2>4
<1>3. LayoutBytes(c) = head \o m \o f
  BY DEF LayoutBytes
<1> HIDE DEF m, f, head
<1>4. (head \o m \o f) \o rest = head \o tail /\ tail \in Seq(Nat) /\ head \o m \o f \in Seq(Nat)
  <2>1. m \in Seq(Nat) /\ f \in Seq(Nat) /\ head \in Seq(Nat)
    BY <1>2
  <2>2. /\ (head \o m \o f) \o rest = head \o (m \o (f \o rest))
        /\ m \o (f \o rest) \in Seq(Nat) /\ head \o m \o f \in Seq(Nat)
    BY ONLY <2>1, rest \in Seq(Nat), Regrouped
  <2> QED
    BY <2>2
<1> HIDE DEF tail, bytes
<1>5. bytes = <<c.order, c.count>> \o tail
  BY <1>3, <1>4 DEF bytes, head
<1>6. /\ bytes \in Seq(Nat) /\ bytes[1] = c.order /\ bytes[2] = c.count
      /\ Len(tail) \in Nat /\ Len(bytes) = 2 + Len(tail)
      /\ SubSeq(bytes, 3, Len(bytes)) = tail
  BY ONLY <1>1, <1>4, <1>5, Behind2
<1>7. ~(Len(bytes) < 2)
  BY <1>6, SMT
<1>8. /\ c.order = Custom => tail = m \o rest
      /\ c.order = Native => tail = f \o rest
  <2>1. Native # Custom
    BY SMT DEF Native, Custom
  <2>2. <<>> \o rest = rest
    BY ConcatEmptySeq
  <2>3. <<>> \o (f \o rest) = f \o rest
    <3>1. f \o rest \in Seq(Nat)
      BY <1>2, ConcatProperties
    <3> QED
      BY <3>1, ConcatEmptySeq
  <2> QED
    BY <1>2, <2>1, <2>2, <2>3 DEF Complete, Shaped, tail
<1>9. c.order = Custom => ~(Len(tail) < c.count) /\ SubSeq(tail, 1, c.count) = m /\ c.mapping = <<m>>
  <2> SUFFICES ASSUME c.order = Custom
               PROVE  ~(Len(tail) < c.count) /\ SubSeq(tail, 1, c.count) = m /\ c.mapping = <<m>>
    OBVIOUS
  <2>1. c.mapping = <<m>> /\ m = c.mapping[1] /\ Len(m) = c.count
    BY <1>2 DEF Complete, Shaped
  <2>2. /\ Len(m \o rest) = Len(m) + Len(rest) /\ Len(m) \in Nat /\ Len(rest) \in Nat
        /\ SubSeq(m \o rest, 1, Len(m)) = m
    BY ONLY <1>2, rest \in Seq(Nat), InFront
  <2>3. ~(Len(tail) < c.count)
    BY <1>8, <2>1, <2>2, SMT
  <2> QED
    BY <1>8, <2>1, <2>2, <2>3
<1>10. c.order = Native => ~(Len(tail) < 1) /\ <<tail[1]>> = c.flags
  <2> SUFFICES ASSUME c.order = Native PROVE ~(Len(tail) < 1) /\ <<tail[1]>> = c.flags
    OBVIOUS
  <2>1. c.flags # None
    BY DEF Complete, Shaped
  <2> DEFINE v == c.flags[1]
  <2>2. v \in Nat /\ tail = <<v>> \o rest /\ c.flags = <<v>>
    BY <1>2, <1>8, <2>1
  <2> HIDE DEF v
  <2>3. tail[1] = v /\ Len(tail) = 1 + Len(rest) /\ Len(rest) \in Nat
    BY ONLY <2>2, rest \in Seq(Nat), Behind1
  <2> QED
    BY <2>2, <2>3, SMT
<1>11. /\ c.order # Custom => c.mapping = None
       /\ c.order # Native => c.flags = None
  BY DEF Complete, Shaped
<1>12. ParseLayout(bytes)
         = << Layout(c.order, c.count, IF c.order = Custom THEN <<SubSeq(tail, 1, c.count)>> ELSE None,
                     IF c.order = Native THEN <<tail[1]>> ELSE None) >>
  BY <1>6, <1>7, <1>9, <1>10, Zenon DEF ParseLayout
<1>13. ParseLayout(bytes) = << Layout(c.order, c.count, c.mapping, c.flags) >>
  BY <1>9, <1>10, <1>11, <1>12, Zenon
<1>14. ParseLayout(bytes) = <<c>>
  BY <1>1, <1>13
<1> QED
  BY <1>3, <1>4, <1>6, <1>14 DEF bytes

LEMMA EndsEarlyIs ==
  ASSUME NEW bytes \in Seq(Nat), EndsEarly(bytes)
  PROVE  ParseLayout(bytes) = None
<1> DEFINE n == Len(bytes)
           rest == SubSeq(bytes, 3, n)
<1>1. n \in Nat
  BY LenProperties
<1>2. n >= 2 => Len(rest) = n - 2
  <2> SUFFICES ASSUME n >= 2 PROVE Len(rest) = n - 2
    OBVIOUS
  <2> DEFINE p == 3
             q == n
  <2>1. p \in Int /\ q \in Int /\ \A i \in p .. q : bytes[i] \in Nat
    <3>1. \A i \in p .. q : i \in 1 .. n
      BY <1>1, SMT
    <3> QED
      BY <1>1, <3>1, ElementOfSeq
  <2>3. rest = SubSeq(bytes, p, q)
    OBVIOUS
  <2> HIDE DEF rest, n
  <2>2. (IF p <= q THEN q - p + 1 ELSE 0) = n - 2
    BY <1>1, SMT
  <2> HIDE DEF p, q
  <2>4. Len(SubSeq(bytes, p, q)) = IF p <= q THEN q - p + 1 ELSE 0
    BY ONLY <2>1, SubSeqProperties
  <2> QED
    BY <2>2, <2>3, <2>4
<1>3. CASE n < 2
  BY <1>3 DEF ParseLayout
<1>4. CASE ~(n < 2)
  <2>1. \/ bytes[1] = Custom /\ Len(rest) < bytes[2]
        \/ bytes[1] = Native /\ Len(rest) < 1
    <3>1. 1 \in 1 .. Len(bytes) /\ 2 \in 1 .. Len(bytes)
      BY <1>1, <1>4, SMT
    <3>2. bytes[1] \in Nat /\ bytes[2] \in Nat
      BY <3>1, ElementOfSeq
    <3> HIDE DEF rest
    <3>3. Len(rest) = n - 2
      BY <1>1, <1>2, <1>4, SMT
    <3>4. n < 3 => Len(rest) < 1
      BY <1>1, <3>3, SMT
    <3>5. n < 2 + bytes[2] => Len(rest) < bytes[2]
      BY <1>1, <3>2, <3>3, SMT
    <3> QED
      BY <1>4, <3>4, <3>5 DEF EndsEarly
  <2> QED
    BY <1>4, <2>1 DEF ParseLayout
<1> QED
  BY <1>3, <1>4

LEMMA ValidIsComplete ==
  ASSUME NEW c, LayoutValid(c)
  PROVE  Complete(c)
<1>1. Unspecified # Native /\ Unspecified # Custom /\ Native # Custom
  BY SMT DEF Unspecified, Native, Custom
<1>2. c.order = Unspecified \/ c.order = Custom \/ c.order = Native
  BY DEF LayoutValid
<1>3. CASE c.order = Unspecified
  BY <1>1, <1>3 DEF LayoutValid, Complete, Shaped
<1>4. CASE c.order = Custom
  BY <1>1, <1>4 DEF LayoutValid, Complete, Shaped
<1>5. CASE c.order = Native
  BY <1>1, <1>5 DEF LayoutValid, Complete, Shaped
<1> QED
  BY <1>2, <1>3, <1>4, <1>5

\* Multichannel configurations.
LEMMA SideAudioKept ==
  ASSUME NEW name \in AudioNames, NEW data \in Seq(Nat), NEW layout, layout = ParseLayout(data)
  PROVE  Kept(SideAudio(WriteExAudio(MultichannelType, name[1], data), name, data, layout))
<1> DEFINE packet == MultichannelType
           fourcc == name[1]
           fields == <<ExByte(0, 9, packet), fourcc>> \o data
           tags == Wrote("audio", fields, <<>>)
           c == SideAudio(tags, name, data, layout)
<1>1. WriteExAudio(packet, fourcc, data) = tags
  BY DEF WriteExAudio
<1> HIDE DEF tags
<1>2. c = SideAudio(tags, name, data, layout)
  OBVIOUS
<1> HIDE DEF c
<1>3. /\ c.tags = tags /\ c.says.answer = Side(TRUE, data, <<>>) /\ c.says.codec = name[2]
      /\ c.says.config = <<>> /\ c.says.layout = layout /\ c.says.fixedRate = None
  BY ONLY <1>2 DEF SideAudio, Call, Nothing
<1>4. fourcc \in Nat /\ AudioCodecStr(fourcc) = name[2]
  BY AudioNamesAre
<1>5. /\ packet \in {SequenceStart, CodedFrames, SequenceEnd, MultichannelType}
      /\ packet # SequenceStart /\ packet # SequenceEnd
      /\ (packet # CodedFrames) = TRUE /\ (packet = MultichannelType) = TRUE
  BY SMT DEF SequenceStart, CodedFrames, SequenceEnd, MultichannelType
<1> HIDE DEF packet, fourcc
<1>6. ASSUME NEW t, t.kind = "audio", t.fields = fields, t.amf = <<>> PROVE KeptBy(t, c.says)
  <2> DEFINE says == c.says
  <2>1. /\ says.codec = AudioCodecStr(fourcc) /\ says.fixedRate = None
        /\ says.config = (IF packet = SequenceStart THEN data ELSE <<>>)
        /\ says.layout = (IF packet = MultichannelType THEN ParseLayout(data) ELSE None)
        /\ says.answer = (IF packet = SequenceEnd THEN None
                          ELSE Reply(data, 0, TRUE, packet # CodedFrames, packet = MultichannelType, <<>>))
    BY <1>3, <1>4, <1>5, Zenon DEF Side
  <2>2. t.kind = "audio" /\ t.fields = <<ExByte(0, 9, packet), fourcc>> \o data /\ t.amf = <<>>
    BY <1>6
  <2>3. packet \in {SequenceStart, CodedFrames, SequenceEnd, MultichannelType}
    BY <1>5
  <2> HIDE DEF says
  <2>4. KeptBy(t, says)
    BY ONLY <1>4, <2>1, <2>2, <2>3, data \in Seq(Nat), ExAudioKept
  <2> QED
    BY <2>4 DEF says
<1> HIDE DEF fields
<1>7. c.tags = Wrote("audio", fields, <<>>)
  BY <1>3 DEF tags
<1>8. Kept(c)
  BY ONLY <1>6, <1>7, KeptTag
<1> QED
  BY <1>1, <1>8 DEF c, packet, fourcc

LEMMA LayoutFramesKept == \A c \in LayoutFrames : Kept(c)
<1>1. /\ Layouts \subseteq LayoutRecords /\ Payloads \subseteq Seq(Nat)
  BY ArgumentsAssumption DEF LayoutRecords
<1>2. ASSUME NEW name \in AudioNames, NEW l \in Layouts, Complete(l), NEW rest \in Seq(Nat)
      PROVE  Kept(ForeignLayout(name, LayoutBytes(l) \o rest, <<l>>))
  <2> DEFINE bytes == LayoutBytes(l) \o rest
             layout == <<l>>
  <2>1. bytes \in Seq(Nat) /\ layout = ParseLayout(bytes)
    BY <1>1, <1>2, LayoutComesBack
  <2> HIDE DEF bytes, layout
  <2>2. Kept(SideAudio(WriteExAudio(MultichannelType, name[1], bytes), name, bytes, layout))
    BY ONLY <2>1, name \in AudioNames, SideAudioKept
  <2> QED
    BY <2>2 DEF ForeignLayout, bytes, layout
<1>3. ASSUME NEW name \in AudioNames, NEW bytes \in Payloads, EndsEarly(bytes)
      PROVE  Kept(ForeignLayout(name, bytes, None))
  <2>1. bytes \in Seq(Nat) /\ ParseLayout(bytes) = None
    BY <1>1, <1>3, EndsEarlyIs
  <2> DEFINE layout == None
  <2>2. layout = ParseLayout(bytes)
    BY <2>1
  <2> HIDE DEF layout
  <2>3. Kept(SideAudio(WriteExAudio(MultichannelType, name[1], bytes), name, bytes, layout))
    BY ONLY <2>1, <2>2, name \in AudioNames, SideAudioKept
  <2> QED
    BY <2>3 DEF ForeignLayout, layout
<1>4. ASSUME NEW name \in AudioNames, NEW l \in Layouts PROVE Kept(LayoutFrame(name, l))
  <2>1. CASE LayoutValid(l)
    <3> DEFINE none == <<>>
    <3>1. none \in Seq(Nat) /\ Complete(l)
      BY <2>1, ValidIsComplete, SMT
    <3> HIDE DEF none
    <3>2. LayoutBytes(l) \in Seq(Nat) /\ Kept(ForeignLayout(name, LayoutBytes(l) \o none, <<l>>))
      BY <1>1, <1>2, <3>1, LayoutComesBack
    <3>3. LayoutBytes(l) \o none = LayoutBytes(l)
      BY <3>2, ConcatEmptySeq DEF none
    <3>4. LayoutFrame(name, l) = ForeignLayout(name, LayoutBytes(l), <<l>>)
      BY <2>1 DEF LayoutFrame, ForeignLayout, WriteMultichannelConfig
    <3> QED
      BY <3>2, <3>3, <3>4
  <2>2. CASE ~LayoutValid(l)
    <3> DEFINE data == LayoutBytes(l)
               layout == <<l>>
               c == SideAudio(WriteMultichannelConfig(name[1], l), name, data, layout)
    <3>1. WriteMultichannelConfig(name[1], l) = Refused
      BY <2>2 DEF WriteMultichannelConfig
    <3> HIDE DEF data, layout
    <3>2. c.tags = Refused
      BY <3>1 DEF SideAudio, Call
    <3> HIDE DEF c
    <3>3. Kept(c)
      BY <3>2 DEF Kept
    <3> QED
      BY <3>3, Zenon DEF LayoutFrame, c, data, layout
  <2> QED
    BY <2>1, <2>2
<1>5. ASSUME NEW c \in LayoutFrames PROVE Kept(c)
  <2>1. \/ \E name \in AudioNames, l \in Layouts : c = LayoutFrame(name, l)
        \/ \E name \in AudioNames, bytes \in Payloads : EndsEarly(bytes) /\ c = ForeignLayout(name, bytes, None)
        \/ \E name \in AudioNames, l \in Layouts, rest \in Payloads :
             Complete(l) /\ c = ForeignLayout(name, LayoutBytes(l) \o rest, <<l>>)
    BY SMT DEF LayoutFrames
  <2> QED
    BY <1>1, <1>2, <1>3, <1>4, <2>1
<1> QED
  BY <1>5

(***************************************************************************)
(* What every writer of media tags documents is what the reader makes of   *)
(* the tag it wrote: which packet, with which data, times and flags; the   *)
(* codec, the decoder configuration and the fixed rate of the stream, if   *)
(* the tag is the first of its kind; and the speaker layout.  It holds for *)
(* every argument a writer takes, and for layouts and metadata frames of   *)
(* other writers.                                                          *)
(***************************************************************************)
THEOREM WritersKeepTheirWord == \A c \in MediaCalls : Kept(c)
<1>1. Payloads \subseteq Seq(Nat) /\ Octets \subseteq Nat /\ Offsets \subseteq Int
  BY ArgumentsAssumption
<1> SUFFICES ASSUME NEW c \in MediaCalls PROVE Kept(c)
  OBVIOUS
<1>2. \/ c = Silence \/ c \in LayoutFrames \/ c \in ColorFrames
      \/ \E rate \in 0 .. 3, wide \in BOOLEAN, stereo \in BOOLEAN, data \in Payloads :
           c \in LegacyAudio(rate, wide, stereo, data)
      \/ \E name \in AudioNames, data \in Payloads : c \in ExAudio(name, data)
      \/ \E key \in BOOLEAN, octet \in Octets, offset \in Offsets, data \in Payloads :
           c \in LegacyVideo(key, octet, offset, data)
      \/ \E name \in VideoNames, key \in BOOLEAN, offset \in Offsets, data \in Payloads :
           c \in ExVideo(name, key, offset, data)
  <2> DEFINE legacyAudio == { LegacyAudio(rate, wide, stereo, data) :
                   rate \in 0 .. 3, wide \in BOOLEAN, stereo \in BOOLEAN, data \in Payloads }
             exAudio == { ExAudio(name, data) : name \in AudioNames, data \in Payloads }
             legacyVideo == { LegacyVideo(key, octet, offset, data) :
                   key \in BOOLEAN, octet \in Octets, offset \in Offsets, data \in Payloads }
             exVideo == { ExVideo(name, key, offset, data) :
                   name \in VideoNames, key \in BOOLEAN, offset \in Offsets, data \in Payloads }
  <2>1. \A s \in legacyAudio : \E rate \in 0 .. 3, wide \in BOOLEAN, stereo \in BOOLEAN, data \in Payloads :
          s = LegacyAudio(rate, wide, stereo, data)
    OBVIOUS
  <2>2. \A s \in exAudio : \E name \in AudioNames, data \in Payloads : s = ExAudio(name, data)
    OBVIOUS
  <2>3. \A s \in legacyVideo : \E key \in BOOLEAN, octet \in Octets, offset \in Offsets, data \in Payloads :
          s = LegacyVideo(key, octet, offset, data)
    OBVIOUS
  <2>4. \A s \in exVideo : \E name \in VideoNames, key \in BOOLEAN, offset \in Offsets, data \in Payloads :
          s = ExVideo(name, key, offset, data)
    OBVIOUS
  <2> DEFINE all == legacyAudio \cup exAudio \cup legacyVideo \cup exVideo
             kinds == UNION all
  <2>5. c \in {Silence} \cup LayoutFrames \cup ColorFrames \cup kinds
    BY DEF MediaCalls
  <2> HIDE DEF kinds
  <2>6. c = Silence \/ c \in LayoutFrames \/ c \in ColorFrames \/ c \in kinds
    BY ONLY <2>5
  <2> HIDE DEF all
  <2>7. c \in kinds => \E s \in all : c \in s
    BY DEF kinds
  <2> HIDE DEF legacyAudio, exAudio, legacyVideo, exVideo
  <2>8. \A s \in all : s \in legacyAudio \/ s \in exAudio \/ s \in legacyVideo \/ s \in exVideo
    BY DEF all
  <2> QED
    BY <2>1, <2>2, <2>3, <2>4, <2>6, <2>7, <2>8
<1>3. ASSUME NEW rate \in 0 .. 3, NEW wide \in BOOLEAN, NEW stereo \in BOOLEAN, NEW data \in Payloads,
             c \in LegacyAudio(rate, wide, stereo, data)
      PROVE  Kept(c)
  <2>1. rate \in Nat
    BY SMT
  <2> QED
    BY <1>1, <1>3, <2>1, LegacyAudioKept
<1>4. ASSUME NEW name \in AudioNames, NEW data \in Payloads, c \in ExAudio(name, data) PROVE Kept(c)
  BY <1>1, <1>4, ExAudioCallsKept
<1>5. ASSUME NEW key \in BOOLEAN, NEW octet \in Octets, NEW offset \in Offsets, NEW data \in Payloads,
             c \in LegacyVideo(key, octet, offset, data)
      PROVE  Kept(c)
  BY <1>1, <1>5, LegacyVideoKept
<1>6. ASSUME NEW name \in VideoNames, NEW key \in BOOLEAN, NEW offset \in Offsets, NEW data \in Payloads,
             c \in ExVideo(name, key, offset, data)
      PROVE  Kept(c)
  BY <1>1, <1>6, ExVideoCallsKept
<1> QED
  BY <1>2, <1>3, <1>4, <1>5, <1>6, SilenceKept, LayoutFramesKept, ColorFramesKept

(***************************************************************************)
(* Script tags: the values that do not depend on how others are built.     *)
(***************************************************************************)
\* An array of numbers, as the reader of a keyframes table takes it.
LEMMA NumbersAre ==
  ASSUME NEW ns \in Seq(Int)
  PROVE  LET v == Numbers(ns) IN
         /\ v.m = "strict" /\ Len(v.items) = Len(ns)
         /\ \A i \in 1 .. Len(ns) : v.items[i].m = "number" /\ v.items[i].text.n = ns[i]
         /\ AllNumbers(v) <=> \A i \in 1 .. Len(ns) : IsFinite(ns[i])
         /\ AnyNegative(v) <=> \E i \in 1 .. Len(ns) : ns[i] < 0
         /\ NumbersOf(v) = ns
<1> DEFINE items == [i \in 1 .. Len(ns) |-> Number(ns[i])]
           v == Numbers(ns)
<1>1. v.m = "strict" /\ v.items = items
  BY DEF Numbers, StrictArray, Parts
<1>2. Len(ns) \in Nat /\ ns = [i \in 1 .. Len(ns) |-> ns[i]]
  BY LenProperties
<1>3. Len(items) = Len(ns)
  BY <1>2, SMT
<1>4. \A i \in 1 .. Len(ns) : items[i].m = "number" /\ items[i].text.n = ns[i]
  BY DEF Number, Numeral
<1> HIDE DEF items, v
<1>5. AllNumbers(v) <=> \A i \in 1 .. Len(ns) : IsFinite(ns[i])
  BY <1>1, <1>3, <1>4 DEF AllNumbers
<1>6. AnyNegative(v) <=> \E i \in 1 .. Len(ns) : ns[i] < 0
  BY <1>1, <1>3, <1>4 DEF AnyNegative
<1>7. NumbersOf(v) = ns
  <2>1. NumbersOf(v) = [i \in 1 .. Len(ns) |-> ns[i]]
    BY <1>1, <1>3, <1>4 DEF NumbersOf
  <2> QED
    BY <1>2, <2>1
<1> QED
  BY <1>1, <1>3, <1>4, <1>5, <1>6, <1>7 DEF v

\* Writer and reader of a keyframes table agree on which tables there are: one
\* that write_keyframes_object accepts is given back by parse_keyframes_object,
\* entry by entry, and of one it refuses nothing would have been made.
THEOREM SeekTablesComeBack ==
  ASSUME NEW positions \in Seq(Nat), NEW times \in Seq(Int),
         \A i \in 1 .. Len(positions) : IsFinite(positions[i])
  PROVE  ParseKeyframes(KeyframesObject(Keyframes(positions, times)))
           = IF KeyframesValid(Keyframes(positions, times))
             THEN <<[positions |-> positions, times |-> times]>> ELSE None
<1> DEFINE ps == Numbers(positions)
           ts == Numbers(times)
           members == <<Member("filepositions", ps), Member("times", ts)>>
           table == Keyframes(positions, times)
           v == KeyframesObject(table)
<1>1. /\ table.positions = positions /\ table.times = times
      /\ v.m = "object" /\ v.members = members
  BY DEF Keyframes, KeyframesObject, Object, Parts
<1>2. positions \in Seq(Int)
  BY LenProperties, SMT
<1>3. /\ ps.m = "strict" /\ AllNumbers(ps) /\ ~AnyNegative(ps) /\ NumbersOf(ps) = positions
  <2>1. \A i \in 1 .. Len(positions) : ~(positions[i] < 0)
    BY LenProperties, SMT
  <2> QED
    BY <1>2, <2>1, NumbersAre
<1>4. /\ ts.m = "strict" /\ NumbersOf(ts) = times
      /\ AllNumbers(ts) <=> \A i \in 1 .. Len(times) : IsFinite(times[i])
  BY NumbersAre
<1> HIDE DEF ps, ts, v, table
<1>5. /\ Len(members) = 2
      /\ members[1].key = "filepositions" /\ members[1].value = ps
      /\ members[2].key = "times" /\ members[2].value = ts
  BY DEF Member
<1>6. Arrays(v) = {1, 2}
  <2>1. Arrays(v) = {i \in 1 .. 2 : members[i].value.m = "strict"}
    BY <1>1, <1>5 DEF Arrays
  <2>2. 1 .. 2 = {1, 2}
    BY SMT
  <2> HIDE DEF members
  <2> QED
    BY <1>3, <1>4, <1>5, <2>1, <2>2
<1> HIDE DEF members
<1>7. LastArray(v, "filepositions") = <<positions>>
  <2>1. {i \in Arrays(v) : v.members[i].key = "filepositions"} = {1}
    BY <1>1, <1>5, <1>6
  <2>2. (CHOOSE i \in {1} : \A j \in {1} : j <= i) = 1
    BY SMT
  <2> QED
    BY <1>1, <1>3, <1>5, <2>1, <2>2 DEF LastArray
<1>8. LastArray(v, "times") = <<times>>
  <2>1. {i \in Arrays(v) : v.members[i].key = "times"} = {2}
    BY <1>1, <1>5, <1>6
  <2>2. (CHOOSE i \in {2} : \A j \in {2} : j <= i) = 2
    BY SMT
  <2> QED
    BY <1>1, <1>4, <1>5, <2>1, <2>2 DEF LastArray
<1>9. (\E i \in Arrays(v) : ~AllNumbers(v.members[i].value)) <=> ~AllNumbers(ts)
  BY <1>1, <1>3, <1>5, <1>6
<1>10. ~\E i \in Arrays(v) : v.members[i].key = "filepositions" /\ AnyNegative(v.members[i].value)
  BY <1>1, <1>3, <1>5, <1>6
<1>11. <<positions>> # None /\ <<times>> # None /\ <<positions>>[1] = positions /\ <<times>>[1] = times
  BY SMT DEF None
<1>12. ParseKeyframes(v)
         = IF ~AllNumbers(ts) THEN None
           ELSE IF positions # <<>> /\ Len(positions) = Len(times) /\ Sorted(times)
                THEN <<[positions |-> positions, times |-> times]>> ELSE None
  BY <1>1, <1>7, <1>8, <1>9, <1>10, <1>11 DEF ParseKeyframes
<1>13. KeyframesValid(table)
         <=> /\ positions # <<>> /\ Len(positions) = Len(times)
             /\ AllNumbers(ts) /\ Sorted(times)
  BY <1>1, <1>4 DEF KeyframesValid
<1> QED
  BY <1>12, <1>13 DEF v, table

\* A property is found at the first member of its name.
LEMMA LookupIs ==
  ASSUME NEW members, NEW n \in Nat, n = Len(members), NEW k, NEW i \in 1 .. n,
         members[i].key = k, \A j \in 1 .. n : members[j].key = k => i <= j
  PROVE  Lookup(members, k) = <<members[i].value>>
<1> DEFINE at == {j \in 1 .. Len(members) : members[j].key = k}
           first == CHOOSE h \in at : \A j \in at : h <= j
<1>1. i \in at /\ \A j \in at : i <= j
  OBVIOUS
<1>2. first \in at /\ \A j \in at : first <= j
  BY <1>1
<1>3. first \in Nat /\ i \in Nat /\ first <= i /\ i <= first
  <2>1. 1 .. Len(members) \subseteq Nat
    BY SMT
  <2> HIDE DEF first
  <2> QED
    BY <1>1, <1>2, <2>1
<1>4. first = i
  <2> HIDE DEF first
  <2> QED
    BY <1>3, SMT
<1>5. at # {}
  BY <1>1
<1> QED
  BY <1>4, <1>5 DEF Lookup

\* Of an additional header the reader gets every field the writer was given,
\* none of a neighbour: parse_additional_header after write_additional_header.
THEOREM HeadlinesComeBack ==
  ASSUME NEW version, NEW subtype
  PROVE  LET h == EncryptionHeader(version, subtype) IN
         Headline(WriteAdditionalHeader(h)[1].amf[2])
           = << [version |-> <<Numeral(h.version)>>, method |-> <<Word(h.method)>>,
                 algorithm |-> <<Word(h.algorithm)>>, keyLength |-> <<Numeral(h.keyLength)>>,
                 subtype |-> <<Word(h.subtype)>>] >>
<1> DEFINE h == EncryptionHeader(version, subtype)
           ep == One("KeyLength", Number(h.keyLength))
           ki == One("SubType", String(h.subtype))
           pm == << Member("Version", Number(1)), Member("EncryptionAlgorithm", String(h.algorithm)),
                    Member("EncryptionParams", ep), Member("KeyInfo", ki) >>
           pa == Object(pm)
           em == << Member("Version", Number(h.version)), Member("Method", String(h.method)),
                    Member("Flags", Number(0)), Member("Params", pa) >>
           en == Object(em)
           v == One("Encryption", en)
<1>1. WriteAdditionalHeader(h)[1].amf[2] = v
  BY DEF WriteAdditionalHeader, WriteScript, Wrote
<1>2. ASSUME NEW name, NEW x
      PROVE  Get(One(name, x), name) = <<x>>
  <2>1. One(name, x).m \in Composites0 /\ One(name, x).members = <<Member(name, x)>>
    BY DEF One, Object, Parts, Composites0
  <2> DEFINE s == <<Member(name, x)>>
  <2>2. Len(s) = 1 /\ s[1].key = name /\ s[1].value = x
    BY DEF Member
  <2>3. 1 \in 1 .. 1 /\ 1 \in Nat /\ \A j \in 1 .. 1 : 1 <= j
    BY SMT
  <2> HIDE DEF s
  <2>4. Lookup(s, name) = <<s[1].value>>
    BY <2>2, <2>3, LookupIs
  <2> QED
    BY <2>1, <2>2, <2>4 DEF Get, s
<1>3. /\ Get(v, "Encryption") = <<en>>
      /\ Get(ep, "KeyLength") = <<Number(h.keyLength)>>
      /\ Get(ki, "SubType") = <<String(h.subtype)>>
  <2> HIDE DEF en, h
  <2> QED
    BY <1>2
<1> HIDE DEF ep, ki, h, v
<1>4. /\ Get(pa, "EncryptionAlgorithm") = <<String(h.algorithm)>>
      /\ Get(pa, "EncryptionParams") = <<ep>> /\ Get(pa, "KeyInfo") = <<ki>>
  <2>1. pa.m \in Composites0 /\ pa.members = pm
    BY DEF Object, Parts, Composites0
  <2>2. /\ Len(pm) = 4 /\ pm[1].key = "Version"
        /\ pm[2].key = "EncryptionAlgorithm" /\ pm[2].value = String(h.algorithm)
        /\ pm[3].key = "EncryptionParams" /\ pm[3].value = ep
        /\ pm[4].key = "KeyInfo" /\ pm[4].value = ki
    BY DEF Member
  <2> HIDE DEF pm, pa
  <2>3. \A j \in 1 .. 4 : j = 1 \/ j = 2 \/ j = 3 \/ j = 4
    BY SMT
  <2>4. 4 \in Nat /\ 2 \in 1 .. 4 /\ 3 \in 1 .. 4 /\ 4 \in 1 .. 4
    BY SMT
  <2>5. Lookup(pm, "EncryptionAlgorithm") = <<pm[2].value>>
    <3>1. \A j \in 1 .. 4 : pm[j].key = "EncryptionAlgorithm" => 2 <= j
      BY <2>2, <2>3
    <3> QED
      BY <2>2, <2>4, <3>1, LookupIs
  <2>6. Lookup(pm, "EncryptionParams") = <<ep>>
    <3>1. \A j \in 1 .. 4 : pm[j].key = "EncryptionParams" => 3 <= j
      BY <2>2, <2>3
    <3> QED
      BY <2>2, <2>4, <3>1, LookupIs
  <2>7. Lookup(pm, "KeyInfo") = <<ki>>
    <3>1. \A j \in 1 .. 4 : pm[j].key = "KeyInfo" => 4 <= j
      BY <2>2, <2>3
    <3> QED
      BY <2>2, <2>4, <3>1, LookupIs
  <2> QED
    BY <2>1, <2>2, <2>5, <2>6, <2>7 DEF Get
<1> HIDE DEF pa
<1>5. /\ Get(en, "Version") = <<Number(h.version)>> /\ Get(en, "Method") = <<String(h.method)>>
      /\ Get(en, "Params") = <<pa>>
  <2>1. en.m \in Composites0 /\ en.members = em
    BY DEF Object, Parts, Composites0
  <2>2. /\ Len(em) = 4 /\ em[1].key = "Version" /\ em[1].value = Number(h.version)
        /\ em[2].key = "Method" /\ em[2].value = String(h.method)
        /\ em[3].key = "Flags"
        /\ em[4].key = "Params" /\ em[4].value = pa
    BY DEF Member
  <2> HIDE DEF em, en
  <2>3. \A j \in 1 .. 4 : j = 1 \/ j = 2 \/ j = 3 \/ j = 4
    BY SMT
  <2>4. 4 \in Nat /\ 1 \in 1 .. 4 /\ 2 \in 1 .. 4 /\ 4 \in 1 .. 4
    BY SMT
  <2>5. Lookup(em, "Version") = <<em[1].value>>
    <3>1. \A j \in 1 .. 4 : em[j].key = "Version" => 1 <= j
      BY <2>2, <2>3
    <3> QED
      BY <2>2, <2>4, <3>1, LookupIs
  <2>6. Lookup(em, "Method") = <<em[2].value>>
    <3>1. \A j \in 1 .. 4 : em[j].key = "Method" => 2 <= j
      BY <2>2, <2>3
    <3> QED
      BY <2>2, <2>4, <3>1, LookupIs
  <2>7. Lookup(em, "Params") = <<pa>>
    <3>1. \A j \in 1 .. 4 : em[j].key = "Params" => 4 <= j
      BY <2>2, <2>3
    <3> QED
      BY <2>2, <2>4, <3>1, LookupIs
  <2> QED
    BY <2>1, <2>2, <2>5, <2>6, <2>7 DEF Get
<1> HIDE DEF en
<1>6. \A x, name : <<x>> # None /\ Step(<<x>>, name) = Get(x, name)
  BY SMT DEF Step, None
<1>7. \A n : OfKind(<<Number(n)>>, "number") = <<Numeral(n)>>
  BY SMT DEF OfKind, None, Number
<1>8. \A s : OfKind(<<String(s)>>, "string") = <<Word(s)>>
  BY SMT DEF OfKind, None, String
<1>9. /\ Step(Get(v, "Encryption"), "Version") = <<Number(h.version)>>
      /\ Step(Get(v, "Encryption"), "Method") = <<String(h.method)>>
      /\ Step(Get(v, "Encryption"), "Params") = <<pa>>
      /\ Get(v, "Encryption") # None
  BY <1>3, <1>5, <1>6, Zenon
<1>10. /\ Step(<<pa>>, "EncryptionAlgorithm") = <<String(h.algorithm)>>
       /\ Step(<<pa>>, "EncryptionParams") = <<ep>> /\ Step(<<pa>>, "KeyInfo") = <<ki>>
       /\ Step(<<ep>>, "KeyLength") = <<Number(h.keyLength)>>
       /\ Step(<<ki>>, "SubType") = <<String(h.subtype)>>
  BY <1>3, <1>4, <1>6, Zenon
<1>11. Headline(v)
           = << [version |-> <<Numeral(h.version)>>, method |-> <<Word(h.method)>>,
                 algorithm |-> <<Word(h.algorithm)>>, keyLength |-> <<Numeral(h.keyLength)>>,
                 subtype |-> <<Word(h.subtype)>>] >>
  BY <1>7, <1>8, <1>9, <1>10, Zenon DEF Headline
<1> QED
  BY <1>1, <1>11 DEF h
=============================================================================
