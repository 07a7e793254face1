-------------------------- MODULE FlvSessionProofs --------------------------
(***************************************************************************)
(* A session of any producer and its consumer: what was written is what is *)
(* read.                                                                   *)
(***************************************************************************)
EXTENDS SessionCallsProofs

(***************************************************************************)
(* The inductive invariant.                                                *)
(***************************************************************************)
Accepted == {c \in UNION {Calls[m] : m \in Modes} : c.tags # Refused}

\* Who is where: discovery takes one tag after the other, and nobody reads
\* before the file is closed.
Places ==
  /\ mode \in Modes /\ calls \in Seq(Accepted)
  /\ phase \in {"writing", "opening", "reading", "failed"}
  /\ cursor \in 1 .. Len(calls) + 1 /\ scanned \in 0 .. Len(calls)
  /\ phase = "writing" => cursor = 1
  /\ phase \in {"writing", "opening"} => scanned = cursor - 1

\* The bodies of a kind discovery has passed.
Bodies(k) == {i \in Discovered : Tag0(i).kind = k /\ Tag0(i).fields # <<>>}

\* Discovery stopped because the file ended, or because nothing was left to find.
Searched == phase = "reading" => scanned = Len(calls) \/ \A k \in Media : HasStream(k)

AudioShape(s) ==
  s = [codec |-> s.codec, rate |-> s.rate, channels |-> s.channels, format |-> s.format,
       bitRate |-> s.bitRate, extradata |-> s.extradata]

\* The channel count the layouts read so far leave behind, if any does.
Told == IF Reading /\ LayoutsCounted # {} THEN <<Says(LastOf(LayoutsCounted)).layout[1].count>> ELSE None

Made(s, k, said, told) ==
  /\ s.codec = said.codec /\ s.extradata = said.config
  /\ k = "audio" =>
       /\ AudioShape(s)
       /\ said.fixedRate # None => s.rate = said.fixedRate
       /\ said.fixedRate # None /\ told = None => s.channels = <<1>>
       /\ told # None => s.channels = told

\* A kind has a stream exactly if it has had a body, and it is that of the first one.
StreamsMade ==
  /\ DOMAIN streams = Media
  /\ \A k \in Media :
       IF Bodies(k) = {} THEN streams[k] = None
       ELSE /\ streams[k] = <<streams[k][1]>>
            /\ Made(streams[k][1], k, Says(FirstOf(Bodies(k))), Told)

Given ==
  packets = IF Reading THEN FlattenSeq([i \in 1 .. cursor - 1 |-> Answer(i)]) ELSE <<>>

SessionInv == Places /\ Searched /\ StreamsMade /\ Given

(***************************************************************************)
(* The calls.                                                              *)
(***************************************************************************)
\* An accepted call wrote a script tag, of which no packet and no layout
\* comes, or a tag whose writer keeps its word.
LEMMA AcceptedKept ==
  ASSUME NEW c \in Accepted
  PROVE  \/ KeptBy(c.tags[1], c.says)
         \/ c.tags[1].kind = "script" /\ c.says.answer = None /\ c.says.layout = None
<1>1. PICK m \in Modes : c \in Calls[m]
  BY DEF Accepted
<1>2. c.tags # Refused
  BY DEF Accepted
<1>3. c \in MediaCalls \/ IsScriptCall(c)
  BY <1>1, CallsAssumption
<1>4. CASE c \in MediaCalls
  BY <1>2, <1>4, WritersKeepTheirWord DEF Kept
<1>5. CASE IsScriptCall(c)
  BY <1>2, <1>5 DEF IsScriptCall
<1> QED
  BY <1>3, <1>4, <1>5

LEMMA CallKept ==
  ASSUME calls \in Seq(Accepted), NEW i \in 1 .. Len(calls)
  PROVE  \/ KeptBy(Tag0(i), Says(i))
         \/ Tag0(i).kind = "script" /\ Says(i).answer = None /\ Says(i).layout = None
<1>1. calls[i] \in Accepted
  BY ElementOfSeq
<1> DEFINE c == calls[i]
<1>2. c \in Accepted
  BY <1>1
<1> HIDE DEF c
<1>3. \/ KeptBy(c.tags[1], c.says)
      \/ c.tags[1].kind = "script" /\ c.says.answer = None /\ c.says.layout = None
  BY ONLY <1>2, AcceptedKept
<1> QED
  BY <1>3 DEF c, Tag0, Says

(***************************************************************************)
(* First and last.                                                         *)
(***************************************************************************)
LEMMA FirstIs ==
  ASSUME NEW S, S \subseteq Nat, NEW n \in S, \A i \in S : n <= i
  PROVE  FirstOf(S) = n
<1> DEFINE f == FirstOf(S)
<1>1. f \in S /\ \A j \in S : f <= j
  BY DEF FirstOf
<1>2. f <= n /\ n <= f /\ f \in Nat /\ n \in Nat
  BY <1>1
<1> HIDE DEF f
<1>3. f = n
  BY <1>2, SMT
<1> QED
  BY <1>3 DEF f

LEMMA FirstInIt ==
  ASSUME NEW S, S \subseteq Nat, S # {}
  PROVE  FirstOf(S) \in S /\ \A j \in S : FirstOf(S) <= j
<1>1. \E i \in S : \A j \in S : i <= j
  BY Least
<1> QED
  BY <1>1 DEF FirstOf

LEMMA FirstStays ==
  ASSUME NEW S, S \subseteq Nat, S # {}, NEW n \in Nat, \A i \in S : i < n
  PROVE  FirstOf(S \cup {n}) = FirstOf(S)
<1> DEFINE f == FirstOf(S)
           T == S \cup {n}
<1>1. f \in S /\ \A j \in S : f <= j
  BY FirstInIt
<1>2. f < n /\ f \in Nat
  BY <1>1
<1> HIDE DEF f
<1>3. f <= n
  BY <1>2, SMT
<1>4. T \subseteq Nat /\ f \in T /\ \A j \in T : f <= j
  BY <1>1, <1>3
<1> HIDE DEF T
<1>5. FirstOf(T) = f
  BY ONLY <1>4, FirstIs
<1> QED
  BY <1>5 DEF f, T

LEMMA LastIs ==
  ASSUME NEW S, S \subseteq Nat, NEW n \in Nat, \A i \in S : i < n
  PROVE  LastOf(S \cup {n}) = n
<1> DEFINE T == S \cup {n}
           f == LastOf(T)
<1>1. n \in T /\ \A j \in T : j <= n /\ j \in Nat
  BY SMT
<1> HIDE DEF T
<1>2. f \in T /\ \A j \in T : j <= f
  BY <1>1 DEF LastOf
<1>3. f <= n /\ n <= f /\ f \in Nat /\ n \in Nat
  BY <1>1, <1>2
<1> HIDE DEF f
<1>4. f = n
  BY <1>3, SMT
<1> QED
  BY <1>4 DEF f, T

(***************************************************************************)
(* Places.                                                                 *)
(***************************************************************************)
LEMMA InitInv == Init => SessionInv
<1> SUFFICES ASSUME Init PROVE SessionInv
  OBVIOUS
<1>1. /\ mode \in Modes /\ calls = <<>> /\ phase = "writing" /\ cursor = 1 /\ scanned = 0
      /\ streams = [k \in Media |-> None] /\ packets = <<>>
  BY DEF Init
<1>2. calls \in Seq(Accepted) /\ Len(calls) = 0
  BY <1>1, SMT
<1>3. Places
  BY <1>1, <1>2, SMT DEF Places
<1>4. \A k : Bodies(k) = {}
  <2>1. 1 .. 0 = {}
    BY SMT
  <2> QED
    BY <1>1, <2>1 DEF Bodies, Discovered
<1>5. StreamsMade
  BY <1>1, <1>4 DEF StreamsMade
<1> QED
  BY <1>1, <1>3, <1>5 DEF SessionInv, Searched, Given, Reading

LEMMA PlacesKept == Places /\ [Next]_vars => Places'
<1> SUFFICES ASSUME Places, [Next]_vars PROVE Places'
  OBVIOUS
<1> DEFINE n == Len(calls)
<1>1. /\ n \in Nat /\ cursor \in 1 .. n + 1 /\ scanned \in 0 .. n
      /\ mode \in Modes /\ calls \in Seq(Accepted)
      /\ phase \in {"writing", "opening", "reading", "failed"}
  BY LenProperties DEF Places
<1>2. CASE UNCHANGED vars
  BY <1>2 DEF vars, producer, Places
<1>3. CASE Produce
  <2>1. PICK c \in Calls[mode] : c.tags # Refused /\ calls' = Append(calls, c)
    BY <1>3 DEF Produce
  <2>2. c \in Accepted
    BY <1>1, <2>1 DEF Accepted
  <2>3. calls' \in Seq(Accepted) /\ Len(calls') = n + 1
    BY <1>1, <2>1, <2>2, AppendProperties
  <2>4. /\ mode' = mode /\ phase = "writing" /\ phase' = phase /\ cursor' = cursor /\ scanned' = scanned
        /\ cursor = 1 /\ scanned = cursor - 1
    BY <1>3 DEF Produce, Places
  <2> HIDE DEF n
  <2>5. cursor' \in 1 .. (n + 1) + 1 /\ scanned' \in 0 .. n + 1
    BY <1>1, <2>4, SMT
  <2> QED
    BY <1>1, <2>3, <2>4, <2>5 DEF Places
<1>4. CASE Close
  BY <1>4, SMT DEF Close, producer, Places
<1>5. CASE DiscoverScript \/ DiscoverMedia
  <2>1. /\ mode' = mode /\ calls' = calls /\ phase = "opening" /\ phase' = phase
        /\ cursor <= n /\ cursor' = cursor + 1 /\ scanned' = cursor
    BY <1>5 DEF DiscoverScript, DiscoverMedia, Discovering, producer
  <2> HIDE DEF n
  <2>2. cursor' \in 1 .. n + 1 /\ scanned' \in 0 .. n /\ scanned' = cursor' - 1
    BY <1>1, <2>1, SMT
  <2> QED
    BY <1>1, <2>1, <2>2 DEF Places, n
<1>6. CASE OpenDone
  <2>1. /\ mode' = mode /\ calls' = calls /\ phase' = "reading" /\ cursor' = 1 /\ scanned' = scanned
    BY <1>6 DEF OpenDone, producer
  <2> HIDE DEF n
  <2>2. 1 \in 1 .. n + 1
    BY <1>1, SMT
  <2> QED
    BY <1>1, <2>1, <2>2 DEF Places, n
<1>7. CASE OpenFails
  <2>1. mode' = mode /\ calls' = calls /\ phase' = "failed" /\ cursor' = cursor /\ scanned' = scanned
    BY <1>7 DEF OpenFails, producer
  <2> QED
    BY <1>1, <2>1 DEF Places, n
<1>8. CASE ReadIgnored \/ ReadMedia
  <2>1. /\ mode' = mode /\ calls' = calls /\ phase = "reading" /\ phase' = phase
        /\ cursor <= n /\ cursor' = cursor + 1 /\ scanned' = scanned
    BY <1>8 DEF ReadIgnored, ReadMedia, ReadTag, producer
  <2> HIDE DEF n
  <2>2. cursor' \in 1 .. n + 1
    BY <1>1, <2>1, SMT
  <2> QED
    BY <1>1, <2>1, <2>2 DEF Places, n
<1> QED
  BY <1>2, <1>3, <1>4, <1>5, <1>6, <1>7, <1>8 DEF Next

(***************************************************************************)
(* The steps of discovery.                                                 *)
(***************************************************************************)
LEMMA NothingDiscovered ==
  ASSUME Places, phase = "writing"
  PROVE  \A k : Bodies(k) = {}
<1>1. scanned = 0
  BY SMT DEF Places
<1>2. 1 .. 0 = {}
  BY SMT
<1> QED
  BY <1>1, <1>2 DEF Bodies, Discovered

LEMMA DiscoverOne ==
  ASSUME Places, phase = "opening", cursor <= Len(calls),
         calls' = calls, cursor' = cursor + 1, scanned' = cursor
  PROVE  /\ cursor \in 1 .. Len(calls) /\ cursor \in Nat
         /\ \A k : /\ Bodies(k) \subseteq Nat /\ \A i \in Bodies(k) : i < cursor
                   /\ Bodies(k)' = Bodies(k) \cup (IF Tag0(cursor).kind = k /\ Tag0(cursor).fields # <<>>
                                                   THEN {cursor} ELSE {})
<1> DEFINE n == Len(calls)
<1>1. n \in Nat /\ cursor \in 1 .. n + 1 /\ scanned = cursor - 1 /\ cursor <= n
  BY LenProperties DEF Places
<1> HIDE DEF n
<1>2. cursor \in 1 .. n /\ cursor \in Nat
  BY <1>1, SMT
<1>3. /\ Discovered \subseteq Nat /\ \A i \in Discovered : i < cursor
      /\ Discovered' = Discovered \cup {cursor}
  BY <1>1, SMT DEF Discovered
<1>4. \A i : Tag0(i)' = Tag0(i)
  BY DEF Tag0
<1>5. ASSUME NEW k
      PROVE  Bodies(k)' = Bodies(k) \cup (IF Tag0(cursor).kind = k /\ Tag0(cursor).fields # <<>>
                                         THEN {cursor} ELSE {})
  <2>1. Bodies(k)' = {i \in Discovered' : Tag0(i).kind = k /\ Tag0(i).fields # <<>>}
    BY <1>4 DEF Bodies
  <2>2. Bodies(k) = {i \in Discovered : Tag0(i).kind = k /\ Tag0(i).fields # <<>>}
    BY DEF Bodies
  <2> QED
    BY <1>3, <2>1, <2>2, Zenon
<1>6. \A k : Bodies(k) \subseteq Nat /\ \A i \in Bodies(k) : i < cursor
  BY <1>3 DEF Bodies
<1> QED
  BY <1>2, <1>5, <1>6 DEF n

LEMMA BodiesStay ==
  ASSUME calls' = calls, scanned' = scanned
  PROVE  \A k : Bodies(k)' = Bodies(k)
BY DEF Bodies, Discovered, Tag0

LEMMA NothingTold ==
  ASSUME phase # "reading" \/ cursor = 1
  PROVE  Told = None
<1>1. 1 .. 1 - 1 = {}
  BY SMT
<1> QED
  BY <1>1 DEF Told, Reading, LayoutsCounted, LayoutsRead, Read

(***************************************************************************)
(* The steps of next_packet.                                               *)
(***************************************************************************)
LEMMA ReadOne ==
  ASSUME Places, phase = "reading", phase' = phase, cursor <= Len(calls),
         calls' = calls, cursor' = cursor + 1
  PROVE  /\ cursor \in 1 .. Len(calls) /\ cursor \in Nat
         /\ Told' = IF Says(cursor).layout # None /\ Says(cursor).layout[1].count > 0
                    THEN <<Says(cursor).layout[1].count>> ELSE Told
<1> DEFINE n == Len(calls)
           counts(i) == Says(i).layout # None /\ Says(i).layout[1].count > 0
           L == LayoutsCounted
<1>1. n \in Nat /\ cursor \in 1 .. n + 1 /\ cursor <= n
  BY LenProperties DEF Places
<1> HIDE DEF n
<1>2. cursor \in 1 .. n /\ cursor \in Nat
  BY <1>1, SMT
<1>3. Read \subseteq Nat /\ (\A i \in Read : i < cursor) /\ Read' = Read \cup {cursor}
  BY <1>1, SMT DEF Read
<1>4. \A i : Says(i)' = Says(i)
  BY DEF Says
<1>5. LayoutsCounted = {i \in Read : counts(i)}
  BY DEF LayoutsCounted, LayoutsRead
<1>6. LayoutsCounted' = {i \in Read' : counts(i)}
  BY <1>4 DEF LayoutsCounted, LayoutsRead
<1>7. Reading /\ Reading'
  BY DEF Reading
<1>8. L \subseteq Nat /\ \A i \in L : i < cursor
  BY <1>3, <1>5
<1>9. CASE counts(cursor)
  <2>1. LayoutsCounted' = L \cup {cursor}
    BY <1>3, <1>5, <1>6, <1>9, Zenon
  <2> HIDE DEF L
  <2>2. LastOf(L \cup {cursor}) = cursor
    BY ONLY <1>2, <1>8, LastIs
  <2>3. LayoutsCounted' # {} /\ LastOf(LayoutsCounted)' = cursor
    BY <2>1, <2>2 DEF LastOf
  <2>4. Told' = <<Says(cursor).layout[1].count>>
    BY <1>4, <1>7, <2>3, Zenon DEF Told
  <2> QED
    BY <1>2, <1>9, <2>4 DEF n
<1>10. CASE ~counts(cursor)
  <2>1. LayoutsCounted' = LayoutsCounted
    BY <1>3, <1>5, <1>6, <1>10, Zenon
  <2>2. Told' = Told
    <3>1. LastOf(LayoutsCounted)' = LastOf(LayoutsCounted)
      BY <2>1 DEF LastOf
    <3>2. Says(LastOf(LayoutsCounted))' = Says(LastOf(LayoutsCounted))
      BY <3>1 DEF Says
    <3> QED
      BY <1>7, <2>1, <3>2, Zenon DEF Told
  <2> QED
    BY <1>2, <1>10, <2>2 DEF n
<1> QED
  BY <1>9, <1>10

\* Nothing that has a body is passed over.
LEMMA BodyHasStream ==
  ASSUME Places, Searched, StreamsMade, phase = "reading", NEW i \in 1 .. Len(calls),
         Tag0(i).kind \in Media, Tag0(i).fields # <<>>
  PROVE  HasStream(Tag0(i).kind)
<1>1. CASE \A k \in Media : HasStream(k)
  BY <1>1
<1>2. CASE scanned = Len(calls)
  <2> DEFINE k == Tag0(i).kind
  <2>1. i \in Bodies(k)
    BY <1>2 DEF Bodies, Discovered
  <2>2. streams[k] = <<streams[k][1]>>
    BY <2>1 DEF StreamsMade
  <2> DEFINE s == streams[k][1]
  <2>3. streams[k] = <<s>>
    BY <2>2
  <2> HIDE DEF k, s
  <2>4. <<s>> # <<>>
    BY SMT
  <2> QED
    BY <2>3, <2>4 DEF HasStream, None, k
<1> QED
  BY <1>1, <1>2 DEF Searched

LEMMA LayoutIsBody ==
  ASSUME NEW t, IsLayout(t)
  PROVE  t.kind = "audio" /\ t.kind \in Media /\ t.fields # <<>>
BY DEF IsLayout, IsEx, Media

Moved(ss, data) == [ss EXCEPT !.audio[1].channels = ChannelsAfter(@, data)]

\* A speaker layout moves the channel count of the audio stream, and nothing else.
LEMMA LayoutMoves ==
  ASSUME NEW ss, DOMAIN ss = Media, NEW s, ss["audio"] = <<s>>, AudioShape(s),
         NEW data, NEW tt, tt = Moved(ss, data)
  PROVE  \E r : /\ DOMAIN tt = Media /\ tt["video"] = ss["video"] /\ tt["audio"] = <<r>>
               /\ AudioShape(r) /\ r.channels = ChannelsAfter(s.channels, data)
               /\ r.codec = s.codec /\ r.extradata = s.extradata /\ r.rate = s.rate
<1> DEFINE channels == ChannelsAfter(s.channels, data)
           r == [s EXCEPT !.channels = channels]
           codec == s.codec
           rate == s.rate
           before == s.channels
           format == s.format
           bitRate == s.bitRate
           extradata == s.extradata
<1>1. s = [codec |-> codec, rate |-> rate, channels |-> before, format |-> format,
           bitRate |-> bitRate, extradata |-> extradata]
  BY DEF AudioShape
<1>2. tt = [ss EXCEPT !["audio"] = [ss["audio"] EXCEPT ![1] = r]]
  <2>1. <<s>>[1] = s
    BY SMT
  <2> QED
    BY <2>1, Zenon DEF Moved
<1>3. [ss["audio"] EXCEPT ![1] = r] = <<r>>
  <2> HIDE DEF r
  <2>1. [<<s>> EXCEPT ![1] = r] = <<r>>
    BY SMT
  <2> QED
    BY <2>1
<1> HIDE DEF channels, codec, rate, before, format, bitRate, extradata
<1>4. r = [codec |-> codec, rate |-> rate, channels |-> channels, format |-> format,
           bitRate |-> bitRate, extradata |-> extradata]
  BY <1>1
<1> HIDE DEF r
<1>5. /\ AudioShape(r) /\ r.channels = channels
      /\ r.codec = codec /\ r.extradata = extradata /\ r.rate = rate
  BY ONLY <1>4 DEF AudioShape
<1>6. tt = [ss EXCEPT !["audio"] = <<r>>]
  BY <1>2, <1>3
<1>7. "audio" \in DOMAIN ss /\ "video" \in DOMAIN ss /\ "audio" # "video"
  BY DEF Media
<1>8. DOMAIN tt = Media /\ tt["video"] = ss["video"] /\ tt["audio"] = <<r>>
  BY <1>6, <1>7
<1> QED
  BY <1>5, <1>8 DEF channels, codec, rate, extradata

(***************************************************************************)
(* Streams.                                                                *)
(***************************************************************************)
LEMMA StreamsStay ==
  ASSUME StreamsMade, streams' = streams, Told' = Told,
         \A k : Bodies(k)' = Bodies(k),
         \A k \in Media : Bodies(k) # {} => Says(FirstOf(Bodies(k)))' = Says(FirstOf(Bodies(k)))
  PROVE  StreamsMade'
<1>1. DOMAIN streams' = Media
  BY DEF StreamsMade
<1>2. ASSUME NEW k \in Media
      PROVE  IF Bodies(k)' = {} THEN streams'[k] = None
             ELSE /\ streams'[k] = <<streams'[k][1]>>
                  /\ Made(streams'[k][1], k, Says(FirstOf(Bodies(k)))', Told')
  BY DEF StreamsMade
<1> QED
  BY <1>1, <1>2 DEF StreamsMade

\* The stream of a first body.
LEMMA FirstStream ==
  ASSUME NEW t, NEW says, KeptBy(t, says), t.fields # <<>>
  PROVE  t.kind \in Media /\ Made(StreamOf(t), t.kind, says, None)
<1>1. t.kind \in Media /\ StreamKept(t, says)
  BY DEF KeptBy
<1> DEFINE s == StreamOf(t)
<1>2. s = IF t.kind = "audio" THEN AudioStream(t, found.bag) ELSE VideoStream(t, found.bag)
  BY DEF StreamOf
<1> HIDE DEF s
<1>3. /\ s.codec = says.codec /\ s.extradata = says.config
      /\ t.kind = "audio" /\ says.fixedRate # None => s.rate = says.fixedRate /\ s.channels = <<1>>
  BY <1>1, <1>2 DEF StreamKept
<1>4. t.kind = "audio" => AudioShape(s)
  <2> SUFFICES ASSUME t.kind = "audio" PROVE AudioShape(s)
    OBVIOUS
  <2>1. CASE IsEx(t)
    <3>1. s = ExAudioStream(t, found.bag)
      BY <1>2, <2>1 DEF AudioStream
    <3> QED
      BY <3>1 DEF ExAudioStream, AudioShape
  <2>2. CASE ~IsEx(t)
    <3> DEFINE codec == AudioCodecStr(SoundFormat(t))
               rate == IF SoundFormat(t) \in SpecFixed THEN <<HeaderRate(t)>>
                       ELSE OrElse(RateStated(found.bag), <<HeaderRate(t)>>)
               channels == IF SoundFormat(t) \in SpecFixed THEN <<1>>
                           ELSE OrElse(ChannelsStated(found.bag), <<HeaderChannels(t)>>)
               format == OrElse(FormatStated(found.bag), <<HeaderFormat(t)>>)
               bitRate == BitRate(found.bag, "audiodatarate")
               extradata == IF IsAac(t) /\ Field(t, 2, 1) = 0 THEN DataOf(t) ELSE <<>>
    <3>1. s = [codec |-> codec, rate |-> rate, channels |-> channels, format |-> format,
               bitRate |-> bitRate, extradata |-> extradata]
      BY <1>2, <2>2, Zenon DEF AudioStream, LegacyAudioStream
    <3> HIDE DEF codec, rate, channels, format, bitRate, extradata
    <3> QED
      BY ONLY <3>1 DEF AudioShape
  <2> QED
    BY <2>1, <2>2
<1>5. Made(s, t.kind, says, None)
  BY <1>3, <1>4 DEF Made
<1> QED
  BY <1>1, <1>5 DEF s

LEMMA DiscoverMediaKeeps ==
  ASSUME Places, StreamsMade, DiscoverMedia
  PROVE  StreamsMade'
<1> DEFINE t == Tag0(cursor)
<1>1. /\ phase = "opening" /\ cursor <= Len(calls) /\ phase' = phase
      /\ calls' = calls /\ cursor' = cursor + 1 /\ scanned' = cursor /\ t.kind \in Media
      /\ streams' = IF HasStream(t.kind) \/ t.fields = <<>> THEN streams
                    ELSE [streams EXCEPT ![t.kind] = <<StreamOf(t)>>]
  BY DEF DiscoverMedia, Discovering, producer
<1>2. /\ cursor \in 1 .. Len(calls) /\ cursor \in Nat
      /\ \A k : /\ Bodies(k) \subseteq Nat /\ \A i \in Bodies(k) : i < cursor
                /\ Bodies(k)' = Bodies(k) \cup (IF t.kind = k /\ t.fields # <<>> THEN {cursor} ELSE {})
  BY <1>1, DiscoverOne
<1>3. Told = None /\ Told' = None
  <2>1. Told = None
    BY <1>1, NothingTold
  <2>2. phase' # "reading"
    BY <1>1
  <2>3. Told' = None
    BY <2>2 DEF Told, Reading
  <2> QED
    BY <2>1, <2>3
<1>4. \A i : Says(i)' = Says(i)
  BY <1>1 DEF Says
<1>5. KeptBy(t, Says(cursor))
  <2>1. calls \in Seq(Accepted)
    BY DEF Places
  <2>2. t.kind # "script"
    BY <1>1 DEF Media
  <2> QED
    BY <1>2, <2>1, <2>2, CallKept
<1> HIDE DEF t
<1>6. DOMAIN streams' = Media
  BY <1>1 DEF StreamsMade
<1>7. ASSUME NEW k \in Media
      PROVE  IF Bodies(k)' = {} THEN streams'[k] = None
             ELSE /\ streams'[k] = <<streams'[k][1]>>
                  /\ Made(streams'[k][1], k, Says(FirstOf(Bodies(k)))', Told')
  <2>1. CASE t.kind # k \/ t.fields = <<>>
    <3>1. Bodies(k)' = Bodies(k)
      BY <1>2, <2>1
    <3>2. streams'[k] = streams[k]
      BY <1>1, <2>1 DEF StreamsMade
    <3>3. Says(FirstOf(Bodies(k)))' = Says(FirstOf(Bodies(k)))
      BY <1>4, <3>1 DEF FirstOf
    <3> QED
      BY <1>3, <3>1, <3>2, <3>3 DEF StreamsMade
  <2>2. CASE t.kind = k /\ t.fields # <<>> /\ Bodies(k) # {}
    <3>1. HasStream(k)
      <4> DEFINE s == streams[k][1]
      <4>1. streams[k] = <<s>>
        BY <2>2 DEF StreamsMade
      <4> HIDE DEF s
      <4>2. <<s>> # <<>>
        BY SMT
      <4> QED
        BY <4>1, <4>2 DEF HasStream, None
    <3>2. streams' = streams
      BY <1>1, <2>2, <3>1
    <3> DEFINE S == Bodies(k)
    <3>3. S \subseteq Nat /\ S # {} /\ \A i \in S : i < cursor
      BY <1>2, <2>2
    <3>4. Bodies(k)' = S \cup {cursor}
      BY <1>2, <2>2
    <3> HIDE DEF S
    <3>5. FirstOf(S \cup {cursor}) = FirstOf(S)
      BY ONLY <3>3, <1>2, FirstStays
    <3>6. FirstOf(Bodies(k))' = FirstOf(Bodies(k))
      BY <3>4, <3>5 DEF FirstOf, S
    <3>7. Says(FirstOf(Bodies(k)))' = Says(FirstOf(Bodies(k)))
      BY <1>1, <3>6 DEF Says
    <3>8. Bodies(k)' # {}
      BY <3>4
    <3> QED
      BY <1>3, <2>2, <3>2, <3>7, <3>8 DEF StreamsMade
  <2>3. CASE t.kind = k /\ t.fields # <<>> /\ Bodies(k) = {}
    <3>1. streams[k] = None
      BY <2>3 DEF StreamsMade
    <3> DEFINE s == StreamOf(t)
    <3>2. streams'[k] = <<s>>
      BY <1>1, <2>3, <3>1 DEF HasStream, StreamsMade
    <3>3. Made(s, k, Says(cursor), None)
      BY <1>5, <2>3, FirstStream
    <3> HIDE DEF s
    <3>4. streams'[k][1] = s
      <4>1. <<s>>[1] = s
        BY SMT
      <4> QED
        BY <3>2, <4>1
    <3>5. Bodies(k)' = {cursor}
      BY <1>2, <2>3
    <3>6. FirstOf({cursor}) = cursor
      BY DEF FirstOf
    <3>7. FirstOf(Bodies(k))' = cursor
      BY <3>5, <3>6 DEF FirstOf
    <3>8. Says(FirstOf(Bodies(k)))' = Says(cursor)
      BY <1>1, <3>7 DEF Says
    <3> QED
      BY <1>3, <3>2, <3>3, <3>4, <3>5, <3>8
  <2> QED
    BY <2>1, <2>2, <2>3
<1> QED
  BY <1>6, <1>7 DEF StreamsMade

LEMMA StreamIs ==
  ASSUME StreamsMade, NEW k \in Media
  PROVE  HasStream(k) => Bodies(k) # {} /\ streams[k] = <<streams[k][1]>>
                         /\ Made(streams[k][1], k, Says(FirstOf(Bodies(k))), Told)
BY DEF StreamsMade, HasStream

LEMMA SaidStays ==
  ASSUME calls' = calls, scanned' = scanned
  PROVE  \A k : Bodies(k)' = Bodies(k) /\ Says(FirstOf(Bodies(k)))' = Says(FirstOf(Bodies(k)))
<1>1. \A k : Bodies(k)' = Bodies(k)
  BY BodiesStay
<1>2. \A k : FirstOf(Bodies(k))' = FirstOf(Bodies(k))
  BY <1>1 DEF FirstOf
<1> QED
  BY <1>1, <1>2 DEF Says

LEMMA ReadMediaKeeps ==
  ASSUME Places, StreamsMade, ReadMedia
  PROVE  StreamsMade'
<1> DEFINE t == Tag0(cursor)
           layout == Says(cursor).layout
<1>1. /\ phase = "reading" /\ cursor <= Len(calls) /\ phase' = phase /\ scanned' = scanned
      /\ calls' = calls /\ cursor' = cursor + 1 /\ t.kind \in Media /\ HasStream(t.kind)
      /\ streams' = IF IsLayout(t)
                    THEN [streams EXCEPT !.audio[1].channels = ChannelsAfter(@, DataOf(t))]
                    ELSE streams
  BY DEF ReadMedia, ReadTag, producer
<1>2. /\ cursor \in 1 .. Len(calls)
      /\ Told' = IF layout # None /\ layout[1].count > 0 THEN <<layout[1].count>> ELSE Told
  BY <1>1, ReadOne
<1>3. layout = IF IsLayout(t) THEN ParseLayout(DataOf(t)) ELSE None
  <2>1. calls \in Seq(Accepted)
    BY DEF Places
  <2>2. t.kind # "script"
    BY <1>1 DEF Media
  <2>3. KeptBy(t, Says(cursor))
    BY <1>2, <2>1, <2>2, CallKept
  <2> QED
    BY <2>3 DEF KeptBy
<1>4. \A k : Bodies(k)' = Bodies(k) /\ Says(FirstOf(Bodies(k)))' = Says(FirstOf(Bodies(k)))
  BY <1>1, SaidStays
<1> HIDE DEF t, layout
<1>5. CASE ~IsLayout(t)
  <2>1. streams' = streams /\ Told' = Told
    BY <1>1, <1>2, <1>3, <1>5
  <2> QED
    BY <1>4, <2>1, StreamsStay
<1>6. CASE IsLayout(t)
  <2>1. HasStream("audio") /\ "audio" \in Media
    BY <1>1, <1>6, LayoutIsBody
  <2> DEFINE s == streams["audio"][1]
             said == Says(FirstOf(Bodies("audio")))
             data == DataOf(t)
  <2>2. Bodies("audio") # {} /\ streams["audio"] = <<s>> /\ Made(s, "audio", said, Told)
    BY <2>1, StreamIs
  <2> HIDE DEF s, said, data
  <2>3. DOMAIN streams = Media
    BY DEF StreamsMade
  <2>4. AudioShape(s)
    BY <2>2 DEF Made
  <2>5. streams' = [streams EXCEPT !.audio[1].channels = ChannelsAfter(@, data)]
    BY <1>1, <1>6 DEF data
  <2> DEFINE ss == streams
             tt == streams'
  <2>6. DOMAIN ss = Media /\ ss["audio"] = <<s>> /\ tt = Moved(ss, data)
    BY <2>2, <2>3, <2>5 DEF Moved
  <2> HIDE DEF ss, tt
  <2>7. PICK r : /\ DOMAIN tt = Media /\ tt["video"] = ss["video"] /\ tt["audio"] = <<r>>
                 /\ AudioShape(r) /\ r.channels = ChannelsAfter(s.channels, data)
                 /\ r.codec = s.codec /\ r.extradata = s.extradata /\ r.rate = s.rate
    BY ONLY <2>4, <2>6, LayoutMoves
  <2>8. ChannelsAfter(s.channels, data)
          = IF layout # None /\ layout[1].count > 0 THEN <<layout[1].count>> ELSE s.channels
    <3>1. layout = ParseLayout(data)
      BY <1>3, <1>6 DEF data
    <3> QED
      BY <3>1, Zenon DEF ChannelsAfter
  <2>9. Made(r, "audio", said, Told')
    <3>1. CASE layout # None /\ layout[1].count > 0
      <4> DEFINE told == Told'
                 count == layout[1].count
      <4>1. told = <<count>> /\ r.channels = <<count>>
        BY <1>2, <2>7, <2>8, <3>1
      <4> HIDE DEF told, count
      <4>2. told # None
        <5>1. <<count>> # <<>>
          BY SMT
        <5> QED
          BY <4>1, <5>1 DEF None
      <4>3. Made(r, "audio", said, told)
        BY <2>2, <2>7, <4>1, <4>2 DEF Made
      <4> QED
        BY <4>3 DEF told
    <3>2. CASE ~(layout # None /\ layout[1].count > 0)
      <4>1. Told' = Told /\ r.channels = s.channels
        BY <1>2, <2>7, <2>8, <3>2
      <4>2. Made(r, "audio", said, Told)
        BY <2>2, <2>7, <4>1 DEF Made
      <4> QED
        BY <4>1, <4>2
    <3> QED
      BY <3>1, <3>2
  <2>10. streams'["audio"][1] = r
    <3>1. <<r>>[1] = r
      BY SMT
    <3> QED
      BY <2>7, <3>1 DEF tt
  <2>11. ASSUME NEW k \in Media
         PROVE  IF Bodies(k)' = {} THEN streams'[k] = None
                ELSE /\ streams'[k] = <<streams'[k][1]>>
                     /\ Made(streams'[k][1], k, Says(FirstOf(Bodies(k)))', Told')
    <3>1. CASE k = "audio"
      BY <1>4, <2>2, <2>7, <2>9, <2>10, <3>1 DEF said, tt
    <3>2. CASE k = "video"
      <4>1. streams'[k] = streams[k]
        BY <2>7, <3>2 DEF ss, tt
      <4>2. \A q, says, a, b : Made(q, "video", says, a) => Made(q, "video", says, b)
        BY DEF Made
      <4> QED
        BY <1>4, <3>2, <4>1, <4>2 DEF StreamsMade
    <3> QED
      BY <3>1, <3>2 DEF Media
  <2>12. DOMAIN streams' = Media
    BY <2>7 DEF tt
  <2> QED
    BY <2>11, <2>12 DEF StreamsMade
<1> QED
  BY <1>5, <1>6

\* What is passed over is no layout.
LEMMA IgnoredIs ==
  ASSUME Places, Searched, StreamsMade, ReadIgnored
  PROVE  /\ phase = "reading" /\ cursor <= Len(calls) /\ cursor \in 1 .. Len(calls) /\ cursor \in Nat
         /\ phase' = phase /\ scanned' = scanned /\ calls' = calls /\ cursor' = cursor + 1
         /\ streams' = streams /\ packets' = packets /\ Told' = Told
         /\ Tag0(cursor).kind \in Media => ~HasStream(Tag0(cursor).kind)
<1> DEFINE t == Tag0(cursor)
           layout == Says(cursor).layout
<1>1. /\ phase = "reading" /\ cursor <= Len(calls) /\ phase' = phase /\ scanned' = scanned
      /\ calls' = calls /\ cursor' = cursor + 1 /\ streams' = streams /\ packets' = packets
      /\ t.kind \in Media => ~HasStream(t.kind)
  BY DEF ReadIgnored, ReadTag, producer
<1>2. /\ cursor \in 1 .. Len(calls) /\ cursor \in Nat
      /\ Told' = IF layout # None /\ layout[1].count > 0 THEN <<layout[1].count>> ELSE Told
  BY <1>1, ReadOne
<1>3. layout = None
  <2>1. calls \in Seq(Accepted)
    BY DEF Places
  <2>2. KeptBy(t, Says(cursor)) \/ layout = None
    BY <1>2, <2>1, CallKept
  <2>3. ~IsLayout(t)
    <3> SUFFICES ASSUME IsLayout(t) PROVE FALSE
      OBVIOUS
    <3>1. t.kind \in Media /\ t.fields # <<>>
      BY LayoutIsBody
    <3> QED
      BY <1>1, <1>2, <3>1, BodyHasStream
  <2> QED
    BY <2>2, <2>3 DEF KeptBy
<1> HIDE DEF layout
<1>4. Told' = Told
  BY <1>2, <1>3
<1> QED
  BY <1>1, <1>2, <1>4

LEMMA StreamsKept == Places /\ Searched /\ StreamsMade /\ [Next]_vars => StreamsMade'
<1> SUFFICES ASSUME Places, Searched, StreamsMade, [Next]_vars PROVE StreamsMade'
  OBVIOUS
<1>1. CASE UNCHANGED vars
  <2>1. /\ calls' = calls /\ scanned' = scanned /\ streams' = streams
        /\ phase' = phase /\ cursor' = cursor
    BY <1>1 DEF vars, producer
  <2>2. Told' = Told
    BY <2>1 DEF Told, Reading, LayoutsCounted, LayoutsRead, Read, LastOf, Says
  <2> QED
    BY <2>1, <2>2, SaidStays, StreamsStay
<1>2. CASE Produce
  <2>1. phase = "writing" /\ phase' = phase /\ scanned' = scanned /\ streams' = streams
    BY <1>2 DEF Produce
  <2>2. \A k : Bodies(k) = {} /\ Bodies(k)' = {}
    <3>1. Places'
      BY <1>2, PlacesKept
    <3>2. scanned = 0 /\ 1 .. 0 = {}
      BY <2>1, SMT DEF Places
    <3> QED
      BY <2>1, <3>2 DEF Bodies, Discovered
  <2>3. Told = None /\ Told' = None
    BY <2>1 DEF Told, Reading
  <2> QED
    BY <2>1, <2>2, <2>3, StreamsStay
<1>3. CASE Close \/ OpenDone \/ OpenFails
  <2>1. /\ calls' = calls /\ scanned' = scanned /\ streams' = streams
        /\ phase # "reading" /\ (phase' # "reading" \/ cursor' = 1)
    BY <1>3 DEF Close, OpenDone, OpenFails, producer
  <2>2. Told = None
    BY <2>1, NothingTold
  <2>3. Told' = None
    <3>1. 1 .. 1 - 1 = {}
      BY SMT
    <3> QED
      BY <2>1, <3>1 DEF Told, Reading, LayoutsCounted, LayoutsRead, Read
  <2> QED
    BY <2>1, <2>2, <2>3, SaidStays, StreamsStay
<1>4. CASE DiscoverScript
  <2>1. /\ phase = "opening" /\ cursor <= Len(calls) /\ phase' = phase
        /\ calls' = calls /\ cursor' = cursor + 1 /\ scanned' = cursor /\ streams' = streams
        /\ Tag0(cursor).kind = "script"
    BY <1>4 DEF DiscoverScript, Discovering, producer
  <2>2. \A k \in Media : Bodies(k)' = Bodies(k)
    <3>1. \A k \in Media : k # "script"
      BY DEF Media
    <3>2. \A k : Bodies(k)' = Bodies(k) \cup (IF Tag0(cursor).kind = k /\ Tag0(cursor).fields # <<>>
                                             THEN {cursor} ELSE {})
      BY <2>1, DiscoverOne
    <3> QED
      BY <2>1, <3>1, <3>2
  <2>3. Told = None /\ Told' = None
    BY <2>1 DEF Told, Reading
  <2>4. \A k \in Media : Says(FirstOf(Bodies(k)))' = Says(FirstOf(Bodies(k)))
    <3>1. \A k \in Media : FirstOf(Bodies(k))' = FirstOf(Bodies(k))
      BY <2>2 DEF FirstOf
    <3> QED
      BY <2>1, <3>1 DEF Says
  <2>5. DOMAIN streams' = Media
    BY <2>1 DEF StreamsMade
  <2>6. ASSUME NEW k \in Media
        PROVE  IF Bodies(k)' = {} THEN streams'[k] = None
               ELSE /\ streams'[k] = <<streams'[k][1]>>
                    /\ Made(streams'[k][1], k, Says(FirstOf(Bodies(k)))', Told')
    BY <2>1, <2>2, <2>3, <2>4 DEF StreamsMade
  <2> QED
    BY <2>5, <2>6 DEF StreamsMade
<1>5. CASE DiscoverMedia
  BY <1>5, DiscoverMediaKeeps
<1>6. CASE ReadIgnored
  <2>1. calls' = calls /\ scanned' = scanned /\ streams' = streams /\ Told' = Told
    BY <1>6, IgnoredIs
  <2> QED
    BY <2>1, SaidStays, StreamsStay
<1>7. CASE ReadMedia
  BY <1>7, ReadMediaKeeps
<1> QED
  BY <1>1, <1>2, <1>3, <1>4, <1>5, <1>6, <1>7 DEF Next

\* A kind has a stream exactly if discovery has passed a body of it.
LEMMA StreamIffBody ==
  ASSUME StreamsMade, NEW k \in Media
  PROVE  HasStream(k) <=> Bodies(k) # {}
<1>1. CASE Bodies(k) = {}
  BY <1>1 DEF StreamsMade, HasStream
<1>2. CASE Bodies(k) # {}
  <2> DEFINE s == streams[k][1]
  <2>1. streams[k] = <<s>>
    BY <1>2 DEF StreamsMade
  <2> HIDE DEF s
  <2>2. <<s>> # <<>>
    BY SMT
  <2> QED
    BY <1>2, <2>1, <2>2 DEF HasStream, None
<1> QED
  BY <1>1, <1>2

LEMMA StreamsStand ==
  ASSUME StreamsMade, StreamsMade', calls' = calls, scanned' = scanned
  PROVE  \A k \in Media : HasStream(k)' <=> HasStream(k)
<1> SUFFICES ASSUME NEW k \in Media PROVE HasStream(k)' <=> HasStream(k)
  OBVIOUS
<1>1. HasStream(k) <=> Bodies(k) # {}
  BY StreamIffBody
<1>2. HasStream(k)' <=> Bodies(k)' # {}
  <2>1. CASE Bodies(k)' = {}
    BY <2>1 DEF StreamsMade, HasStream
  <2>2. CASE Bodies(k)' # {}
    <3> DEFINE s == streams'[k][1]
    <3>1. streams'[k] = <<s>>
      BY <2>2 DEF StreamsMade
    <3> HIDE DEF s
    <3>2. <<s>> # <<>>
      BY SMT
    <3> QED
      BY <2>2, <3>1, <3>2 DEF HasStream, None
  <2> QED
    BY <2>1, <2>2
<1>3. Bodies(k)' = Bodies(k)
  BY BodiesStay
<1> QED
  BY <1>1, <1>2, <1>3

LEMMA SearchedKept ==
  Places /\ Searched /\ StreamsMade /\ StreamsMade' /\ [Next]_vars => Searched'
<1> SUFFICES ASSUME Places, Searched, StreamsMade, StreamsMade', [Next]_vars, phase' = "reading"
             PROVE  scanned' = Len(calls') \/ \A k \in Media : HasStream(k)'
  BY DEF Searched
<1>1. CASE phase = "reading"
  <2>1. calls' = calls /\ scanned' = scanned
    BY <1>1 DEF Next, vars, producer, Produce, Close, DiscoverScript, DiscoverMedia, Discovering, OpenDone,
                OpenFails, ReadIgnored, ReadMedia, ReadTag
  <2>2. \A k \in Media : HasStream(k)' <=> HasStream(k)
    BY <2>1, StreamsStand
  <2> QED
    BY <1>1, <2>1, <2>2 DEF Searched
<1>2. CASE phase # "reading"
  <2>1. OpenDone
    BY <1>2 DEF Next, vars, Produce, Close, DiscoverScript, DiscoverMedia, Discovering,
                OpenFails, ReadIgnored, ReadMedia, ReadTag
  <2>2. /\ phase = "opening" /\ calls' = calls /\ scanned' = scanned /\ streams' = streams
        /\ ~(cursor <= Len(calls)) \/ (HasStream("audio") /\ HasStream("video"))
    BY <2>1 DEF OpenDone, Discovering, producer
  <2>3. CASE HasStream("audio") /\ HasStream("video")
    BY <2>2, <2>3 DEF HasStream, Media
  <2>4. CASE ~(cursor <= Len(calls))
    <3> DEFINE n == Len(calls)
    <3>1. n \in Nat /\ cursor \in 1 .. n + 1 /\ scanned = cursor - 1 /\ ~(cursor <= n)
      BY <2>2, <2>4, LenProperties DEF Places
    <3> HIDE DEF n
    <3>2. scanned = n
      BY <3>1, SMT
    <3> QED
      BY <2>2, <3>2 DEF n
  <2> QED
    BY <2>2, <2>3, <2>4
<1> QED
  BY <1>1, <1>2

(***************************************************************************)
(* Packets.                                                                *)
(***************************************************************************)
LEMMA AnswersGrow ==
  ASSUME Places, phase = "reading", phase' = phase, cursor \in 1 .. Len(calls), cursor' = cursor + 1,
         calls' = calls, \A k \in Media : HasStream(k)' <=> HasStream(k),
         Given,
         packets' = packets \o Answer(cursor) \/ (Answer(cursor) = <<>> /\ packets' = packets)
  PROVE  Given'
<1> DEFINE A == {Answer(i)[1] : i \in Nat}
           ss == [i \in 1 .. cursor - 1 |-> Answer(i)]
           tt == [i \in 1 .. cursor |-> Answer(i)]
<1>1. cursor \in Nat /\ cursor >= 1 /\ cursor - 1 \in Nat /\ (cursor - 1) + 1 = cursor
      /\ (cursor + 1) - 1 = cursor /\ cursor \in 1 .. cursor
      /\ \A i \in 1 .. cursor - 1 : i \in 1 .. cursor /\ i \in Nat
  BY SMT
<1>2. ASSUME NEW i \in Nat PROVE Answer(i) \in Seq(A)
  <2>1. CASE Answer(i) = <<>>
    BY <2>1, SMT
  <2>2. CASE Answer(i) # <<>>
    <3> DEFINE x == Expected(Says(i).answer[1], i, StreamIndex(Tag0(i).kind))
    <3>1. Answer(i) = <<x>>
      BY <2>2, Zenon DEF Answer
    <3> HIDE DEF x
    <3>2. <<x>>[1] = x
      BY SMT
    <3>3. x \in A
      BY <3>1, <3>2
    <3> HIDE DEF A
    <3>4. <<x>> \in Seq(A)
      BY <3>3, SMT
    <3> QED
      BY <3>1, <3>4
  <2> QED
    BY <2>1, <2>2
<1>3. ASSUME NEW i \in Nat PROVE Answer(i)' = Answer(i)
  <2>1. Says(i)' = Says(i) /\ Tag0(i)' = Tag0(i)
    BY DEF Says, Tag0
  <2> DEFINE k == Tag0(i).kind
  <2>2. StreamIndex(k)' = StreamIndex(k)
    <3>1. HasStream("audio")' <=> HasStream("audio")
      BY DEF Media
    <3> QED
      BY <2>1, <3>1 DEF StreamIndex
  <2>3. k' = k
    BY <2>1
  <2>4. k \in Media => (HasStream(k)' <=> HasStream(k))
    BY <2>3
  <2>5. Answer(i) = IF k \in Media /\ Says(i).answer # None /\ HasStream(k)
                    THEN <<Expected(Says(i).answer[1], i, StreamIndex(k))>> ELSE <<>>
    BY DEF Answer
  <2>6. Answer(i)' = IF k' \in Media /\ Says(i).answer' # None /\ HasStream(k)'
                     THEN <<Expected(Says(i)'.answer[1], i, StreamIndex(k)')>> ELSE <<>>
    BY DEF Answer
  <2> HIDE DEF k
  <2> QED
    BY <2>1, <2>2, <2>3, <2>4, <2>5, <2>6, Zenon
<1> HIDE DEF A
<1>4. ss \in Seq(Seq(A)) /\ Len(ss) = cursor - 1 /\ tt \in Seq(Seq(A)) /\ Len(tt) = cursor
  <2>1. \A n \in Nat : \A f \in [1 .. n -> Seq(A)] : f \in Seq(Seq(A)) /\ Len(f) = n
    BY SMT
  <2>2. ss \in [1 .. cursor - 1 -> Seq(A)] /\ tt \in [1 .. cursor -> Seq(A)]
    <3>1. \A i \in 1 .. cursor : i \in Nat
      BY SMT
    <3> QED
      BY <1>1, <1>2, <3>1
  <2> HIDE DEF ss, tt
  <2> QED
    BY <1>1, <2>1, <2>2
<1>5. tt[cursor] = Answer(cursor) /\ \A i \in 1 .. cursor - 1 : tt[i] = ss[i]
  BY <1>1
<1>6. packets = FlattenSeq(ss)
  BY DEF Given, Reading
<1>7. packets' = FlattenSeq(tt)
  <2> HIDE DEF ss, tt
  <2>1. Len(tt) = Len(ss) + 1 /\ \A i \in 1 .. Len(ss) : tt[i] = ss[i]
    BY <1>1, <1>4, <1>5
  <2>2. FlattenSeq(tt) = FlattenSeq(ss) \o tt[Len(tt)]
    BY ONLY <1>4, <2>1, FlattenGrows
  <2>3. FlattenSeq(ss) \o <<>> = FlattenSeq(ss)
    <3>1. FlattenSeq(ss) \in Seq(A)
      BY ONLY <1>4, FlattenIs
    <3> QED
      BY <3>1, ConcatEmptySeq
  <2> QED
    BY <1>4, <1>5, <1>6, <2>2, <2>3
<1>8. [i \in 1 .. cursor' - 1 |-> Answer(i)'] = tt
  <2>1. cursor' - 1 = cursor
    BY <1>1
  <2>2. \A i \in 1 .. cursor : Answer(i)' = Answer(i)
    <3>1. \A i \in 1 .. cursor : i \in Nat
      BY SMT
    <3> QED
      BY <1>3, <3>1
  <2> QED
    BY <2>1, <2>2, Zenon
<1> QED
  BY <1>7, <1>8, Zenon DEF Given, Reading

LEMMA GivenKept ==
  Places /\ Searched /\ StreamsMade /\ StreamsMade' /\ Given /\ [Next]_vars => Given'
<1> SUFFICES ASSUME Places, Searched, StreamsMade, StreamsMade', Given, [Next]_vars PROVE Given'
  OBVIOUS
<1>1. CASE UNCHANGED vars
  <2>1. /\ calls' = calls /\ streams' = streams /\ phase' = phase /\ cursor' = cursor /\ packets' = packets
    BY <1>1 DEF vars, producer
  <2> QED
    BY <2>1, Zenon DEF Given, Reading, Answer, Says, Tag0, HasStream, StreamIndex
<1>2. CASE Produce \/ Close \/ DiscoverScript \/ DiscoverMedia \/ OpenFails
  <2>1. phase # "reading" /\ phase' # "reading" /\ packets' = packets
    BY <1>2 DEF Produce, Close, DiscoverScript, DiscoverMedia, Discovering, OpenFails
  <2> QED
    BY <2>1 DEF Given, Reading
<1>3. CASE OpenDone
  <2>1. phase = "opening" /\ phase' = "reading" /\ cursor' = 1 /\ packets' = packets
    BY <1>3 DEF OpenDone
  <2>2. packets' = <<>>
    BY <2>1 DEF Given, Reading
  <2> DEFINE none == [i \in 1 .. 1 - 1 |-> Answer(i)']
  <2>3. none = <<>>
    <3>1. \A f : f = [i \in 1 .. 0 |-> f[i]] => f = <<>>
      BY SMT
    <3>2. 1 - 1 = 0 /\ 1 .. 0 = {}
      BY SMT
    <3>3. none = [i \in 1 .. 0 |-> none[i]]
      BY <3>2
    <3> HIDE DEF none
    <3> QED
      BY <3>1, <3>3
  <2>4. FlattenSeq(<<>>) = <<>>
    <3>1. Len(<<>>) = 0
      BY SMT
    <3> QED
      BY <3>1, Zenon DEF FlattenSeq
  <2>5. Given' <=> packets' = FlattenSeq(none)
    BY <2>1 DEF Given, Reading
  <2> QED
    BY <2>2, <2>3, <2>4, <2>5
<1>4. CASE ReadIgnored
  <2>1. /\ phase = "reading" /\ cursor \in 1 .. Len(calls) /\ phase' = phase /\ calls' = calls
        /\ cursor' = cursor + 1 /\ streams' = streams /\ packets' = packets
        /\ Tag0(cursor).kind \in Media => ~HasStream(Tag0(cursor).kind)
    BY <1>4, IgnoredIs
  <2>2. \A k \in Media : HasStream(k)' <=> HasStream(k)
    BY <2>1 DEF HasStream
  <2>3. Answer(cursor) = <<>>
    BY <2>1 DEF Answer
  <2> QED
    BY <2>1, <2>2, <2>3, AnswersGrow
<1>5. CASE ReadMedia
  <2> DEFINE t == Tag0(cursor)
             k == t.kind
             stream == StreamIndex(k)
  <2>1. /\ phase = "reading" /\ cursor <= Len(calls) /\ phase' = phase /\ scanned' = scanned
        /\ calls' = calls /\ cursor' = cursor + 1 /\ k \in Media /\ HasStream(k)
        /\ packets' = packets \o PacketsOf(t, cursor, stream)
    BY <1>5 DEF ReadMedia, ReadTag, producer
  <2>2. cursor \in 1 .. Len(calls) /\ cursor \in Nat
    BY <2>1, ReadOne
  <2>3. \A h \in Media : HasStream(h)' <=> HasStream(h)
    BY <2>1, StreamsStand
  <2>4. KeptBy(t, Says(cursor))
    <3>1. calls \in Seq(Accepted)
      BY DEF Places
    <3>2. k # "script"
      BY <2>1 DEF Media
    <3> QED
      BY <2>2, <3>1, <3>2, CallKept
  <2>5. stream \in Nat
    BY SMT DEF StreamIndex
  <2> HIDE DEF t, stream
  <2>6. PacketsOf(t, cursor, stream)
          = IF Says(cursor).answer = None THEN <<>> ELSE <<Expected(Says(cursor).answer[1], cursor, stream)>>
    BY <2>2, <2>4, <2>5 DEF KeptBy, Answers
  <2>7. Answer(cursor)
          = IF k \in Media /\ Says(cursor).answer # None /\ HasStream(k)
            THEN <<Expected(Says(cursor).answer[1], cursor, stream)>> ELSE <<>>
    BY DEF Answer, t, stream
  <2>8. packets' = packets \o Answer(cursor)
    BY <2>1, <2>6, <2>7
  <2> QED
    BY <2>1, <2>2, <2>3, <2>8, AnswersGrow
<1> QED
  BY <1>1, <1>2, <1>3, <1>4, <1>5 DEF Next

(***************************************************************************)
(* The theorems.                                                           *)
(***************************************************************************)
LEMMA Invariance == Spec => []SessionInv
<1>1. Init => SessionInv
  BY InitInv
<1>2. SessionInv /\ [Next]_vars => SessionInv'
  BY PlacesKept, SearchedKept, StreamsKept, GivenKept DEF SessionInv
<1> QED
  BY <1>1, <1>2, PTL DEF Spec

\* Whatever its producer writes, in whatever order, the reader of a file gets
\* the packets the writers document, in order, and no others: next_packet after
\* the writers of tag.rs. A silence in front of the first audio body has its packet,
\* too, against the doc of its writer.
THEOREM PacketsAreAsWritten == Spec => []EveryWriteIsAnswered
<1>1. SessionInv => EveryWriteIsAnswered
  BY DEF SessionInv, Given, EveryWriteIsAnswered
<1> QED
  BY <1>1, Invariance, PTL

\* The audio stream has the channel count of the last speaker layout that counts
\* any: harvest_multichannel_config, call after call.
LEMMA ChannelsFollow == SessionInv /\ Reading => ChannelsFollowLayouts
<1>1. ASSUME SessionInv, Reading, LayoutsCounted # {}
      PROVE  HasStream("audio") /\ streams.audio[1].channels = <<Says(LastOf(LayoutsCounted)).layout[1].count>>
  <2> DEFINE count == Says(LastOf(LayoutsCounted)).layout[1].count
  <2>1. Told = <<count>>
    BY <1>1 DEF Told
  <2>2. Told # None
    <3> HIDE DEF count
    <3>1. <<count>> # <<>>
      BY SMT
    <3> QED
      BY <2>1, <3>1 DEF None
  <2>3. HasStream("audio")
    <3>1. PICK i \in Read : Says(i).layout # None
      BY <1>1 DEF LayoutsCounted, LayoutsRead
    <3>2. Places /\ Searched /\ StreamsMade /\ phase = "reading"
      BY <1>1 DEF SessionInv, Reading
    <3>3. i \in 1 .. Len(calls)
      <4> DEFINE n == Len(calls)
      <4>1. n \in Nat /\ cursor \in 1 .. n + 1 /\ i \in 1 .. cursor - 1
        BY <3>2, LenProperties DEF Places, Read
      <4> HIDE DEF n
      <4>2. i \in 1 .. n
        BY <4>1, SMT
      <4> QED
        BY <4>2 DEF n
    <3>4. KeptBy(Tag0(i), Says(i))
      <4>1. calls \in Seq(Accepted)
        BY <3>2 DEF Places
      <4> QED
        BY <3>1, <3>3, <4>1, CallKept
    <3>5. IsLayout(Tag0(i))
      BY <3>1, <3>4 DEF KeptBy
    <3> DEFINE t == Tag0(i)
    <3>6. t.kind = "audio" /\ t.kind \in Media /\ t.fields # <<>>
      BY <3>5, LayoutIsBody
    <3> HIDE DEF t
    <3>7. HasStream(t.kind)
      BY <3>2, <3>3, <3>6, BodyHasStream DEF t
    <3> QED
      BY <3>6, <3>7
  <2>4. Made(streams["audio"][1], "audio", Says(FirstOf(Bodies("audio"))), Told)
    <3>1. "audio" \in Media /\ StreamsMade
      BY <1>1 DEF Media, SessionInv
    <3> QED
      BY <2>3, <3>1, StreamIs
  <2> QED
    BY <2>1, <2>2, <2>3, <2>4 DEF Made
<1> QED
  BY <1>1 DEF ChannelsFollowLayouts

\* A stream has the codec, the configuration and the fixed rate, if any, of the first
\* body of its kind, whatever onMetaData states and in whatever order the tags come
\* (8 kHz MP3 is no format of fixed rate, against the doc of its writer), and counts the channels of the last
\* speaker layout: open_concrete and next_packet after the writers of tag.rs.
THEOREM StreamsComeFromTheirFirstBody == Spec => []StreamsAreAsWritten
<1>1. ASSUME SessionInv, Reading, NEW k \in Media, HasStream(k)
      PROVE  FirstBodyDecides(k)
  <2>1. Made(streams[k][1], k, Says(FirstOf(Bodies(k))), Told)
    BY <1>1, StreamIs DEF SessionInv
  <2>2. FirstBody(k) = FirstOf(Bodies(k))
    BY DEF FirstBody, Bodies
  <2>3. LayoutsCounted = {} => Told = None
    BY DEF Told
  <2> QED
    BY <2>1, <2>2, <2>3 DEF Made, FirstBodyDecides
<1>2. SessionInv => StreamsAreAsWritten
  BY <1>1, ChannelsFollow, Zenon DEF StreamsAreAsWritten
<1> QED
  BY <1>2, Invariance, PTL
=============================================================================
