------------------------------- MODULE ExBody -------------------------------
(***************************************************************************)
(* The body of an enhanced audio or video tag: to_bytes and join_tracks    *)
(* write it, parse (with the ModEx walk) and split_tracks read it.  Bytes  *)
(* are bytes here, since what can go wrong is where a field begins.        *)
(***************************************************************************)
EXTENDS Integers, Sequences, SequencesExt

CONSTANTS
  Headers,     \* what to_bytes may be given
  Batches,     \* what join_tracks may be given
  Payloads,    \* what may follow the header of a tag without tracks
  Noise,       \* bodies that were not written by this code
  Reordered,   \* FourCCs whose coded frames have a composition time offset
  MaxNanos,    \* u32::MAX
  None         \* of an Option

ASSUME NanosAssumption == MaxNanos \in Nat

ASSUME NoneAssumption == None \notin Int

Byte == 0 .. 255

FourCc == [1 .. 4 -> Byte]

\* What the structs can hold. A Reserved type or layout has the four bits that
\* from_u8 is given, and an audio header has no frame type, offset or command.
ASSUME HeadersAssumption ==
  \A h \in Headers :
    /\ h \in [video : BOOLEAN, frame : 0 .. 7, type : 0 .. 15, fourcc : FourCc \cup {<<>>},
              layout : (0 .. 15) \cup {None},
              entries : Seq([subtype : Byte, nano : Nat \cup {None}, raw : Seq(Byte)]),
              nanos : Nat, cto : Int \cup {None}, command : Byte \cup {None}, consumed : {0}]
    /\ ~h.video => h.frame = 0 /\ h.cto = None /\ h.command = None

ASSUME BodiesAssumption ==
  /\ Batches \subseteq Seq([id : Byte, fourcc : FourCc, payload : Seq(Byte)])
  /\ Payloads \subseteq Seq(Byte) /\ Noise \subseteq Seq(Byte)

VARIABLES
  sent,        \* what the writer was given
  video,       \* which of the two parsers is called
  wire,        \* the body
  stage,       \* what the reader reads next, or what came out
  cursor,      \* how many bytes it has consumed
  pending,     \* packet_type_raw
  read,        \* the header, as far as it has been read
  tracks       \* the tracks that have been split off

vars == <<sent, video, wire, stage, cursor, pending, read, tracks>>

(***************************************************************************)
(* Packet types, track layouts and frame types that the code tells apart.  *)
(***************************************************************************)
ModEx == 7
CodedFrames == 1
Metadata == 4
Command == 5
Multitrack(v) == IF v THEN 6 ELSE 5

OneTrack == 0
ManyTracks == 1
ManyCodecs == 2

(***************************************************************************)
(* Fixed widths, big endian.  Number*(b, c) is what stands behind c bytes. *)
(***************************************************************************)
UI16(n) == <<n \div 256, n % 256>>
UI24(n) == <<n \div 65536, (n \div 256) % 256, n % 256>>
Number16(b, c) == 256 * b[c + 1] + b[c + 2]
Number24(b, c) == 65536 * b[c + 1] + 256 * b[c + 2] + b[c + 3]

FitsSI24(n) == -8388608 <= n /\ n < 8388608

SI24(n) == UI24(n % 16777216)
Signed24(b, c) ==
  IF Number24(b, c) >= 8388608 THEN Number24(b, c) - 16777216 ELSE Number24(b, c)

Pack(high, low) == 16 * high + low
High(byte) == byte \div 16
Low(byte) == byte % 16

(***************************************************************************)
(* ModEx entries.  The size is one byte, or 255 and two more.              *)
(***************************************************************************)
\* Mutant: 256 is written as one byte, which is the escape.
EncodeSizeShort(n) == IF n <= 256 THEN <<n - 1>> ELSE <<255>> \o UI16(n - 1)

EncodeSize(n) == IF n <= 255 THEN <<n - 1>> ELSE <<255>> \o UI16(n - 1)

SizeWidth(b, c) == IF b[c + 1] = 255 THEN 3 ELSE 1

DecodeSize(b, c) == IF b[c + 1] = 255 THEN Number16(b, c + 1) + 1 ELSE b[c + 1] + 1

\* nano is None for a Reserved payload.
EntryIsValid(e) ==
  /\ e.subtype \in 0 .. 15
  /\ 1 <= Len(e.raw) /\ Len(e.raw) <= 65536
  /\ e.nano # None =>
       /\ e.subtype = 0
       /\ Len(e.raw) >= 3
       /\ e.nano <= 999999 /\ e.nano = Number24(e.raw, 0)

EmitEntry(e, next) == EncodeSize(Len(e.raw)) \o e.raw \o <<Pack(e.subtype, next)>>

Saturating(a, b) == IF a + b > MaxNanos THEN MaxNanos ELSE a + b

\* The nanoseconds of the first i entries, and of all of them.
Sums(entries) ==
  LET sum[i \in 0 .. Len(entries)] ==
        IF i = 0 THEN 0
        ELSE IF entries[i].nano = None THEN sum[i - 1]
        ELSE Saturating(sum[i - 1], entries[i].nano)
  IN sum

Total(entries) == Sums(entries)[Len(entries)]

(***************************************************************************)
(* The header.  layout is None for one without tracks, fourcc is empty for *)
(* one with many codecs; cto, command and frame belong to video.           *)
(***************************************************************************)
HasCto(h) ==
  /\ h.video /\ h.layout = None
  /\ h.type = CodedFrames /\ h.fourcc \in Reordered

HasCommand(h) == h.video /\ h.frame = Command /\ h.type # Metadata

Resolved(h) == IF h.layout = None THEN h.type ELSE Multitrack(h.video)

Optional(there, bytes) == IF there THEN bytes ELSE <<>>

Lead(h) == Pack(IF h.video THEN 8 + h.frame ELSE 9,
                IF h.entries = <<>> THEN Resolved(h) ELSE ModEx)

Check(ok, bytes) == [ok |-> ok, bytes |-> bytes]

\* to_bytes, step by step: what is looked at, and what is appended if it is in
\* order. emit looks at the final type before it looks at any entry.
Steps(h) ==
  << Check(h.entries = <<>> => h.nanos = 0, <<Lead(h)>>),
     Check(h.entries # <<>> => Resolved(h) # ModEx, <<>>) >>
    \o [i \in 1 .. Len(h.entries) |->
          Check(EntryIsValid(h.entries[i]),
                EmitEntry(h.entries[i], IF i = Len(h.entries) THEN Resolved(h) ELSE ModEx))]
    \o << Check(h.layout # None => h.type # Multitrack(h.video),
                Optional(h.layout # None, <<Pack(h.layout, h.type)>>)),
          Check(h.fourcc = <<>> <=> h.layout = ManyCodecs, h.fourcc),
          Check((h.cto # None <=> HasCto(h)) /\ (h.cto # None => FitsSI24(h.cto)),
                IF h.cto = None THEN <<>> ELSE SI24(h.cto)),
          Check(h.command # None <=> HasCommand(h), Optional(h.command # None, <<h.command>>)) >>

Accepted(h) == \A i \in 1 .. Len(Steps(h)) : Steps(h)[i].ok

\* What is in the caller's buffer when to_bytes returns, with or without an error.
HeaderBytes(h) ==
  LET passed(i) == \A j \in 1 .. i : Steps(h)[j].ok
  IN FlattenSeq([i \in 1 .. Len(Steps(h)) |-> Optional(passed(i), Steps(h)[i].bytes)])

(***************************************************************************)
(* Tracks.                                                                 *)
(***************************************************************************)
MaxTrackPayload == 16777215

Joinable(layout, batch) ==
  /\ layout \in {OneTrack, ManyTracks, ManyCodecs}
  /\ IF layout = OneTrack THEN Len(batch) = 1 ELSE batch # <<>>
  /\ \A i \in 1 .. Len(batch) : layout = OneTrack \/ Len(batch[i].payload) <= MaxTrackPayload

JoinTrack(layout, t) ==
  Optional(layout = ManyCodecs, t.fourcc) \o <<t.id>>
    \o Optional(layout # OneTrack, UI24(Len(t.payload))) \o t.payload

JoinTracks(layout, batch) ==
  FlattenSeq([i \in 1 .. Len(batch) |-> JoinTrack(layout, batch[i])])

(***************************************************************************)
(* Writing.                                                                *)
(***************************************************************************)
Nothing == [header |-> None, batch |-> <<>>, payload |-> <<>>, length |-> 0]

Blank(v) ==
  [video |-> v, frame |-> 0, type |-> 0, fourcc |-> <<>>, layout |-> None, entries |-> <<>>,
   nanos |-> 0, cto |-> None, command |-> None, consumed |-> 0]

Init ==
  /\ sent = Nothing
  /\ video \in BOOLEAN
  /\ wire = <<>> /\ stage = "writing"
  /\ cursor = 0 /\ pending = 0 /\ read = Blank(video) /\ tracks = <<>>

Refused == -1     \* in place of a length

\* What was appended before the error stays, and may be taken for a body.
Refuse(h) ==
  /\ h.video = video
  /\ ~Accepted(h)
  /\ wire' = HeaderBytes(h)
  /\ sent' = [Nothing EXCEPT !.header = h, !.length = Refused]
  /\ stage' = "lead"
  /\ UNCHANGED <<video, cursor, pending, read, tracks>>

Send(h, batch, payload) ==
  /\ h.video = video
  /\ Accepted(h)
  /\ wire' = HeaderBytes(h) \o JoinTracks(h.layout, batch) \o payload
  /\ sent' = [header |-> h, batch |-> batch, payload |-> payload, length |-> Len(wire')]
  /\ stage' = "lead"
  /\ UNCHANGED <<video, cursor, pending, read, tracks>>

SendTracks(h, batch) == Joinable(h.layout, batch) /\ Send(h, batch, <<>>)

SendPayload(h, payload) == h.layout \notin {OneTrack, ManyTracks, ManyCodecs} /\ Send(h, <<>>, payload)

\* The tag is shorter than what was written.
CutOff ==
  /\ stage = "lead"
  /\ Len(wire) = sent.length
  /\ \E m \in 0 .. Len(wire) - 1 : wire' = SubSeq(wire, 1, m)
  /\ UNCHANGED <<sent, video, stage, cursor, pending, read, tracks>>

Receive(body) ==
  /\ wire' = body
  /\ stage' = "lead"
  /\ UNCHANGED <<sent, video, cursor, pending, read, tracks>>

(***************************************************************************)
(* Reading the header.                                                     *)
(***************************************************************************)
Left(n) == cursor + n <= Len(wire)

Next1 == wire[cursor + 1]

IsEx == wire # <<>> /\ IF video THEN wire[1] >= 128 ELSE High(wire[1]) = 9

ParseLegacy ==
  /\ stage = "lead"
  /\ ~IsEx
  /\ stage' = "legacy"
  /\ UNCHANGED <<sent, video, wire, cursor, pending, read, tracks>>

ParseLead ==
  /\ stage = "lead"
  /\ IsEx
  /\ read' = [read EXCEPT !.frame = IF video THEN High(Next1) % 8 ELSE 0]
  /\ pending' = Low(Next1)
  /\ cursor' = 1
  /\ stage' = "modex"
  /\ UNCHANGED <<sent, video, wire, tracks>>

\* What one turn of the walk takes, and whether it is there and in order.
EntryFits ==
  /\ Left(1) /\ Left(SizeWidth(wire, cursor))
  /\ LET data == cursor + SizeWidth(wire, cursor)
         size == DecodeSize(wire, cursor)
     IN /\ data + size + 1 <= Len(wire)
        /\ High(wire[data + size + 1]) = 0 => size >= 3

WalkEntry ==
  /\ stage = "modex" /\ pending = ModEx
  /\ EntryFits
  /\ LET data == cursor + SizeWidth(wire, cursor)
         end == data + DecodeSize(wire, cursor)
         subtype == High(wire[end + 1])
         nano == IF subtype = 0 THEN Number24(wire, data) ELSE None
     IN /\ read' = [read EXCEPT
              !.entries = Append(@, [subtype |-> subtype, nano |-> nano,
                                     raw |-> SubSeq(wire, data + 1, end)]),
              !.nanos = IF subtype = 0 THEN Saturating(@, nano) ELSE @]
        /\ pending' = Low(wire[end + 1])
        /\ cursor' = end + 1
  /\ UNCHANGED <<sent, video, wire, stage, tracks>>

ParseMultitrack ==
  /\ stage = "modex" /\ pending = Multitrack(video)
  /\ Left(1) /\ Low(Next1) # Multitrack(video)
  /\ read' = [read EXCEPT !.layout = High(Next1), !.type = Low(Next1)]
  /\ cursor' = cursor + 1
  /\ stage' = IF High(Next1) = ManyCodecs THEN "extra" ELSE "fourcc"
  /\ UNCHANGED <<sent, video, wire, pending, tracks>>

IsSingle == stage = "modex" /\ pending \notin {ModEx, Multitrack(video)}

ParseFourCc ==
  /\ stage = "fourcc" \/ IsSingle
  /\ Left(4)
  /\ read' = [read EXCEPT !.type = IF IsSingle THEN pending ELSE @,
                          !.fourcc = SubSeq(wire, cursor + 1, cursor + 4)]
  /\ cursor' = cursor + 4
  /\ stage' = "extra"
  /\ UNCHANGED <<sent, video, wire, pending, tracks>>

\* Mutant: an offset that is cut off is left out.
NeedsCtoIfThere == HasCto(read) /\ read.cto = None /\ Left(3)

NeedsCto == HasCto(read) /\ read.cto = None

NeedsCommand == ~NeedsCto /\ HasCommand(read) /\ read.command = None

ParseCto ==
  /\ stage = "extra" /\ NeedsCto
  /\ Left(3)
  /\ read' = [read EXCEPT !.cto = Signed24(wire, cursor)]
  /\ cursor' = cursor + 3
  /\ UNCHANGED <<sent, video, wire, stage, pending, tracks>>

ParseCommand ==
  /\ stage = "extra" /\ NeedsCommand
  /\ Left(1)
  /\ read' = [read EXCEPT !.command = Next1]
  /\ cursor' = cursor + 1
  /\ UNCHANGED <<sent, video, wire, stage, pending, tracks>>

EndHeader ==
  /\ stage = "extra" /\ ~NeedsCto /\ ~NeedsCommand
  /\ read' = [read EXCEPT !.consumed = cursor]
  /\ stage' = IF read.layout = None THEN "done" ELSE "tracks"
  /\ UNCHANGED <<sent, video, wire, cursor, pending, tracks>>

\* One error return each: ModEx, multitrack byte, FourCC, offset, command.
ParseFails ==
  /\ \/ stage = "modex" /\ pending = ModEx /\ ~EntryFits
     \/ /\ stage = "modex" /\ pending = Multitrack(video)
        /\ ~(Left(1) /\ Low(Next1) # Multitrack(video))
     \/ (stage = "fourcc" \/ IsSingle) /\ ~Left(4)
     \/ stage = "extra" /\ NeedsCto /\ ~Left(3)
     \/ stage = "extra" /\ NeedsCommand /\ ~Left(1)
  /\ stage' = "invalid"
  /\ UNCHANGED <<sent, video, wire, cursor, pending, read, tracks>>

(***************************************************************************)
(* split_tracks: one turn is one track.  Its payload are the bytes behind  *)
(* "from" up to "to".                                                      *)
(***************************************************************************)
\* Mutant: a track is read as if its FourCC were in the header.
IdAtShared == cursor

IdAt == IF read.layout = ManyCodecs THEN cursor + 4 ELSE cursor

PayloadAt == IF read.layout = OneTrack THEN IdAt + 1 ELSE IdAt + 4

PayloadEnd ==
  IF read.layout = OneTrack THEN Len(wire) ELSE PayloadAt + Number24(wire, IdAt + 1)

\* Mutant: a track may reach behind the end.
TrackFitsAtFront == read.layout \in {OneTrack, ManyTracks, ManyCodecs} /\ PayloadAt <= Len(wire)

TrackFits ==
  /\ read.layout \in {OneTrack, ManyTracks, ManyCodecs}
  /\ PayloadAt <= Len(wire) /\ PayloadEnd <= Len(wire)

SplitTrack ==
  /\ stage = "tracks"
  /\ TrackFits
  /\ tracks' = Append(tracks,
       [id |-> wire[IdAt + 1],
        fourcc |-> IF read.layout = ManyCodecs THEN SubSeq(wire, cursor + 1, cursor + 4)
                                               ELSE read.fourcc,
        from |-> PayloadAt, to |-> PayloadEnd])
  /\ cursor' = PayloadEnd
  /\ stage' = IF PayloadEnd = Len(wire) THEN "done" ELSE "tracks"
  /\ UNCHANGED <<sent, video, wire, pending, read>>

\* The header stands, and its caller decides: no packet, or the rest of the body as
\* one piece where a configuration or a layout is looked for.
SplitFails ==
  /\ stage = "tracks"
  /\ ~TrackFits
  /\ tracks' = <<>>
  /\ stage' = "unsplit"
  /\ UNCHANGED <<sent, video, wire, cursor, pending, read>>

Write ==
  /\ stage = "writing"
  /\ \/ \E h \in Headers : \/ Refuse(h)
                           \/ \E batch \in Batches : SendTracks(h, batch)
                           \/ \E payload \in Payloads : SendPayload(h, payload)
     \/ \E body \in Noise : Receive(body)

Parse ==
  \/ ParseLegacy \/ ParseLead \/ WalkEntry \/ ParseMultitrack \/ ParseFourCc
  \/ ParseCto \/ ParseCommand \/ EndHeader \/ ParseFails

Next == Write \/ CutOff \/ Parse \/ SplitTrack \/ SplitFails

Spec == Init /\ [][Next]_vars

-----------------------------------------------------------------------------
(***************************************************************************)
(* What should come of it.                                                 *)
(***************************************************************************)
Stages ==
  {"writing", "lead", "legacy", "modex", "fourcc", "extra", "tracks",
   "done", "invalid", "unsplit"}

Starts(i) == tracks[i].from - (IF read.layout = ManyCodecs THEN 8 ELSE IF read.layout = OneTrack THEN 1 ELSE 4)

\* The type invariant: the reader stays inside of the body.
TypeOK ==
  /\ video \in BOOLEAN
  /\ stage \in Stages
  /\ cursor \in 0 .. Len(wire)
  /\ read.consumed \in 0 .. cursor
  /\ \A i \in 1 .. Len(tracks) : tracks[i].from \in 0 .. tracks[i].to /\ tracks[i].to \in 0 .. cursor

\* split_tracks on any body, its own or not: every byte behind the header belongs
\* to exactly one track, records follow each other without a gap, and nothing of
\* the body is left when it succeeds.
TracksTile ==
  /\ \A i \in 1 .. Len(tracks) :
       Starts(i) = IF i = 1 THEN read.consumed ELSE tracks[i - 1].to
  /\ stage \in {"tracks", "done"} =>
       cursor = IF tracks = <<>> THEN read.consumed ELSE tracks[Len(tracks)].to
  /\ stage = "done" /\ read.layout # None => tracks # <<>> /\ cursor = Len(wire)

IsSent == sent # Nothing

\* A header whose parts agree with each other.
Consistent(h) ==
  /\ h.layout = None => h.type \notin {ModEx, Multitrack(h.video)}
  /\ h.nanos = Total(h.entries)
  /\ \A i \in 1 .. Len(h.entries) : h.entries[i].nano = None <=> h.entries[i].subtype # 0

ReadsAs(h) == [read EXCEPT !.consumed = 0] = h

Bytes(t) == SubSeq(wire, t.from + 1, t.to)

IsTrack(t, sentTrack) ==
  /\ t.id = sentTrack.id
  /\ t.fourcc = IF read.layout = ManyCodecs THEN sentTrack.fourcc ELSE read.fourcc

GivenBack ==
  /\ stage \notin {"invalid", "legacy"}
  /\ stage = "unsplit" => sent.header.layout \notin {OneTrack, ManyTracks, ManyCodecs}
  /\ stage \in {"tracks", "unsplit", "done"} => ReadsAs(sent.header)
  /\ stage = "done" =>
       /\ Len(tracks) = Len(sent.batch)
       /\ \A i \in 1 .. Len(tracks) :
            IsTrack(tracks[i], sent.batch[i]) /\ Bytes(tracks[i]) = sent.batch[i].payload
       /\ read.layout = None => SubSeq(wire, cursor + 1, Len(wire)) = sent.payload

\* to_bytes and join_tracks are "the inverse of" parse and split_tracks: the same
\* header, entries, nanoseconds, offset and command, and the same tracks.
RoundTrip ==
  IsSent /\ Len(wire) = sent.length /\ Consistent(sent.header) => GivenBack

\* The same for every header to_bytes accepts, which errors "for any combination
\* that doesn't have a defined wire representation".
AcceptedIsGivenBack == IsSent /\ Len(wire) = sent.length => GivenBack

\* A body that was cut off is noticed, or its header is whole and its tracks are
\* the first of those sent; only the payload of a single track can be shorter.
IsFront ==
  /\ ReadsAs(sent.header)
  /\ Len(tracks) <= Len(sent.batch)
  /\ \A i \in 1 .. Len(tracks) :
       /\ IsTrack(tracks[i], sent.batch[i])
       /\ IF read.layout = OneTrack
          THEN IsPrefix(Bytes(tracks[i]), sent.batch[i].payload)
          ELSE Bytes(tracks[i]) = sent.batch[i].payload

\* What is left of a header that was refused reads as an error or as that header
\* without the codec, the offset or the command that was refused: a chain of
\* ModEx entries that was not written to its end is never taken for a header.
IsFrontOfRefused ==
  /\ ReadsAs([sent.header EXCEPT
       !.fourcc = IF read.fourcc = <<>> THEN <<>> ELSE @,
       !.cto = IF read.cto = None THEN None ELSE @,
       !.command = IF read.command = None THEN None ELSE @])
  /\ Accepted(read)
  /\ tracks = <<>>

\* Nothing that arrives in part is taken for something else.
CutIsNoticed ==
  IsSent /\ Consistent(sent.header) /\ stage \in {"tracks", "done", "unsplit"} =>
    /\ sent.length = Refused => IsFrontOfRefused
    /\ Len(wire) < sent.length => IsFront
=============================================================================
