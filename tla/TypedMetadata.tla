--------------------------- MODULE TypedMetadata ---------------------------
(***************************************************************************)
(* The typed views of typed_meta.rs over the metadata bag.  An accessor    *)
(* goes by the first entry of its key, also when that one is of no use.    *)
(***************************************************************************)
EXTENDS MetadataReader

\* lookup_finite_f64, as it is and of what is not negative; lookup_u32.
Finite(bag, key) == LET text == Find(bag, key) IN IF text # None /\ Usable(text[1]) THEN <<text[1].n>> ELSE None
Amount(bag, key) == KeptIf(Finite(bag, key), NonNegative)
Unsigned(bag, key) == KeptIf(Finite(bag, key), FitsU32)
Byte(bag, key) == LET fits(n) == n \in 0 .. 255 IN KeptIf(Finite(bag, key), fits)

(***************************************************************************)
(* Annex E.5 and B.1: an accessor per property, by what it lets through.   *)
(***************************************************************************)
TypedNumbers == {"framerate", "videoframerate", "videodatarate", "audiodatarate", "audiodelay",
                 "avclevel", "avcprofile"}
TypedAmounts == {"duration", "audiosamplerate", "filesize", "moovposition"}
TypedCounts == {"width", "height", "audiosamplesize", "videocodecid", "audiocodecid"}
TypedFlags == {"stereo", "canSeekToEnd"}

TypedNumber(bag, name) ==
  CASE name \in TypedNumbers -> Finite(bag, <<name>>)
    [] name \in TypedAmounts -> Amount(bag, <<name>>)
    [] name \in TypedCounts -> Unsigned(bag, <<name>>)

TypedFlag(bag, name) == LookupBool(bag, name)

EffectiveFrameRate(bag) ==
  OrElse(TypedNumber(bag, "videoframerate"), TypedNumber(bag, "framerate"))

\* A codec id as the name it stands for, or as the text it is.
NameOfId(id, str(_)) == [i \in 1 .. Len(id) |-> str(id[i])]
TypedVideoCodec(bag) == NameOfId(TypedNumber(bag, "videocodecid"), VideoCodecStr)
TypedAudioCodec(bag) == NameOfId(TypedNumber(bag, "audiocodecid"), AudioCodecStr)
CodecText(bag, name) ==
  LET text == Find(bag, <<name>>) IN IF text # None /\ text[1].is # "number" THEN text ELSE None

\* parse_date_carrier: milliseconds and time zone of what was a Date.
CreationDate(bag) ==
  LET text == Find(bag, <<"creationdate">>) IN IF text # None /\ text[1].is = "date" THEN text ELSE None

(***************************************************************************)
(* Track maps.  Track 0 is the default track and is in no map.             *)
(***************************************************************************)
TrackIds == 0 .. 9     \* bound: the track ids the model has a name for

MapKey(kind) == LoweredMap(TrackMapName[kind])

\* Mutant: the ids in their numerical order.
IterIdsSorted(bag, kind) ==
  LET ids == {id \in TrackIds \ {0} : \E i \in 1 .. Len(bag) : Under(<<MapKey(kind), ToString(id)>>, bag[i].key)}
  IN SetToSortSeq(ids, LAMBDA a, b : a < b)

\* The iterator: every id but 0, in the order of its first property.
IterIds(bag, kind) ==
  LET ids == {id \in TrackIds \ {0} : \E i \in 1 .. Len(bag) : Under(<<MapKey(kind), ToString(id)>>, bag[i].key)}
      first(id) == CHOOSE i \in 1 .. Len(bag) :
        /\ Under(<<MapKey(kind), ToString(id)>>, bag[i].key)
        /\ \A j \in 1 .. i - 1 : ~Under(<<MapKey(kind), ToString(id)>>, bag[j].key)
  IN SetToSortSeq(ids, LAMBDA a, b : first(a) < first(b))

HasTrackInfo(bag, kind, id) ==
  id # 0 /\ \E i \in 1 .. Len(bag) : Under(<<MapKey(kind), ToString(id)>>, bag[i].key)

Property(bag, kind, id, field) ==
  LET key == <<MapKey(kind), ToString(id), field>>
  IN CASE field \in {"width", "height", "videocodecid", "channels", "audiocodecid"} -> Unsigned(bag, key)
       [] field = "samplerate" -> Amount(bag, key)
       [] field = "framerate" ->
            OrElse(Finite(bag, <<MapKey(kind), ToString(id), "videoframerate">>), Finite(bag, key))
       [] OTHER -> Finite(bag, key)

(***************************************************************************)
(* TypedColorInfo::to_color_info.                                          *)
(***************************************************************************)
HasColor(bag) == \E i \in 1 .. Len(bag) : bag[i].key = <<"colorinfo">> \/ Under(<<"colorinfo">>, bag[i].key)

IsResetSentinel(bag) == Find(bag, <<"colorinfo">>) = <<Word("undefined")>>

ColorField(bag, group, field) ==
  LET key == <<"colorinfo", group, field>>
  IN IF group = "colorConfig" THEN Byte(bag, key) ELSE Finite(bag, key)

FieldsThere(bag, group) == {f \in ToSet(Fields[group]) : ColorField(bag, group, f) # None}

\* A group without any field is a group that is not there.
ToColorInfo(bag) ==
  [g \in {h \in ToSet(Groups) : FieldsThere(bag, h) # {}} |->
     [f \in FieldsThere(bag, g) |-> ColorField(bag, g, f)[1]]]
=============================================================================
