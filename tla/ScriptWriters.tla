--------------------------- MODULE ScriptWriters ---------------------------
(***************************************************************************)
(* Script tags and the parts of their values, as script.rs builds them.  A *)
(* MetaValue is the AMF value it is written as; only a keyframes table has *)
(* a form of its own until then.                                           *)
(***************************************************************************)
EXTENDS SideFrames

WriteScript(name, value) == Wrote("script", <<>>, <<String(name), value>>)

Keyframes(positions, times) == [m |-> "keyframes", positions |-> positions, times |-> times]

(***************************************************************************)
(* MetadataBag and ObjectBuilder: members in the order of the calls, names *)
(* repeated as often as they are given.                                    *)
(***************************************************************************)
Bag == <<>>
With(bag, name, value) == Append(bag, Member(name, value))

\* TrackInfo: the fields that are set, of the kind of the map they are put in.
\* A field has the name of its AMF property.
TrackFields ==
  [video |-> <<"width", "height", "videodatarate", "framerate", "videocodecid">>,
   audio |-> <<"audiodatarate", "channels", "samplerate", "audiocodecid">>]

TrackPairs(info, kind) == MembersOf(TrackFields[kind], info, Number)

\* TrackInfoMap: ids and infos, in the order of the calls.
TrackMapValue(map, kind) ==
  Object([i \in 1 .. Len(map) |-> Member(ToString(map[i].id), Object(TrackPairs(map[i].info, kind)))])

TrackMapName == [video |-> "videoTrackIdInfoMap", audio |-> "audioTrackIdInfoMap"]

WithTrackMap(bag, kind, map) == With(bag, TrackMapName[kind], TrackMapValue(map, kind))

(***************************************************************************)
(* A keyframes table: when write_keyframes_object refuses it, and what it  *)
(* writes.                                                                 *)
(***************************************************************************)
Sorted(times) == \A i \in 1 .. Len(times) - 1 : times[i] <= times[i + 1]

\* Mutant: the order of the times is not looked at.
KeyframesValidUnsorted(v) ==
  /\ v.positions # <<>>
  /\ Len(v.positions) = Len(v.times)
  /\ \A i \in 1 .. Len(v.times) : IsFinite(v.times[i])

KeyframesValid(v) ==
  /\ v.positions # <<>>
  /\ Len(v.positions) = Len(v.times)
  /\ \A i \in 1 .. Len(v.times) : IsFinite(v.times[i])
  /\ Sorted(v.times)

Numbers(ns) == StrictArray([i \in 1 .. Len(ns) |-> Number(ns[i])])

KeyframesObject(v) ==
  Object(<<Member("filepositions", Numbers(v.positions)), Member("times", Numbers(v.times))>>)

(***************************************************************************)
(* The tags.                                                               *)
(***************************************************************************)
WriteOnXmpData(xml) == WriteScript("onXMPData", Object(<<Member("liveXML", String(xml))>>))

\* The track id is optional.
WriteOnImageData(data, track) ==
  WriteScript("onImageData",
    AvmPlus(Object3("", <<Member("data", Bytes(data))>>
                         \o [i \in 1 .. Len(track) |-> Member("trackid", Number(track[i]))])))

EncryptionHeader(version, subtype) ==
  [version |-> version, method |-> "Standard", algorithm |-> "AES-CBC", keyLength |-> 16,
   subtype |-> subtype]

FlashAccessV2 == EncryptionHeader(2, "FlashAccessv2")
FmrmsV1 == EncryptionHeader(1, "APS")

One(name, value) == Object(<<Member(name, value)>>)

WriteAdditionalHeader(h) ==
  WriteScript("|AdditionalHeader",
    One("Encryption", Object(
      << Member("Version", Number(h.version)), Member("Method", String(h.method)),
         Member("Flags", Number(0)),
         Member("Params", Object(
           << Member("Version", Number(1)), Member("EncryptionAlgorithm", String(h.algorithm)),
              Member("EncryptionParams", One("KeyLength", Number(h.keyLength))),
              Member("KeyInfo", One("SubType", String(h.subtype))) >>)) >>)))
=============================================================================
