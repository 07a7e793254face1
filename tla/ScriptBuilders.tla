--------------------------- MODULE ScriptBuilders ---------------------------
(***************************************************************************)
(* The builders of script.rs that write nested values.  A builder gives    *)
(* the tag it writes, or nothing when it returns an error: write_meta_value*)
(* refuses what it finds at any depth.                                     *)
(***************************************************************************)
EXTENDS ScriptWriters

RECURSIVE Writable(_)
Writable(v) ==
  CASE v.m = "keyframes" -> KeyframesValid(v)
    [] v.m = "date" -> IsFinite(v.text.n)
    [] v.m \in Composites -> /\ \A i \in 1 .. Len(v.members) : Writable(v.members[i].value)
                             /\ \A i \in 1 .. Len(v.items) : Writable(v.items[i])
    [] OTHER -> TRUE

RECURSIVE OnWire(_)
OnWire(v) ==
  CASE v.m = "keyframes" -> KeyframesObject(v)
    [] v.m \in Composites ->
         [v EXCEPT !.members = [i \in 1 .. Len(v.members) |->
                                  Member(v.members[i].key, OnWire(v.members[i].value))],
                   !.items = [i \in 1 .. Len(v.items) |-> OnWire(v.items[i])]]
    [] OTHER -> v

WriteObject(name, value) == IF Writable(value) THEN WriteScript(name, OnWire(value)) ELSE Refused

WriteOnMetadata(bag) == WriteObject("onMetaData", EcmaArray(bag))

CueTypes == {"event", "navigation"}

WriteOnCuePoint(name, time, type, parameters) ==
  IF ~IsFinite(time) THEN Refused
  ELSE WriteObject("onCuePoint",
         Object(<< Member("name", String(name)), Member("time", Number(time)),
                   Member("type", String(type)), Member("parameters", Object(parameters)) >>))
=============================================================================
