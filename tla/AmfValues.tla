----------------------------- MODULE AmfValues -----------------------------
(***************************************************************************)
(* AMF values as amf0.rs and amf3.rs hand them over.                       *)
(*                                                                         *)
(* Scalars keep what the bag shows of them.  Everything with parts is one  *)
(* kind of record: an AMF0 object, ECMA array or typed object, an AMF0     *)
(* strict array, an AMF3 object or array.                                  *)
(***************************************************************************)
EXTENDS Integers, Sequences, SequencesExt, TLC

(***************************************************************************)
(* The text of a bag entry.  A number is kept as a number: a string that   *)
(* spells one gives the same entry.                                        *)
(***************************************************************************)
Numeral(n) == [is |-> "number", n |-> n, s |-> ""]
Word(s)    == [is |-> "word", n |-> 0, s |-> s]
DateWord(ms, tz) == [is |-> "date", n |-> ms, s |-> tz]

\* Stands for NaN and the infinities, which no accessor lets through.
Infinite == 2147483647

IsFinite(n) == n # Infinite

\* Stands for u32::MAX: TLC's integers end before it, and one number has to be left
\* between it and Infinite, for what is finite and does not fit.
MaxU32 == 2147483645

FitsU32(n) == 0 <= n /\ n <= MaxU32

(***************************************************************************)
(* Values.                                                                 *)
(***************************************************************************)
Number(n)  == [m |-> "number", text |-> Numeral(n)]
Boolean(b) == [m |-> "boolean", text |-> Word(IF b THEN "true" ELSE "false")]
String(s)  == [m |-> "string", text |-> Word(s)]
Xml(s)     == [m |-> "xml", text |-> Word(s)]
Plain(m)   == [m |-> m, text |-> Word(m)]
Null       == Plain("null")
Undefined  == Plain("undefined")
Unsupported == Plain("unsupported")
Reference(i) == [m |-> "reference", text |-> Word("ref:" \o ToString(i))]
Date(ms, tz) == [m |-> "date", text |-> DateWord(ms, ToString(tz))]
Bytes(data) == [m |-> "bytes", text |-> Word("bytearray:" \o ToString(Len(data))), data |-> data]

Member(k, v) == [key |-> k, value |-> v]

Parts(of, class, ext, members, items) ==
  [m |-> of, class |-> class, ext |-> ext, members |-> members, items |-> items]

Object(members)       == Parts("object", "", FALSE, members, <<>>)
EcmaArray(members)    == Parts("ecma", "", FALSE, members, <<>>)
TypedObject(c, members) == Parts("typed", c, FALSE, members, <<>>)
StrictArray(items)    == Parts("strict", "", FALSE, <<>>, items)
Array3(members, items) == Parts("array3", "", FALSE, members, items)
Object3(class, members) == Parts("object3", class, FALSE, members, <<>>)

\* What follows the AVM+ marker; the bag shows no trace of the marker.
AvmPlus(inner) == [m |-> "avmplus", inner |-> inner]

Composites0 == {"object", "ecma", "typed"}
Composites  == Composites0 \cup {"strict", "array3", "object3"}

\* AmfValue::get and amf3_property: the first member of that name, if any.
Lookup(members, k) ==
  LET at == {i \in 1 .. Len(members) : members[i].key = k}
  IN IF at = {} THEN <<>> ELSE <<members[CHOOSE i \in at : \A j \in at : i <= j].value>>

Get(v, k) == IF v.m \in Composites0 THEN Lookup(v.members, k) ELSE <<>>

Get3(v, k) == IF v.m \in {"array3", "object3"} THEN Lookup(v.members, k) ELSE <<>>
=============================================================================
