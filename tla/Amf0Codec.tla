----------------------------- MODULE Amf0Codec -----------------------------
(***************************************************************************)
(* amf0.rs: the writers of AMF0 values and parse_amf0_value, on bytes.     *)
(*                                                                         *)
(* A text is the sequence of its bytes, a length has two or four of them.  *)
(* What has a fixed width and no structure (a double, a time zone, an      *)
(* index) is one byte here.  Positions count the bytes in front.           *)
(***************************************************************************)
EXTENDS Integers, Sequences, SequencesExt

CONSTANTS
  Radix,       \* how many values a byte of a length has: 256
  Garbled      \* a byte that no UTF-8 text has

ASSUME RadixAssumption == Radix \in Nat /\ Radix > 1

UI16Max == Radix * Radix - 1

UI16(n) == <<n \div Radix, n % Radix>>
UI32(n) == <<0, 0>> \o UI16(n)

Number16(b, p) == Radix * b[p + 1] + b[p + 2]
Number32(b, p) == Radix * Radix * Number16(b, p) + Number16(b, p + 2)

(***************************************************************************)
(* Values.                                                                 *)
(***************************************************************************)
Number(n)      == [m |-> "number", n |-> n]
Boolean(b)     == [m |-> "boolean", b |-> b]
String(s)      == [m |-> "string", s |-> s]
Object(ms)     == [m |-> "object", members |-> ms]
Null           == [m |-> "null"]
Undefined      == [m |-> "undefined"]
Reference(i)   == [m |-> "reference", n |-> i]
EcmaArray(ms)  == [m |-> "ecma", members |-> ms]
StrictArray(vs) == [m |-> "strict", items |-> vs]
Date(ms, tz)   == [m |-> "date", n |-> ms, tz |-> tz]
Unsupported    == [m |-> "unsupported"]
Xml(s)         == [m |-> "xml", s |-> s]
TypedObject(c, ms) == [m |-> "typed", class |-> c, members |-> ms]

\* Of AMF3 only what is a marker and nothing else: undefined, null, false, true.
AvmPlus(marker3) == [m |-> "avmplus", n |-> marker3]
Markers3 == 0 .. 3

\* A value of a type that AMF0 reserves and parse_amf0_value does not know.
Movieclip == [m |-> "movieclip"]

Member(k, v) == [key |-> k, value |-> v]

Marker ==
  [number |-> 0, boolean |-> 1, string |-> 2, object |-> 3, movieclip |-> 4, null |-> 5,
   undefined |-> 6, reference |-> 7, ecma |-> 8, end |-> 9, strict |-> 10, date |-> 11,
   long |-> 12, unsupported |-> 13, xml |-> 15, typed |-> 16, avmplus |-> 17]

(***************************************************************************)
(* Writing.  A writer that returns an error has written what came before.  *)
(***************************************************************************)
Out(bytes) == [ok |-> TRUE, bytes |-> bytes]
Refusal    == [ok |-> FALSE, bytes |-> <<>>]

Then(a, o) == IF a.ok THEN [ok |-> o.ok, bytes |-> a.bytes \o o.bytes] ELSE a

InOrder(outs) == FoldLeft(Then, Out(<<>>), outs)

WriteText16(s) == IF Len(s) > UI16Max THEN Refusal ELSE Out(UI16(Len(s)) \o s)
WriteText32(s) == Out(UI32(Len(s)) \o s)

Mark(m) == Out(<<Marker[m]>>)

WriteNumber(n)  == Out(<<Marker.number, n>>)
WriteBoolean(b) == Out(<<Marker.boolean, IF b THEN 1 ELSE 0>>)
WriteString(s)  == Then(Mark("string"), WriteText16(s))
WriteLongString(s) == Then(Mark("long"), WriteText32(s))

WriteStringAuto(s) ==
  IF Len(s) > UI16Max THEN WriteLongString(s) ELSE WriteString(s)

WriteObjectEnd == Out(<<0, 0, Marker.end>>)

(***************************************************************************)
(* A value in any of its legal forms: a writer may use the long form for a *)
(* short text, any hint for the size of an ECMA array and any byte but 0   *)
(* for true.  This code does as Own says.  What it has no writer for       *)
(* (references, typed objects) comes from other writers.                   *)
(***************************************************************************)
Own == [long |-> FALSE, surplus |-> 0, true |-> 1]

RECURSIVE Write(_, _)
WriteMembers(ms, how) ==
  Then(InOrder([i \in 1 .. Len(ms) |-> Then(WriteText16(ms[i].key), Write(ms[i].value, how))]),
       WriteObjectEnd)

Write(v, how) ==
  CASE v.m = "number"  -> WriteNumber(v.n)
    [] v.m = "boolean" -> Out(<<Marker.boolean, IF v.b THEN how.true ELSE 0>>)
    [] v.m = "string"  -> IF how.long THEN WriteLongString(v.s) ELSE WriteStringAuto(v.s)
    [] v.m = "xml"     -> Then(Mark("xml"), WriteText32(v.s))
    [] v.m = "object"  -> Then(Mark("object"), WriteMembers(v.members, how))
    [] v.m = "ecma"    ->
         InOrder(<<Mark("ecma"), Out(UI32(Len(v.members) + how.surplus)), WriteMembers(v.members, how)>>)
    [] v.m = "typed"   -> InOrder(<<Mark("typed"), WriteText16(v.class), WriteMembers(v.members, how)>>)
    [] v.m = "strict"  ->
         InOrder(<<Mark("strict"), Out(UI32(Len(v.items)))>> \o [i \in 1 .. Len(v.items) |-> Write(v.items[i], how)])
    [] v.m = "date"    -> Then(Mark("date"), Out(<<v.n, v.tz>>))
    [] v.m \in {"reference", "avmplus"} -> Then(Mark(v.m), Out(<<v.n>>))
    [] OTHER           -> Mark(v.m)

(***************************************************************************)
(* Reading: a value and the position behind it, or an error.               *)
(***************************************************************************)
Got(v, p) == [ok |-> TRUE, v |-> v, p |-> p]
Failed    == [ok |-> FALSE]

Fits(b, p, n) == p + n <= Len(b)

\* read_utf8, behind a length of w bytes.
TextLength(b, p, w) == IF w = 2 THEN Number16(b, p) ELSE Number32(b, p)

ReadText(b, p, w) ==
  IF ~Fits(b, p, w) \/ ~Fits(b, p + w, TextLength(b, p, w)) THEN Failed
  ELSE LET q == p + w + TextLength(b, p, w)
           s == SubSeq(b, p + w + 1, q)
       IN IF Contains(s, Garbled) THEN Failed ELSE Got(s, q)

\* Mutant: an empty name ends the body, whatever follows.
EndsAtEmptyName(b, p) == Number16(b, p) = 0

EndsHere(b, p) == Number16(b, p) = 0 /\ b[p + 3] = Marker.end

ReadTextValue(b, p, w, m) ==
  LET t == ReadText(b, p, w) IN IF t.ok THEN Got([m |-> m, s |-> t.v], t.p) ELSE Failed

RECURSIVE Parse(_, _), ParseBody(_, _, _), ParseItems(_, _, _, _)

\* The members in front of the end marker, after those in ms.
ParseBody(b, p, ms) ==
  IF ~Fits(b, p, 3) THEN Failed
  ELSE IF EndsHere(b, p) THEN Got(ms, p + 3)
  ELSE LET k == ReadText(b, p, 2)
           v == Parse(b, k.p)
       IN IF k.ok /\ v.ok THEN ParseBody(b, v.p, Append(ms, Member(k.v, v.v))) ELSE Failed

ParseItems(b, p, n, vs) ==
  IF Len(vs) = n THEN Got(vs, p)
  ELSE LET v == Parse(b, p)
       IN IF v.ok THEN ParseItems(b, v.p, n, Append(vs, v.v)) ELSE Failed

Parse(b, p) ==
  IF ~Fits(b, p, 1) THEN Failed
  ELSE LET q == p + 1
           Is(m) == b[q] = Marker[m]
           body(at, m) ==
             LET r == ParseBody(b, at, <<>>) IN IF r.ok THEN Got([m |-> m, members |-> r.v], r.p) ELSE Failed
       IN CASE Is("number")    -> IF Fits(b, q, 1) THEN Got(Number(b[q + 1]), q + 1) ELSE Failed
            [] Is("boolean")   -> IF Fits(b, q, 1) THEN Got(Boolean(b[q + 1] # 0), q + 1) ELSE Failed
            [] Is("string")    -> ReadTextValue(b, q, 2, "string")
            [] Is("long")      -> ReadTextValue(b, q, 4, "string")
            [] Is("xml")       -> ReadTextValue(b, q, 4, "xml")
            [] Is("object")    -> body(q, "object")
            [] Is("ecma")      -> body(q + 4, "ecma")
            [] Is("typed")     ->
                 LET c == ReadText(b, q, 2)
                     r == ParseBody(b, c.p, <<>>)
                 IN IF c.ok /\ r.ok THEN Got(TypedObject(c.v, r.v), r.p) ELSE Failed
            [] Is("strict")    ->
                 LET r == ParseItems(b, q + 4, Number32(b, q), <<>>)
                 IN IF Fits(b, q, 4) /\ r.ok THEN Got(StrictArray(r.v), r.p) ELSE Failed
            [] Is("date")      -> IF Fits(b, q, 2) THEN Got(Date(b[q + 1], b[q + 2]), q + 2) ELSE Failed
            [] Is("reference") -> IF Fits(b, q, 1) THEN Got(Reference(b[q + 1]), q + 1) ELSE Failed
            [] Is("avmplus")   ->
                 IF Fits(b, q, 1) /\ b[q + 1] \in Markers3 THEN Got(AvmPlus(b[q + 1]), q + 1) ELSE Failed
            [] Is("null")        -> Got(Null, q)
            [] Is("undefined")   -> Got(Undefined, q)
            [] Is("unsupported") -> Got(Unsupported, q)
            [] OTHER             -> Failed
=============================================================================
