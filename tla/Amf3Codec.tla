----------------------------- MODULE Amf3Codec -----------------------------
(***************************************************************************)
(* write_amf3_value of amf3.rs followed by parse_amf3_value of what it     *)
(* wrote.  The value to be written is chosen cell by cell while the writer *)
(* walks it, so every value is; its recursion is the stack "calls".        *)
(***************************************************************************)
EXTENDS Amf3Decoder

CONSTANTS
  MaxCells,    \* bound: how many cells a value has
  MaxCount     \* bound: how many dense values, or sealed names, in one cell

ASSUME BoundAssumption == MaxCells \in Nat /\ MaxCount \in Nat

VARIABLES
  phase,       \* "writing", "reading", or "refused" by the writer
  calls,       \* the calls of write_array and write_object under way
  written,     \* EncState.strings
  source,      \* the value, cell by cell, as literals
  wire         \* what has been written

writerVars == <<phase, calls, written, source, wire>>
codecVars == <<decoderVars, writerVars>>

CodecInit ==
  /\ DecoderInit
  /\ phase = "writing"
  /\ calls = <<>> /\ written = <<>> /\ source = <<>> /\ wire = <<>>

(***************************************************************************)
(* What the writer emits next: write_array goes through the associative    *)
(* part before the dense one, write_object through names, sealed values    *)
(* and dynamic members.                                                    *)
(***************************************************************************)
Writing == calls[Len(calls)]

Pairs(f) == IF f.keyed THEN "value" ELSE IF f.run THEN "key" ELSE "none"

\* Mutant: the dense values come first.
DueInArrayDenseFirst(f) ==
  IF ~f.keyed /\ f.values > 0 THEN "value" ELSE Pairs(f)

DueInArray(f) ==
  IF f.run \/ f.keyed THEN Pairs(f) ELSE IF f.values > 0 THEN "value" ELSE "none"

DueInObject(f) ==
  IF f.names > 0 THEN "name"
  ELSE IF f.values > 0 /\ ~f.keyed THEN "value" ELSE Pairs(f)

Due ==
  IF calls = <<>> THEN IF source = <<>> THEN "value" ELSE "none"
  ELSE IF Writing.kind = "array" THEN DueInArray(Writing) ELSE DueInObject(Writing)

WriterAt(what) == phase = "writing" /\ Due = what /\ Len(source) < MaxCells

WithCall(f) == [calls EXCEPT ![Len(calls)] = f]

\* The calls with one more value begun.
Advanced ==
  IF calls = <<>> THEN <<>>
  ELSE WithCall(IF Writing.keyed THEN [Writing EXCEPT !.keyed = FALSE]
                                 ELSE [Writing EXCEPT !.values = @ - 1])

Put(c, w) == source' = Append(source, c) /\ wire' = Append(wire, w)

(***************************************************************************)
(* Strings: a reference when the table has it, otherwise a literal that    *)
(* enters the table, unless it is empty.                                   *)
(***************************************************************************)
PlaceOf(s) == CHOOSE i \in 0 .. Len(written) :
  IF \E j \in 1 .. Len(written) : written[j] = s THEN i > 0 /\ written[i] = s ELSE i = 0

\* Mutant: the empty string enters the table.
RecordEvery(s) == written' = IF PlaceOf(s) > 0 THEN written ELSE Append(written, s)

\* Mutant: sealed names and class names do not enter the table.
RecordValues(s) ==
  written' = IF s = NoText \/ PlaceOf(s) > 0 \/ Due = "name" THEN written ELSE Append(written, s)

Record(s) ==
  written' = IF s = NoText \/ PlaceOf(s) > 0 THEN written ELSE Append(written, s)

OnWire(s) == IF PlaceOf(s) > 0 THEN NoText ELSE s

PutName(s) ==
  /\ Put(NameCell(0, s), NameCell(PlaceOf(s), OnWire(s)))
  /\ Record(s)

(***************************************************************************)
(* Values.                                                                 *)
(***************************************************************************)
WriteScalar ==
  /\ WriterAt("value")
  /\ \/ Put(Atom, Atom)
     \/ \E k \in Leaves : Put(LeafCell(k, 0), LeafCell(k, 0))
  /\ calls' = Advanced
  /\ UNCHANGED <<decoderVars, phase, written>>

WriteString(s) ==
  /\ WriterAt("value")
  /\ Put(StringCell(0, s), StringCell(PlaceOf(s), OnWire(s)))
  /\ Record(s)
  /\ calls' = Advanced
  /\ UNCHANGED <<decoderVars, phase>>

WriteArray(n) ==
  /\ WriterAt("value")
  /\ Put(ArrayCell(0, n), ArrayCell(0, n))
  /\ calls' = Append(Advanced, [kind |-> "array", names |-> 0, values |-> n, run |-> TRUE, keyed |-> FALSE])
  /\ UNCHANGED <<decoderVars, phase, written>>

WriteObject(dyn, n) ==
  /\ WriterAt("value")
  /\ LET c == ObjectCell("inline", 0, FALSE, dyn, n) IN Put(c, c)
  /\ calls' = Append(Advanced, [kind |-> "object", names |-> 1 + n, values |-> n, run |-> dyn, keyed |-> FALSE])
  /\ UNCHANGED <<decoderVars, phase, written>>

\* Only the flag and the class name are written.
WriteExternalizable ==
  /\ WriterAt("value")
  /\ LET c == ObjectCell("inline", 0, TRUE, FALSE, 0) IN Put(c, c)
  /\ calls' = Append(Advanced, [kind |-> "object", names |-> 1, values |-> 0, run |-> FALSE, keyed |-> FALSE])
  /\ UNCHANGED <<decoderVars, phase, written>>

WriteTraitName(s) ==
  /\ WriterAt("name")
  /\ PutName(s)
  /\ calls' = WithCall([Writing EXCEPT !.names = @ - 1])
  /\ UNCHANGED <<decoderVars, phase>>

\* Mutant: a dynamic member without a name is written like any other.
WriteAnyKey(s) ==
  /\ WriterAt("key")
  /\ PutName(s)
  /\ calls' = WithCall([Writing EXCEPT !.keyed = TRUE])
  /\ UNCHANGED <<decoderVars, phase>>

WriteKey(s) ==
  /\ WriterAt("key")
  /\ s # NoText
  /\ PutName(s)
  /\ calls' = WithCall([Writing EXCEPT !.keyed = TRUE])
  /\ UNCHANGED <<decoderVars, phase>>

\* The terminator of a run is the empty name.
WriteEndOfRun ==
  /\ WriterAt("key")
  /\ PutName(NoText)
  /\ calls' = WithCall([Writing EXCEPT !.run = FALSE])
  /\ UNCHANGED <<decoderVars, phase>>

\* An empty key would be read as the terminator. What is too long for a U29, and
\* an object with more or fewer names than sealed values, is refused as a value.
Refuse ==
  /\ WriterAt("key") \/ WriterAt("value")
  /\ phase' = "refused"
  /\ UNCHANGED <<decoderVars, calls, written, source, wire>>

WriterReturn ==
  /\ phase = "writing"
  /\ Due = "none"
  /\ IF calls = <<>> THEN phase' = "reading" /\ UNCHANGED calls
                     ELSE calls' = SubSeq(calls, 1, Len(calls) - 1) /\ UNCHANGED phase
  /\ UNCHANGED <<decoderVars, written, source, wire>>

\* The body that holds the value may end before it does.
CutOff ==
  /\ phase = "writing"
  /\ Due = "none" /\ calls = <<>>
  /\ \E m \in 0 .. Len(wire) - 1 : wire' = SubSeq(wire, 1, m)
  /\ phase' = "reading"
  /\ UNCHANGED <<decoderVars, calls, written, source>>

Write ==
  \/ WriteScalar \/ WriteExternalizable \/ WriteEndOfRun \/ Refuse \/ WriterReturn \/ CutOff
  \/ \E s \in Text \cup {NoText} : WriteString(s) \/ WriteTraitName(s) \/ WriteKey(s)
  \/ \E n \in 0 .. MaxCount : WriteArray(n) \/ \E dyn \in BOOLEAN : WriteObject(dyn, n)

(***************************************************************************)
(* Reading back: the reader makes one cell of its value of each on the     *)
(* wire.  What the writer left of a value it refused may be read, too.     *)
(***************************************************************************)
ReadBack ==
  /\ phase \in {"reading", "refused"}
  /\ \/ Len(tree) < Len(wire) /\ ReadCell(wire[Len(tree) + 1])
     \/ Len(tree) = Len(wire) /\ Truncated
     \/ Return
     \/ Complete
  /\ UNCHANGED writerVars

CodecNext == Write \/ ReadBack

CodecSpec == CodecInit /\ [][CodecNext]_codecVars

\* Reading is a loop on one thread.
CodecFairSpec == CodecSpec /\ WF_codecVars(ReadBack)

-----------------------------------------------------------------------------
Whole == Len(wire) = Len(source)

\* The type invariant: a reference on the wire is one to the writer's table.
CodecTypeOK ==
  /\ phase \in {"writing", "reading", "refused"}
  /\ phase = "writing" => Whole
  /\ \A i \in 1 .. Len(written) : written[i] \in Text
  /\ \A j \in 1 .. Len(wire) : wire[j].op \in {"string", "name"} => wire[j].at \in 0 .. Len(written)

\* fuzz_targets/amf3_roundtrip.rs: what is read back is what was written, from
\* the first cell to the last, and only what was cut off or refused half way is
\* rejected; a part of a value never passes for a value.
RoundTrip ==
  /\ \A j \in 1 .. Len(tree) : tree[j] = source[j]
  /\ status = "done" => Len(tree) = Len(source)
  /\ status = "invalid" => ~Whole \/ phase = "refused"
  /\ phase = "refused" => status # "done"

\* EncState: the writer appends to its table "in the exact same encounter order"
\* as the reader, so the two agree at every cell and are the same in the end.
TablesAgree ==
  /\ Len(strings) <= Len(written)
  /\ \A i \in 1 .. Len(strings) : strings[i] = written[i]
  /\ status = "done" => strings = written

\* The reader gets to the end of everything the writer finishes.
ReadsToTheEnd == phase = "reading" /\ Whole ~> status = "done"
=============================================================================
