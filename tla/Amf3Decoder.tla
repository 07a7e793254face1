---------------------------- MODULE Amf3Decoder ----------------------------
(***************************************************************************)
(* parse_amf3_value of amf3.rs: one value read off the wire with its three *)
(* reference tables.  The recursion of the code is the stack here, and a   *)
(* step reads one header or lets one recursive call return.                *)
(*                                                                         *)
(* A cell of the wire is a marker with the U29 header (and the scalar      *)
(* body) that follows it, or the U29 header of a name with its body.       *)
(* "at" is the reference it makes: 0 for a literal, otherwise the index in *)
(* the table, counted from 1.                                              *)
(***************************************************************************)
EXTENDS Integers, Sequences

CONSTANTS
  Text,      \* the non-empty strings
  NoText     \* the empty string

ASSUME TextAssumption == NoText \notin Text

VARIABLES
  stack,     \* the calls of read_array and read_object that have not returned
  strings,   \* State.strings
  objects,   \* State.objects
  traits,    \* State.traits
  tree,      \* the value read so far, cell by cell, names resolved
  status     \* "reading", "done" or "invalid"

decoderVars == <<stack, strings, objects, traits, tree, status>>

(***************************************************************************)
(* Cells.                                                                  *)
(*                                                                         *)
(*   atom     undefined, null, a boolean, an integer or a double           *)
(*   string   a string value                                               *)
(*   name     a key, class name or sealed name; the empty one ends a run   *)
(*   leaf     a complex value without children                             *)
(*   array    with the number of its dense values                          *)
(*   object   an object reference (by "object"), one whose traits are a    *)
(*            reference (by "traits") or inline (by "inline"), with the    *)
(*            externalizable and dynamic flags and the sealed count        *)
(***************************************************************************)
Leaves == {"xmldoc", "xml", "date", "bytes"}

Atom == [op |-> "atom"]
StringCell(at, s) == [op |-> "string", at |-> at, text |-> s]
NameCell(at, s) == [op |-> "name", at |-> at, text |-> s]
LeafCell(k, at) == [op |-> "leaf", kind |-> k, at |-> at]
ArrayCell(at, n) == [op |-> "array", kind |-> "array", at |-> at, dense |-> n]
ObjectCell(by, at, ext, dyn, n) ==
  [op |-> "object", kind |-> "object", by |-> by, at |-> at,
   ext |-> ext, dyn |-> dyn, sealed |-> n]

\* What a reference turns into: the cell at "from", with or without what it
\* holds (an array or object that is still being read has nothing yet).
Alias(k, from, open) == [op |-> "alias", kind |-> k, from |-> from, open |-> open]

(***************************************************************************)
(* Calls.                                                                  *)
(*                                                                         *)
(*   slot     the place in the object table, 0 before it is taken          *)
(*   cell     where in the tree the value starts                           *)
(*   names    how many names of inline traits are still to be read         *)
(*   entry    the traits, as far as they are read                          *)
(*   values   how many dense or sealed values are still to be read         *)
(*   run      a run of keys and values is still to be read, or under way   *)
(*   keyed    a key has been read and its value has not                    *)
(***************************************************************************)
Traits(ext, dyn, names) == [ext |-> ext, dyn |-> dyn, names |-> names]

Top == stack[Len(stack)]

Begun == tree # <<>>

WantsName(f) ==
  \/ f.names > 0
  \/ f.run /\ ~f.keyed /\ (f.kind = "array" \/ f.values = 0)

WantsValue(f) ==
  /\ f.names = 0
  /\ \/ f.keyed
     \/ f.values > 0 /\ (f.kind = "object" \/ ~f.run)

Finished(f) == ~WantsName(f) /\ ~WantsValue(f)

ExpectsValue ==
  /\ status = "reading"
  /\ IF stack = <<>> THEN ~Begun ELSE WantsValue(Top)

ExpectsName == status = "reading" /\ stack # <<>> /\ WantsName(Top)

\* The calls with one more value begun.
Taken ==
  IF stack = <<>> THEN <<>>
  ELSE [stack EXCEPT ![Len(stack)] =
          IF Top.keyed THEN [Top EXCEPT !.keyed = FALSE]
                       ELSE [Top EXCEPT !.values = @ - 1]]

DecoderInit ==
  /\ stack = <<>> /\ strings = <<>> /\ objects = <<>> /\ traits = <<>>
  /\ tree = <<>>
  /\ status = "reading"

Emit(event) == tree' = Append(tree, event)

(***************************************************************************)
(* Strings.                                                                *)
(***************************************************************************)
Resolves(c) == c.at <= Len(strings)

TextOf(c) == IF c.at = 0 THEN c.text ELSE strings[c.at]

\* Mutant: the empty string takes a place in the table as well.
RememberEvery(c) == strings' = IF c.at = 0 THEN Append(strings, c.text) ELSE strings

Remember(c) ==
  strings' = IF c.at = 0 /\ c.text # NoText THEN Append(strings, c.text) ELSE strings

ReadAtom(c) ==
  /\ ExpectsValue
  /\ c.op = "atom"
  /\ stack' = Taken
  /\ Emit(c)
  /\ UNCHANGED <<strings, objects, traits, status>>

ReadString(c) ==
  /\ ExpectsValue
  /\ c.op = "string" /\ Resolves(c)
  /\ stack' = Taken
  /\ Remember(c)
  /\ Emit(StringCell(0, TextOf(c)))
  /\ UNCHANGED <<objects, traits, status>>

(***************************************************************************)
(* Complex values.                                                         *)
(***************************************************************************)
\* An entry of the object table: the value that starts at tree[from].
Entry(k, from, open) == [kind |-> k, from |-> from, open |-> open]

IsReference(c) ==
  \/ c.op \in {"leaf", "array"} /\ c.at > 0
  \/ c.op = "object" /\ c.by = "object"

\* Mutant: no entry is looked at for its kind.
RefersToAny(c, e) == e.from > 0

RefersTo(c, e) == c.kind = e.kind

\* Mutant: the other leaves come back as literals, too.
StoredAgainAll(c) == c.op = "leaf"

\* The xml and xml-doc arms store what they got, from a literal or from a
\* reference (is_object_ref is always false).
StoredAgain(c) == c.kind \in {"xml", "xmldoc"}

ReadReference(c) ==
  /\ ExpectsValue
  /\ IsReference(c)
  /\ c.at \in 1 .. Len(objects)
  /\ RefersTo(c, objects[c.at])
  /\ stack' = Taken
  /\ Emit(Alias(c.kind, objects[c.at].from, objects[c.at].open))
  /\ objects' = IF StoredAgain(c)
                THEN Append(objects, Entry(c.kind, objects[c.at].from, FALSE))
                ELSE objects
  /\ UNCHANGED <<strings, traits, status>>

ReadLeaf(c) ==
  /\ ExpectsValue
  /\ c.op = "leaf" /\ ~IsReference(c)
  /\ stack' = Taken
  /\ Emit(c)
  /\ objects' = Append(objects, Entry(c.kind, Len(tree) + 1, FALSE))
  /\ UNCHANGED <<strings, traits, status>>

ArrayCall(c) ==
  [kind |-> "array", slot |-> Len(objects) + 1, cell |-> Len(tree) + 1, names |-> 0,
   entry |-> Traits(FALSE, FALSE, <<>>), values |-> c.dense, run |-> TRUE, keyed |-> FALSE]

ReadArray(c) ==
  /\ ExpectsValue
  /\ c.op = "array" /\ ~IsReference(c)
  /\ stack' = Append(Taken, ArrayCall(c))
  /\ Emit(c)
  /\ objects' = Append(objects, Entry("array", Len(tree) + 1, TRUE))
  /\ UNCHANGED <<strings, traits, status>>

ObjectCall(e, slot, from, names) ==
  [kind |-> "object", slot |-> slot, cell |-> from, names |-> names, entry |-> e,
   values |-> IF e.ext THEN 0 ELSE Len(e.names), run |-> e.dyn /\ ~e.ext, keyed |-> FALSE]

\* Traits by reference: the object's slot is taken at once.
ReadObjectByTraits(c) ==
  /\ ExpectsValue
  /\ c.op = "object" /\ c.by = "traits"
  /\ c.at \in 1 .. Len(traits)
  /\ stack' = Append(Taken, ObjectCall(traits[c.at], Len(objects) + 1, Len(tree) + 1, 0))
  /\ Emit(c)
  /\ objects' = Append(objects, Entry("object", Len(tree) + 1, TRUE))
  /\ UNCHANGED <<strings, traits, status>>

\* Inline traits: the class name and the sealed names come first.
ReadObject(c) ==
  /\ ExpectsValue
  /\ c.op = "object" /\ c.by = "inline"
  /\ c.ext => c.sealed = 0
  /\ stack' = Append(Taken, [ObjectCall(Traits(c.ext, c.dyn, <<>>), 0, Len(tree) + 1, 1 + c.sealed)
                               EXCEPT !.run = FALSE])
  /\ Emit(c)
  /\ UNCHANGED <<strings, objects, traits, status>>

(***************************************************************************)
(* Names.  The first name of inline traits is the class.                   *)
(***************************************************************************)
ReadTraitName(c) ==
  /\ ExpectsName
  /\ Top.names > 0
  /\ c.op = "name" /\ Resolves(c)
  /\ Remember(c)
  /\ Emit(NameCell(0, TextOf(c)))
  /\ LET entry == [Top.entry EXCEPT !.names = Append(@, TextOf(c))]
         whole == [entry EXCEPT !.names = Tail(@)]
     IN \/ /\ Top.names > 1
           /\ stack' = [stack EXCEPT ![Len(stack)] =
                          [Top EXCEPT !.names = @ - 1, !.entry = entry]]
           /\ UNCHANGED <<objects, traits>>
        \/ /\ Top.names = 1
           /\ traits' = Append(traits, whole)
           /\ stack' = [stack EXCEPT ![Len(stack)] =
                          ObjectCall(whole, Len(objects) + 1, Top.cell, 0)]
           /\ objects' = Append(objects, Entry("object", Top.cell, TRUE))
  /\ UNCHANGED status

ReadKey(c) ==
  /\ ExpectsName
  /\ Top.names = 0
  /\ c.op = "name" /\ Resolves(c)
  /\ Remember(c)
  /\ Emit(NameCell(0, TextOf(c)))
  /\ stack' = [stack EXCEPT ![Len(stack)] =
                 IF TextOf(c) = NoText THEN [Top EXCEPT !.run = FALSE]
                                       ELSE [Top EXCEPT !.keyed = TRUE]]
  /\ UNCHANGED <<objects, traits, status>>

(***************************************************************************)
(* read_array and read_object return: the slot gets the finished value.    *)
(***************************************************************************)
\* Mutant: the slot keeps the placeholder.
ReturnKeeping ==
  /\ status = "reading"
  /\ stack # <<>> /\ Finished(Top)
  /\ stack' = SubSeq(stack, 1, Len(stack) - 1)
  /\ UNCHANGED <<strings, objects, traits, tree, status>>

Return ==
  /\ status = "reading"
  /\ stack # <<>> /\ Finished(Top)
  /\ stack' = SubSeq(stack, 1, Len(stack) - 1)
  /\ objects' = [objects EXCEPT ![Top.slot].open = FALSE]
  /\ UNCHANGED <<strings, traits, tree, status>>

Complete ==
  /\ status = "reading"
  /\ stack = <<>> /\ Begun
  /\ status' = "done"
  /\ UNCHANGED <<stack, strings, objects, traits, tree>>

\* An unknown marker, a short body, a reference that does not resolve.
Invalid(c) ==
  \/ c.op \in {"string", "name"} /\ ~Resolves(c)
  \/ IsReference(c) /\ ~(c.at \in 1 .. Len(objects) /\ RefersTo(c, objects[c.at]))
  \/ c.op = "object" /\ c.by = "traits" /\ c.at \notin 1 .. Len(traits)
  \/ c.op = "object" /\ c.by = "inline" /\ c.ext /\ c.sealed # 0

Reject(c) ==
  /\ IF c.op = "name" THEN ExpectsName ELSE ExpectsValue
  /\ Invalid(c)
  /\ status' = "invalid"
  /\ UNCHANGED <<stack, strings, objects, traits, tree>>

Truncated ==
  /\ ExpectsValue \/ ExpectsName
  /\ status' = "invalid"
  /\ UNCHANGED <<stack, strings, objects, traits, tree>>

ReadCell(c) ==
  \/ ReadAtom(c) \/ ReadString(c) \/ ReadReference(c) \/ ReadLeaf(c) \/ ReadArray(c)
  \/ ReadObjectByTraits(c) \/ ReadObject(c) \/ ReadTraitName(c) \/ ReadKey(c) \/ Reject(c)
=============================================================================
