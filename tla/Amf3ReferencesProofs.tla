------------------------ MODULE Amf3ReferencesProofs ------------------------
(***************************************************************************)
(* The object table of the AMF3 decoder, for messages of any length and    *)
(* depth.  A step changes the calls, the table and the value read so far   *)
(* in one of seven ways; the invariants are shown way by way.              *)
(***************************************************************************)
EXTENDS Amf3References, TLAPS, FiniteSetTheorems

Names == Text \cup {NoText}

Event ==
  Cell \cup [op : {"alias"}, kind : Leaves \cup {"array", "object"}, from : Nat, open : BOOLEAN]

TraitsEntry == [ext : BOOLEAN, dyn : BOOLEAN, names : Seq(Names)]

Call ==
  [kind : {"array", "object"}, slot : Nat, cell : Nat, names : Nat, entry : TraitsEntry,
   values : Nat, run : BOOLEAN, keyed : BOOLEAN]

Slots == [kind : Leaves \cup {"array", "object"}, from : Nat, open : BOOLEAN]

\* An entry whose value is not read to its end yet, and one whose value is.
Opened(k, from) == Entry(k, from, TRUE)
Closed(k, from) == Entry(k, from, FALSE)

Types ==
  /\ stack \in Seq(Call)
  /\ strings \in Seq(Text)
  /\ objects \in Seq(Slots)
  /\ traits \in Seq(TraitsEntry)
  /\ tree \in Seq(Event)
  /\ status \in {"reading", "done", "invalid"}

(***************************************************************************)
(* The value under way.                                                    *)
(***************************************************************************)
\* The calls are the same as far as the object table is concerned.
SameCalls(s, t) ==
  /\ Len(s) = Len(t)
  /\ \A k \in 1 .. Len(t) :
       /\ s[k].kind = t[k].kind /\ s[k].slot = t[k].slot /\ s[k].cell = t[k].cell
       /\ s[k].names = 0 <=> t[k].names = 0

\* Beginning a value leaves the calls where they are, and no name is missing.
LEMMA TakenKeepsCalls ==
  ASSUME Types, ExpectsValue
  PROVE  /\ Taken \in Seq(Call)
         /\ SameCalls(Taken, stack)
         /\ stack # <<>> => Top.names = 0
<1>1. CASE stack = <<>>
  BY <1>1 DEF Taken, SameCalls
<1>2. CASE stack # <<>>
  <2>1. Top \in Call /\ Len(stack) \in 1 .. Len(stack)
    BY <1>2 DEF Types, Top
  <2>2. WantsValue(Top)
    BY <1>2 DEF ExpectsValue
  <2> DEFINE f == IF Top.keyed THEN [Top EXCEPT !.keyed = FALSE] ELSE [Top EXCEPT !.values = @ - 1]
  <2>3. /\ f \in Call /\ f.kind = Top.kind /\ f.slot = Top.slot
        /\ f.cell = Top.cell /\ f.names = Top.names
    <3>1. CASE Top.keyed
      BY <2>1, <3>1 DEF Call
    <3>2. CASE ~Top.keyed
      <4>1. Top.values - 1 \in Nat
        BY <2>1, <2>2, <3>2 DEF Call, WantsValue
      <4> QED
        BY <2>1, <3>2, <4>1 DEF Call
    <3> QED
      BY <3>1, <3>2
  <2>4. Taken = [stack EXCEPT ![Len(stack)] = f]
    BY <1>2 DEF Taken
  <2> HIDE DEF f
  <2>5. Taken \in Seq(Call) /\ SameCalls(Taken, stack)
    BY <2>1, <2>3, <2>4 DEF Types, SameCalls, Top
  <2> QED
    BY <2>2, <2>5 DEF WantsValue
<1> QED
  BY <1>1, <1>2

(***************************************************************************)
(* The ways of a step.                                                     *)
(***************************************************************************)
Literal == {"leaf", "array", "object"}

\* An atom, a string or a name that changes nothing for the table.
Passes(e) ==
  /\ e.op \in {"atom", "string", "name"}
  /\ SameCalls(stack', stack) /\ tree' = Append(tree, e) /\ objects' = objects

\* A reference to entry n, which is stored again or not.
Refers(e, n) ==
  /\ n \in 1 .. Len(objects)
  /\ e.op = "alias" /\ e.kind = objects[n].kind /\ e.from = objects[n].from
  /\ SameCalls(stack', stack) /\ tree' = Append(tree, e)
  /\ \/ objects' = objects
     \/ /\ e.kind \in {"xml", "xmldoc"}
        /\ objects' = Append(objects, Closed(e.kind, e.from))

\* A literal without children.
Stores(e) ==
  /\ e.op = "leaf"
  /\ SameCalls(stack', stack) /\ tree' = Append(tree, e)
  /\ objects' = Append(objects, Closed(e.kind, Len(tree) + 1))

\* A call, which takes its slot at once or waits for names.
Calls(e, s, f) ==
  /\ e.op \in {"array", "object"} /\ e.kind = e.op
  /\ s \in Seq(Call) /\ SameCalls(s, stack) /\ f \in Call
  /\ stack' = Append(s, f) /\ tree' = Append(tree, e)
  /\ f.kind = e.kind /\ f.cell = Len(tree) + 1
  /\ \/ /\ f.names = 0 /\ f.slot = Len(objects) + 1
        /\ objects' = Append(objects, Opened(e.kind, Len(tree) + 1))
     \/ f.kind = "object" /\ f.names > 0 /\ objects' = objects

\* The last name of the inline traits: the waiting call takes its slot.
Enters(e, f) ==
  /\ e.op = "name"
  /\ stack # <<>> /\ Top.names > 0 /\ f \in Call
  /\ f.kind = "object" /\ f.cell = Top.cell /\ f.names = 0 /\ f.slot = Len(objects) + 1
  /\ stack' = [stack EXCEPT ![Len(stack)] = f]
  /\ tree' = Append(tree, e)
  /\ objects' = Append(objects, Opened("object", Top.cell))

\* A call returns.
Returns ==
  /\ stack # <<>> /\ Top.names = 0
  /\ stack' = SubSeq(stack, 1, Len(stack) - 1)
  /\ tree' = tree
  /\ objects' = [objects EXCEPT ![Top.slot].open = FALSE]

\* The message ends or turns out to be broken.
Rests == stack' = stack /\ objects' = objects /\ tree' = tree

\* No value is begun while names are missing.
NoNamesDue == stack # <<>> => Top.names = 0

Way ==
  \/ \E e \in Event : Passes(e)
  \/ \E e \in Event : NoNamesDue /\ \E n \in Nat : Refers(e, n)
  \/ \E e \in Event : NoNamesDue /\ Stores(e)
  \/ \E e \in Event, s \in Seq(Call), f \in Call : NoNamesDue /\ Calls(e, s, f)
  \/ \E e \in Event, f \in Call : Enters(e, f)
  \/ Returns
  \/ Rests

\* Entries are slots of the table.
LEMMA EntriesAreSlots ==
  ASSUME NEW k \in Leaves \cup {"array", "object"}, NEW from \in Nat
  PROVE  /\ Opened(k, from) \in Slots /\ Closed(k, from) \in Slots
         /\ Opened(k, from).kind = k /\ Opened(k, from).from = from /\ Opened(k, from).open
         /\ Closed(k, from).kind = k /\ Closed(k, from).from = from /\ ~Closed(k, from).open
  BY DEF Opened, Closed, Entry, Slots

\* Cells are told apart by op, and each has its fields.
LEMMA CellFields ==
  ASSUME NEW c \in Cell
  PROVE  /\ c.op \in {"atom", "string", "name", "leaf", "array", "object"}
         /\ c.op \in {"string", "name"} => c.at \in Nat /\ c.text \in Names
         /\ c.op = "leaf" => c.kind \in Leaves /\ c.at \in Nat
         /\ c.op = "array" => c.kind = "array" /\ c.at \in Nat /\ c.dense \in Nat
         /\ c.op = "object" => /\ c.kind = "object" /\ c.at \in Nat /\ c.ext \in BOOLEAN
                               /\ c.dyn \in BOOLEAN /\ c.sealed \in Nat
  BY DEF Cell, Names

\* What a string or name gives is a string of the message.
LEMMA TextIsName ==
  ASSUME Types, NEW c \in Cell, c.op \in {"string", "name"}, Resolves(c)
  PROVE  /\ TextOf(c) \in Names
         /\ Remember(c) => strings' \in Seq(Text)
  <1>1. c.at \in Nat /\ c.text \in Names
    BY CellFields
  <1>2. c.at = 0 \/ c.at \in 1 .. Len(strings)
    BY <1>1 DEF Types, Resolves
  <1>3. TextOf(c) \in Names
    BY <1>1, <1>2 DEF Types, TextOf, Names
  <1>4. ASSUME Remember(c) PROVE strings' \in Seq(Text)
    <2>1. strings \in Seq(Text)
      BY DEF Types
    <2>2. CASE c.at = 0 /\ c.text # NoText
      <3>1. c.text \in Text /\ strings' = Append(strings, c.text)
        BY <1>1, <1>4, <2>2 DEF Remember, Names
      <3> QED
        BY <2>1, <3>1
    <2>3. CASE ~(c.at = 0 /\ c.text # NoText)
      BY <1>4, <2>1, <2>3 DEF Remember
    <2> QED
      BY <2>2, <2>3
  <1> QED
    BY <1>3, <1>4

\* The call of an object by its traits.
LEMMA ObjectCallIsCall ==
  ASSUME NEW e \in TraitsEntry, NEW slot \in Nat, NEW from \in Nat, NEW names \in Nat
  PROVE  /\ ObjectCall(e, slot, from, names) \in Call
         /\ ObjectCall(e, slot, from, names).kind = "object"
         /\ ObjectCall(e, slot, from, names).slot = slot
         /\ ObjectCall(e, slot, from, names).cell = from
         /\ ObjectCall(e, slot, from, names).names = names
  <1>1. e.ext \in BOOLEAN /\ e.dyn \in BOOLEAN /\ Len(e.names) \in Nat
    BY DEF TraitsEntry
  <1>2. (IF e.ext THEN 0 ELSE Len(e.names)) \in Nat /\ (e.dyn /\ ~e.ext) \in BOOLEAN
    BY <1>1
  <1> QED
    BY <1>2 DEF ObjectCall, Call

\* Every cell that is read keeps the types and goes one of the ways.
LEMMA ReadsGoTheirWay ==
  ASSUME Types, NEW c \in Cells, ReadCell(c)
  PROVE  Types' /\ Way
<1>1. c \in Cell
  BY CellsAssumption
<1>2. /\ c.op \in {"string", "name"} => c.at \in Nat /\ c.text \in Names
      /\ c.op = "leaf" => c.kind \in Leaves /\ c.at \in Nat
      /\ c.op = "array" => c.kind = "array" /\ c.at \in Nat /\ c.dense \in Nat
      /\ c.op = "object" => /\ c.kind = "object" /\ c.at \in Nat /\ c.ext \in BOOLEAN
                            /\ c.dyn \in BOOLEAN /\ c.sealed \in Nat
  BY <1>1, CellFields
<1>3. /\ stack \in Seq(Call) /\ strings \in Seq(Text) /\ traits \in Seq(TraitsEntry)
      /\ objects \in Seq(Slots)
      /\ tree \in Seq(Event) /\ status \in {"reading", "done", "invalid"}
  BY DEF Types
<1>4. /\ c \in Event /\ Len(tree) \in Nat /\ Len(objects) \in Nat
      /\ Len(tree) + 1 \in Nat /\ Len(objects) + 1 \in Nat
  BY <1>1, <1>3 DEF Event
<1>5. ExpectsValue => /\ Taken \in Seq(Call) /\ SameCalls(Taken, stack) /\ NoNamesDue
  BY TakenKeepsCalls DEF NoNamesDue
<1>6. CASE ReadAtom(c)
  BY <1>3, <1>4, <1>5, <1>6 DEF ReadAtom, Emit, Types, Way, Passes
<1>7. CASE ReadString(c)
  <2> DEFINE e == StringCell(0, TextOf(c))
  <2>1. e \in Event /\ e.op = "string"
    BY <1>1, <1>7, TextIsName DEF ReadString, StringCell, Event, Cell, Names
  <2>2. strings' \in Seq(Text)
    BY <1>1, <1>7, TextIsName DEF ReadString
  <2>3. ExpectsValue /\ stack' = Taken /\ tree' = Append(tree, e)
    BY <1>7 DEF ReadString, Emit
  <2>4. UNCHANGED <<objects, traits, status>>
    BY <1>7 DEF ReadString
  <2> HIDE DEF e
  <2>5. Types'
    BY <1>3, <1>5, <2>1, <2>2, <2>3, <2>4 DEF Types
  <2>6. Passes(e)
    BY <1>5, <2>1, <2>3, <2>4 DEF Passes
  <2> QED
    BY <2>1, <2>5, <2>6 DEF Way
<1>8. CASE ReadReference(c)
  <2> DEFINE o == objects[c.at]  e == Alias(c.kind, o.from, o.open)
  <2>1. /\ ExpectsValue /\ IsReference(c) /\ c.at \in 1 .. Len(objects) /\ c.kind = o.kind
        /\ stack' = Taken /\ tree' = Append(tree, e)
        /\ objects' = IF StoredAgain(c) THEN Append(objects, Closed(c.kind, o.from)) ELSE objects
    BY <1>8 DEF ReadReference, Emit, RefersTo, Closed
  <2>2. UNCHANGED <<strings, traits, status>>
    BY <1>8 DEF ReadReference
  <2>3. o \in Slots
    BY <1>3, <2>1
  <2>4. e \in Event /\ e.op = "alias" /\ e.kind = o.kind /\ e.from = o.from
    BY <2>1, <2>3 DEF Alias, Event, Slots
  <2>5. objects' \in Seq(Slots)
    <3>1. Closed(c.kind, o.from) \in Slots
      BY <2>1, <2>3, EntriesAreSlots DEF Slots
    <3> QED
      BY <1>3, <2>1, <3>1
  <2>6. Refers(e, c.at)
    BY <1>5, <2>1, <2>4 DEF Refers, StoredAgain
  <2> HIDE DEF e, o
  <2>7. Types'
    BY <1>3, <1>5, <2>1, <2>2, <2>4, <2>5 DEF Types
  <2>8. c.at \in Nat
    BY <1>4, <2>1
  <2> QED
    BY <1>5, <2>1, <2>4, <2>6, <2>7, <2>8 DEF Way
<1>9. CASE ReadLeaf(c)
  <2>1. /\ ExpectsValue /\ c.op = "leaf" /\ stack' = Taken /\ tree' = Append(tree, c)
        /\ objects' = Append(objects, Closed(c.kind, Len(tree) + 1))
        /\ UNCHANGED <<strings, traits, status>>
    BY <1>9 DEF ReadLeaf, Emit, Closed
  <2>2. Closed(c.kind, Len(tree) + 1) \in Slots
    BY <1>2, <1>4, <2>1, EntriesAreSlots
  <2>3. Types'
    BY <1>3, <1>4, <1>5, <2>1, <2>2 DEF Types
  <2> QED
    BY <1>4, <1>5, <2>1, <2>3 DEF Way, Stores
<1>10. CASE ReadArray(c)
  <2>1. /\ ExpectsValue /\ c.op = "array" /\ stack' = Append(Taken, ArrayCall(c))
        /\ tree' = Append(tree, c)
        /\ objects' = Append(objects, Opened("array", Len(tree) + 1))
        /\ UNCHANGED <<strings, traits, status>>
    BY <1>10 DEF ReadArray, Emit, Opened
  <2>2. Traits(FALSE, FALSE, <<>>) \in TraitsEntry
    BY DEF Traits, TraitsEntry
  <2>3. /\ ArrayCall(c) \in Call /\ ArrayCall(c).kind = "array" /\ ArrayCall(c).names = 0
        /\ ArrayCall(c).cell = Len(tree) + 1 /\ ArrayCall(c).slot = Len(objects) + 1
    <3>1. c.dense \in Nat
      BY <1>2, <2>1
    <3> QED
      BY <1>4, <2>2, <3>1 DEF ArrayCall, Call
  <2>4. Opened("array", Len(tree) + 1) \in Slots
    BY <1>4, EntriesAreSlots
  <2>5. Types'
    BY <1>3, <1>4, <1>5, <2>1, <2>3, <2>4 DEF Types
  <2>6. Calls(c, Taken, ArrayCall(c))
    BY <1>2, <1>5, <2>1, <2>3 DEF Calls
  <2> QED
    BY <1>4, <1>5, <2>1, <2>3, <2>5, <2>6 DEF Way
<1>11. CASE ReadObjectByTraits(c)
  <2> DEFINE f == ObjectCall(traits[c.at], Len(objects) + 1, Len(tree) + 1, 0)
  <2>1. /\ ExpectsValue /\ c.op = "object" /\ c.at \in 1 .. Len(traits)
        /\ stack' = Append(Taken, f) /\ tree' = Append(tree, c)
        /\ objects' = Append(objects, Opened("object", Len(tree) + 1))
        /\ UNCHANGED <<strings, traits, status>>
    BY <1>11 DEF ReadObjectByTraits, Emit, Opened
  <2>2. traits[c.at] \in TraitsEntry
    BY <1>3, <2>1
  <2>3. /\ f \in Call /\ f.kind = "object" /\ f.names = 0
        /\ f.cell = Len(tree) + 1 /\ f.slot = Len(objects) + 1
    BY <1>4, <2>2, ObjectCallIsCall
  <2>4. Opened("object", Len(tree) + 1) \in Slots
    BY <1>4, EntriesAreSlots
  <2> HIDE DEF f
  <2>5. Types'
    BY <1>3, <1>4, <1>5, <2>1, <2>3, <2>4 DEF Types
  <2>6. Calls(c, Taken, f)
    BY <1>2, <1>5, <2>1, <2>3 DEF Calls
  <2> QED
    BY <1>4, <1>5, <2>1, <2>3, <2>5, <2>6 DEF Way
<1>12. CASE ReadObject(c)
  <2> DEFINE g == ObjectCall(Traits(c.ext, c.dyn, <<>>), 0, Len(tree) + 1, 1 + c.sealed)
             f == [g EXCEPT !.run = FALSE]
  <2>1. /\ ExpectsValue /\ c.op = "object" /\ stack' = Append(Taken, f) /\ tree' = Append(tree, c)
        /\ UNCHANGED <<strings, objects, traits, status>>
    BY <1>12 DEF ReadObject, Emit
  <2>2. Traits(c.ext, c.dyn, <<>>) \in TraitsEntry /\ 1 + c.sealed \in Nat
    BY <1>2, <2>1 DEF Traits, TraitsEntry
  <2>3. g \in Call /\ g.kind = "object" /\ g.names = 1 + c.sealed /\ g.cell = Len(tree) + 1
    BY <1>4, <2>2, ObjectCallIsCall
  <2>4. f \in Call /\ f.kind = "object" /\ f.names > 0 /\ f.cell = Len(tree) + 1
    <3>1. c.sealed \in Nat
      BY <1>2, <2>1
    <3> HIDE DEF g
    <3>2. f \in Call /\ f.kind = g.kind /\ f.names = g.names /\ f.cell = g.cell
      BY <2>3 DEF Call
    <3> HIDE DEF f
    <3> QED
      BY <2>3, <3>1, <3>2
  <2> HIDE DEF f
  <2>5. Types'
    BY <1>3, <1>4, <1>5, <2>1, <2>4 DEF Types
  <2>6. Calls(c, Taken, f)
    BY <1>2, <1>5, <2>1, <2>4 DEF Calls
  <2> QED
    BY <1>4, <1>5, <2>1, <2>4, <2>5, <2>6 DEF Way
<1>13. CASE ReadTraitName(c)
  <2> DEFINE e == NameCell(0, TextOf(c))
             entry == [Top.entry EXCEPT !.names = Append(@, TextOf(c))]
             whole == [entry EXCEPT !.names = Tail(@)]
             f == ObjectCall(whole, Len(objects) + 1, Top.cell, 0)
             g == [Top EXCEPT !.names = @ - 1, !.entry = entry]
  <2>1. /\ ExpectsName /\ Top.names > 0 /\ c.op = "name" /\ Resolves(c) /\ Remember(c)
        /\ tree' = Append(tree, e) /\ status' = status
    BY <1>13 DEF ReadTraitName, Emit
  <2>2. \/ Top.names > 1 /\ stack' = [stack EXCEPT ![Len(stack)] = g] /\ UNCHANGED <<objects, traits>>
        \/ /\ traits' = Append(traits, whole)
           /\ stack' = [stack EXCEPT ![Len(stack)] = f]
           /\ objects' = Append(objects, Opened("object", Top.cell))
    BY <1>13 DEF ReadTraitName, Opened
  <2>3. e \in Event /\ e.op = "name"
    BY <1>1, <2>1, TextIsName DEF NameCell, Event, Cell, Names
  <2>4. strings' \in Seq(Text)
    BY <1>1, <2>1, TextIsName
  <2>5. stack # <<>> /\ Top \in Call /\ Len(stack) \in 1 .. Len(stack)
    BY <1>3, <2>1 DEF ExpectsName, Top
  <2>6. entry \in TraitsEntry /\ entry.names # <<>>
    <3>1. TextOf(c) \in Names
      BY <1>1, <2>1, TextIsName
    <3>2. Top.entry \in TraitsEntry /\ Top.entry.names \in Seq(Names)
      BY <2>5 DEF Call, TraitsEntry
    <3>3. Append(Top.entry.names, TextOf(c)) \in Seq(Names) \ {<<>>}
      BY <3>1, <3>2
    <3> QED
      BY <3>2, <3>3 DEF TraitsEntry
  <2> HIDE DEF entry
  <2>7. whole \in TraitsEntry
    <3>1. Tail(entry.names) \in Seq(Names)
      BY <2>6 DEF TraitsEntry
    <3> QED
      BY <2>6, <3>1 DEF TraitsEntry
  <2>8. /\ f \in Call /\ f.kind = "object" /\ f.names = 0
        /\ f.cell = Top.cell /\ f.slot = Len(objects) + 1
    <3>1. Top.cell \in Nat
      BY <2>5 DEF Call
    <3> HIDE DEF whole
    <3> QED
      BY <1>4, <2>7, <3>1, ObjectCallIsCall
  <2>9. Top.names > 1 => /\ g \in Call /\ g.kind = Top.kind /\ g.slot = Top.slot
                         /\ g.cell = Top.cell /\ g.names # 0
    <3> SUFFICES ASSUME Top.names > 1
                 PROVE  /\ g \in Call /\ g.kind = Top.kind /\ g.slot = Top.slot
                        /\ g.cell = Top.cell /\ g.names # 0
      OBVIOUS
    <3>1. Top.names - 1 \in Nat \ {0}
      BY <2>5 DEF Call
    <3> QED
      BY <2>5, <2>6, <3>1 DEF Call
  <2>10. Opened("object", Top.cell) \in Slots
    BY <2>5, EntriesAreSlots DEF Call
  <2> HIDE DEF e, f, g, whole
  <2>11. CASE Top.names > 1 /\ stack' = [stack EXCEPT ![Len(stack)] = g] /\ UNCHANGED <<objects, traits>>
    <3>1. Types'
      BY <1>3, <2>1, <2>3, <2>4, <2>5, <2>9, <2>11 DEF Types
    <3>2. Top.names # 0 /\ Top = stack[Len(stack)]
      BY <2>5, <2>11 DEF Top, Call
    <3>3. SameCalls(stack', stack)
      BY <1>3, <2>5, <2>9, <2>11, <3>2 DEF SameCalls
    <3> QED
      BY <2>1, <2>3, <2>11, <3>1, <3>3 DEF Way, Passes
  <2>12. CASE /\ traits' = Append(traits, whole)
              /\ stack' = [stack EXCEPT ![Len(stack)] = f]
              /\ objects' = Append(objects, Opened("object", Top.cell))
    <3>1. Types'
      BY <1>3, <2>1, <2>3, <2>4, <2>5, <2>7, <2>8, <2>10, <2>12 DEF Types
    <3> QED
      BY <2>1, <2>3, <2>5, <2>8, <2>12, <3>1 DEF Way, Enters
  <2> QED
    BY <2>2, <2>11, <2>12
<1>14. CASE ReadKey(c)
  <2> DEFINE e == NameCell(0, TextOf(c))
             f == IF TextOf(c) = NoText THEN [Top EXCEPT !.run = FALSE] ELSE [Top EXCEPT !.keyed = TRUE]
  <2>1. /\ ExpectsName /\ c.op = "name" /\ Resolves(c) /\ Remember(c)
        /\ tree' = Append(tree, e) /\ stack' = [stack EXCEPT ![Len(stack)] = f]
        /\ UNCHANGED <<objects, traits, status>>
    BY <1>14 DEF ReadKey, Emit
  <2>2. e \in Event /\ e.op = "name"
    BY <1>1, <2>1, TextIsName DEF NameCell, Event, Cell, Names
  <2>3. strings' \in Seq(Text)
    BY <1>1, <2>1, TextIsName
  <2>4. stack # <<>> /\ Top \in Call /\ Len(stack) \in 1 .. Len(stack)
    BY <1>3, <2>1 DEF ExpectsName, Top
  <2>5. /\ f \in Call /\ f.kind = Top.kind /\ f.slot = Top.slot
        /\ f.cell = Top.cell /\ f.names = Top.names
    BY <2>4 DEF Call
  <2> HIDE DEF e, f
  <2>6. Types'
    BY <1>3, <2>1, <2>2, <2>3, <2>4, <2>5 DEF Types
  <2>7. SameCalls(stack', stack)
    BY <1>3, <2>1, <2>4, <2>5 DEF SameCalls, Top
  <2> QED
    BY <2>1, <2>2, <2>6, <2>7 DEF Way, Passes
<1>15. CASE Reject(c)
  BY <1>3, <1>15 DEF Reject, Types, Way, Rests
<1> QED
  BY <1>6, <1>7, <1>8, <1>9, <1>10, <1>11, <1>12, <1>13, <1>14, <1>15 DEF ReadCell

\* So does every other step.
LEMMA StepsGoTheirWay ==
  ASSUME Types, [DecoderNext]_decoderVars
  PROVE  Types' /\ Way
<1>1. CASE ReadNext
  BY <1>1, ReadsGoTheirWay DEF ReadNext
<1>2. CASE Return
  <2>1. stack # <<>> /\ Top \in Call /\ Finished(Top)
    BY <1>2 DEF Return, Types, Top
  <2>2. Top.names = 0
    BY <2>1 DEF Finished, WantsName, Call
  <2>3. stack' \in Seq(Call)
    BY <1>2, <2>1 DEF Return, Types
  <2>4. objects' \in Seq(Slots)
    <3> DEFINE n == Top.slot  o == [objects[n] EXCEPT !.open = FALSE]
    <3>1. objects \in Seq(Slots) /\ objects' = [objects EXCEPT ![n] = o]
      BY <1>2 DEF Return, Types
    <3>2. CASE n \in 1 .. Len(objects)
      <4>1. o \in Slots
        <5>1. objects[n] \in Slots
          BY <3>1, <3>2
        <5> QED
          BY <5>1 DEF Slots
      <4> HIDE DEF o, n
      <4> QED
        BY <3>1, <3>2, <4>1
    <3>3. CASE n \notin 1 .. Len(objects)
      <4> HIDE DEF o, n
      <4>1. [objects EXCEPT ![n] = o] = objects
        BY <3>1, <3>3
      <4> QED
        BY <3>1, <4>1
    <3> QED
      BY <3>2, <3>3
  <2> QED
    BY <1>2, <2>1, <2>2, <2>3, <2>4 DEF Return, Types, Way, Returns
<1>3. CASE Complete \/ Truncated \/ UNCHANGED decoderVars
  BY <1>3 DEF Complete, Truncated, decoderVars, Types, Way, Rests
<1> QED
  BY <1>1, <1>2, <1>3 DEF DecoderNext

(***************************************************************************)
(* Where calls and entries have their place.                               *)
(***************************************************************************)
\* A call's value is in the tree, and its slot in a table of n entries.
CallStands(f, t, n) ==
  /\ f.cell \in 1 .. Len(t)
  /\ t[f.cell].op = f.kind /\ t[f.cell].kind = f.kind
  /\ f.names = 0 => f.slot \in 1 .. n

\* An entry is a literal of its kind.
EntryStands(x, t) ==
  /\ x.from \in 1 .. Len(t)
  /\ x.kind = t[x.from].kind
  /\ t[x.from].op \in Literal

\* Inner calls begin later and, when they have a slot, have a later one.
Nests(f, g) == f.cell < g.cell /\ (g.names = 0 => f.slot < g.slot)

CallsStand == \A k \in 1 .. Len(stack) : CallStands(stack[k], tree, Len(objects))

\* Names are missing only for an object, and only on top.
OthersAreCalled ==
  \A k \in 1 .. Len(stack) : stack[k].names # 0 => stack[k].kind = "object" /\ k = Len(stack)

CallsNest == \A h, k \in 1 .. Len(stack) : h < k => Nests(stack[h], stack[k])

EntriesStand == \A i \in 1 .. Len(objects) : EntryStands(objects[i], tree)

Places == CallsStand /\ OthersAreCalled /\ CallsNest /\ EntriesStand

\* What stands keeps standing when the value and the table grow.
LEMMA StandingOn ==
  ASSUME Types, NEW e \in Event, tree' = Append(tree, e),
         NEW m \in Nat, NEW n \in Nat, m <= n
  PROVE  /\ \A f \in Call : CallStands(f, tree, m) => CallStands(f, tree', n)
         /\ \A x \in Slots : EntryStands(x, tree) => EntryStands(x, tree')
<1>1. /\ Len(tree) \in Nat /\ Len(tree') = Len(tree) + 1
      /\ \A j \in 1 .. Len(tree) : j \in 1 .. Len(tree') /\ tree'[j] = tree[j]
  BY DEF Types
<1>2. ASSUME NEW f \in Call, CallStands(f, tree, m) PROVE CallStands(f, tree', n)
  BY <1>1, <1>2 DEF CallStands, Call
<1>3. ASSUME NEW x \in Slots, EntryStands(x, tree) PROVE EntryStands(x, tree')
  BY <1>1, <1>3 DEF EntryStands
<1> QED
  BY <1>2, <1>3

\* The same calls stand and nest in the same way.
LEMMA SameCallsStand ==
  ASSUME Types, Places, NEW s \in Seq(Call), SameCalls(s, stack)
  PROVE  /\ \A k \in 1 .. Len(s) : CallStands(s[k], tree, Len(objects))
         /\ \A k \in 1 .. Len(s) : s[k].names # 0 => s[k].kind = "object" /\ k = Len(s)
         /\ \A h, k \in 1 .. Len(s) : h < k => Nests(s[h], s[k])
<1>1. Len(s) = Len(stack)
  BY DEF SameCalls
<1>2. \A k \in 1 .. Len(s) :
        /\ s[k].kind = stack[k].kind /\ s[k].slot = stack[k].slot /\ s[k].cell = stack[k].cell
        /\ s[k].names = 0 <=> stack[k].names = 0
  BY DEF SameCalls
<1>3. \A k \in 1 .. Len(s) : CallStands(s[k], tree, Len(objects))
  BY <1>1, <1>2 DEF Places, CallsStand, CallStands
<1>4. \A k \in 1 .. Len(s) : s[k].names # 0 => s[k].kind = "object" /\ k = Len(s)
  BY <1>1, <1>2 DEF Places, OthersAreCalled
<1>5. \A h, k \in 1 .. Len(s) : h < k => Nests(s[h], s[k])
  BY <1>1, <1>2 DEF Places, CallsNest, Nests
<1> QED
  BY <1>3, <1>4, <1>5

\* Places after a step that keeps the calls and adds at most one entry.
LEMMA PlacesWithSameCalls ==
  ASSUME Types, Types', Places, NEW e \in Event, tree' = Append(tree, e),
         SameCalls(stack', stack),
         \/ objects' = objects
         \/ \E x \in Slots : objects' = Append(objects, x) /\ EntryStands(x, tree')
  PROVE  Places'
<1>1. /\ stack' \in Seq(Call) /\ objects \in Seq(Slots) /\ objects' \in Seq(Slots)
      /\ Len(objects) \in Nat /\ Len(objects') \in Nat /\ Len(objects) <= Len(objects')
  BY DEF Types
<1>2. /\ \A f \in Call : CallStands(f, tree, Len(objects)) => CallStands(f, tree', Len(objects'))
      /\ \A x \in Slots : EntryStands(x, tree) => EntryStands(x, tree')
  BY <1>1, StandingOn
<1>3. CallsStand' /\ OthersAreCalled' /\ CallsNest'
  BY <1>1, <1>2, SameCallsStand DEF CallsStand, OthersAreCalled, CallsNest
<1>4. EntriesStand'
  <2>1. CASE objects' = objects
    BY <1>1, <1>2, <2>1 DEF EntriesStand, Places
  <2>2. ASSUME NEW x \in Slots, objects' = Append(objects, x), EntryStands(x, tree')
        PROVE  EntriesStand'
    BY <1>1, <1>2, <2>2 DEF EntriesStand, Places
  <2> QED
    BY <2>1, <2>2
<1> QED
  BY <1>3, <1>4 DEF Places

\* Places after every step.
LEMMA PlacesInductive ==
  ASSUME Types, Types', Places, Way
  PROVE  Places'
<1>1. /\ Len(tree) \in Nat /\ Len(objects) \in Nat /\ Len(stack) \in Nat
      /\ stack \in Seq(Call) /\ objects \in Seq(Slots) /\ tree \in Seq(Event)
      /\ Len(tree) + 1 \in Nat
  BY DEF Types
<1>2. ASSUME NEW e \in Event, tree' = Append(tree, e)
      PROVE  Len(tree') = Len(tree) + 1 /\ tree'[Len(tree) + 1] = e /\ Len(tree) + 1 \in 1 .. Len(tree')
  BY <1>1, <1>2
<1>3. ASSUME NEW e \in Event, Passes(e) PROVE Places'
  BY <1>3, PlacesWithSameCalls DEF Passes
<1>4. ASSUME NEW e \in Event, NEW n \in Nat, Refers(e, n) PROVE Places'
  <2> DEFINE x == Closed(e.kind, e.from)
  <2>1. /\ n \in 1 .. Len(objects) /\ e.kind = objects[n].kind /\ e.from = objects[n].from
        /\ SameCalls(stack', stack) /\ tree' = Append(tree, e)
        /\ objects' = objects \/ objects' = Append(objects, x)
    BY <1>4 DEF Refers
  <2>2. objects[n] \in Slots /\ EntryStands(objects[n], tree)
    BY <1>1, <2>1 DEF Places, EntriesStand
  <2>3. e.kind \in Leaves \cup {"array", "object"} /\ e.from \in Nat
    BY <2>1, <2>2 DEF Slots
  <2>4. x \in Slots /\ x.kind = e.kind /\ x.from = e.from
    BY <2>3, EntriesAreSlots
  <2>5. EntryStands(objects[n], tree')
    BY <1>1, <2>1, <2>2, StandingOn
  <2> HIDE DEF x
  <2>6. EntryStands(x, tree')
    BY <2>1, <2>4, <2>5 DEF EntryStands
  <2> QED
    BY <2>1, <2>4, <2>6, PlacesWithSameCalls
<1>5. ASSUME NEW e \in Event, Stores(e) PROVE Places'
  <2> DEFINE x == Closed(e.kind, Len(tree) + 1)
  <2>1. e.kind \in Leaves
    BY <1>5 DEF Stores, Event, Cell
  <2>2. x \in Slots /\ x.kind = e.kind /\ x.from = Len(tree) + 1
    BY <1>1, <2>1, EntriesAreSlots
  <2>3. e.op \in Literal /\ SameCalls(stack', stack) /\ tree' = Append(tree, e)
        /\ objects' = Append(objects, x)
    BY <1>5 DEF Stores, Literal
  <2> HIDE DEF x
  <2>4. EntryStands(x, tree')
    BY <1>2, <2>2, <2>3 DEF EntryStands
  <2> QED
    BY <2>2, <2>3, <2>4, PlacesWithSameCalls
<1>6. ASSUME NEW e \in Event, NEW s \in Seq(Call), NEW f \in Call, NoNamesDue, Calls(e, s, f)
      PROVE  Places'
  <2> DEFINE x == Opened(e.kind, Len(tree) + 1)
  <2>1. /\ e.op \in {"array", "object"} /\ e.kind = e.op /\ SameCalls(s, stack)
        /\ stack' = Append(s, f) /\ tree' = Append(tree, e)
        /\ f.kind = e.kind /\ f.cell = Len(tree) + 1
        /\ \/ f.names = 0 /\ f.slot = Len(objects) + 1 /\ objects' = Append(objects, x)
           \/ f.kind = "object" /\ f.names > 0 /\ objects' = objects
    BY <1>6 DEF Calls
  <2>2. x \in Slots /\ x.kind = e.kind /\ x.from = Len(tree) + 1
    <3>1. e.kind \in Leaves \cup {"array", "object"}
      BY <2>1
    <3>2. Len(tree) + 1 \in Nat
      BY <1>1
    <3> DEFINE k == e.kind  from == Len(tree) + 1
    <3> HIDE DEF k, from
    <3>3. k \in Leaves \cup {"array", "object"} /\ from \in Nat
      BY <3>1, <3>2 DEF k, from
    <3>4. Opened(k, from) \in Slots /\ Opened(k, from).kind = k /\ Opened(k, from).from = from
      BY <3>3, EntriesAreSlots
    <3> QED
      BY <3>4 DEF k, from
  <2>3. e.op \in Literal
    BY <2>1 DEF Literal
  <2> HIDE DEF x
  <2>4. /\ EntryStands(x, tree') /\ Len(objects) <= Len(objects') /\ Len(objects') \in Nat
        /\ CallStands(f, tree', Len(objects'))
    BY <1>1, <1>2, <2>1, <2>2, <2>3 DEF EntryStands, CallStands, Call
  <2>5. /\ \A g \in Call : CallStands(g, tree, Len(objects)) => CallStands(g, tree', Len(objects'))
        /\ \A y \in Slots : EntryStands(y, tree) => EntryStands(y, tree')
    BY <1>1, <2>1, <2>4, StandingOn
  <2>6. /\ \A k \in 1 .. Len(s) : s[k].names = 0
        /\ \A k \in 1 .. Len(s) : CallStands(s[k], tree, Len(objects))
        /\ \A h, k \in 1 .. Len(s) : h < k => Nests(s[h], s[k])
    <3>1. \A k \in 1 .. Len(stack) : stack[k].names = 0
      BY <1>1, <1>6 DEF NoNamesDue, Places, OthersAreCalled, Top
    <3> QED
      BY <2>1, <3>1, SameCallsStand DEF SameCalls
  <2>7. /\ Len(s) \in Nat /\ Len(stack') = Len(s) + 1 /\ stack'[Len(s) + 1] = f
        /\ \A k \in 1 .. Len(s) : stack'[k] = s[k] /\ s[k] \in Call
    BY <2>1
  <2>8. CallsStand'
    BY <2>4, <2>5, <2>6, <2>7 DEF CallsStand
  <2>9. OthersAreCalled'
    BY <2>1, <2>6, <2>7 DEF OthersAreCalled
  <2>10. CallsNest'
    <3>1. ASSUME NEW k \in 1 .. Len(s) PROVE Nests(s[k], f)
      <4>1. s[k] \in Call /\ CallStands(s[k], tree, Len(objects)) /\ s[k].names = 0
        BY <2>6, <2>7
      <4>2. s[k].cell \in 1 .. Len(tree) /\ s[k].slot \in 1 .. Len(objects)
        BY <4>1 DEF CallStands
      <4>3. f.cell = Len(tree) + 1 /\ (f.names = 0 => f.slot = Len(objects) + 1)
        BY <2>1 DEF Call
      <4> QED
        BY <1>1, <4>2, <4>3 DEF Nests
    <3> QED
      BY <2>6, <2>7, <3>1 DEF CallsNest
  <2>11. EntriesStand'
    <3>1. \A i \in 1 .. Len(objects) : objects[i] \in Slots /\ EntryStands(objects[i], tree')
      BY <1>1, <2>5 DEF EntriesStand, Places
    <3>2. CASE objects' = objects
      BY <3>1, <3>2 DEF EntriesStand
    <3>3. CASE objects' = Append(objects, x)
      BY <1>1, <2>2, <2>4, <3>1, <3>3 DEF EntriesStand
    <3> QED
      BY <2>1, <3>2, <3>3
  <2> QED
    BY <2>8, <2>9, <2>10, <2>11 DEF Places
<1>7. ASSUME NEW e \in Event, NEW f \in Call, Enters(e, f) PROVE Places'
  <2> DEFINE x == Opened("object", Top.cell)  m == Len(stack)
  <2>1. /\ stack # <<>> /\ Top.names # 0 /\ f.kind = "object" /\ f.cell = Top.cell
        /\ f.names = 0 /\ f.slot = Len(objects) + 1
        /\ stack' = [stack EXCEPT ![m] = f]
        /\ tree' = Append(tree, e) /\ objects' = Append(objects, x)
    BY <1>1, <1>7 DEF Enters, Call, Top
  <2>2. m \in 1 .. m /\ Top = stack[m] /\ Top \in Call
    BY <1>1, <2>1 DEF Top
  <2>3. Top.kind = "object" /\ CallStands(Top, tree, Len(objects))
    BY <2>1, <2>2 DEF Places, CallsStand, OthersAreCalled
  <2>4. x \in Slots /\ x.kind = "object" /\ x.from = Top.cell
    <3>1. Top.cell \in Nat
      BY <2>2 DEF Call
    <3> QED
      BY <3>1, EntriesAreSlots
  <2>5. EntryStands(x, tree)
    BY <2>3, <2>4 DEF EntryStands, CallStands, Literal
  <2> HIDE DEF x
  <2>6. /\ Len(objects') = Len(objects) + 1 /\ Len(objects') \in Nat
        /\ objects'[Len(objects) + 1] = x
        /\ \A i \in 1 .. Len(objects) : objects'[i] = objects[i] /\ objects[i] \in Slots
    BY <1>1, <2>1, <2>4
  <2>7. /\ \A g \in Call : CallStands(g, tree, Len(objects)) => CallStands(g, tree', Len(objects'))
        /\ \A y \in Slots : EntryStands(y, tree) => EntryStands(y, tree')
    BY <1>1, <2>1, <2>6, StandingOn
  <2>8. /\ m \in Nat /\ Len(stack') = m /\ stack'[m] = f
        /\ \A k \in 1 .. m : k # m => k < m /\ stack'[k] = stack[k] /\ stack[k] \in Call
    BY <1>1, <2>1, <2>2
  <2>9. CallStands(f, tree', Len(objects'))
    <3>1. CallStands(Top, tree', Len(objects'))
      BY <2>2, <2>3, <2>7
    <3> QED
      BY <1>1, <2>1, <2>3, <2>6, <3>1 DEF CallStands
  <2>10. \A k \in 1 .. m : k # m => stack[k].names = 0 /\ CallStands(stack[k], tree, Len(objects))
    BY <2>8 DEF Places, OthersAreCalled, CallsStand
  <2>11. \A k \in 1 .. m : k # m => Nests(stack[k], f)
    <3>1. ASSUME NEW k \in 1 .. m, k # m PROVE Nests(stack[k], f)
      <4>1. Nests(stack[k], Top)
        BY <2>2, <2>8, <3>1 DEF Places, CallsNest
      <4>2. stack[k].slot \in 1 .. Len(objects)
        BY <2>10, <3>1 DEF CallStands
      <4> QED
        BY <1>1, <2>1, <4>1, <4>2 DEF Nests
    <3> QED
      BY <3>1
  <2> HIDE DEF m
  <2>12. CallsStand'
    BY <2>7, <2>8, <2>9, <2>10 DEF CallsStand
  <2>13. OthersAreCalled'
    BY <2>1, <2>8, <2>10 DEF OthersAreCalled
  <2>14. CallsNest'
    <3>1. ASSUME NEW h \in 1 .. m, NEW k \in 1 .. m, h < k PROVE Nests(stack'[h], stack'[k])
      <4>1. CASE k = m
        BY <2>8, <2>11, <3>1, <4>1
      <4>2. CASE k # m
        <5>1. h # m /\ stack'[h] = stack[h] /\ stack'[k] = stack[k]
          BY <2>8, <3>1, <4>2
        <5> QED
          BY <3>1, <5>1 DEF Places, CallsNest, m
      <4> QED
        BY <4>1, <4>2
    <3> QED
      BY <2>8, <3>1 DEF CallsNest
  <2>15. EntriesStand'
    BY <1>1, <2>4, <2>5, <2>6, <2>7 DEF EntriesStand, Places
  <2> QED
    BY <2>12, <2>13, <2>14, <2>15 DEF Places
<1>8. CASE Returns
  <2>1. /\ Len(stack') <= Len(stack) /\ Len(stack') \in Nat
        /\ \A k \in 1 .. Len(stack') : k \in 1 .. Len(stack) /\ k < Len(stack) /\ stack'[k] = stack[k]
    BY <1>1, <1>8 DEF Returns
  <2>2. /\ tree' = tree /\ Len(objects') = Len(objects)
        /\ \A i \in 1 .. Len(objects) :
             objects'[i].from = objects[i].from /\ objects'[i].kind = objects[i].kind
    BY <1>1, <1>8 DEF Returns, Slots
  <2>3. CallsStand' /\ OthersAreCalled' /\ CallsNest'
    BY <2>1, <2>2 DEF Places, CallsStand, OthersAreCalled, CallsNest
  <2>4. EntriesStand'
    BY <2>2 DEF Places, EntriesStand, EntryStands
  <2> QED
    BY <2>3, <2>4 DEF Places
<1>9. CASE Rests
  BY <1>9 DEF Rests, Places, CallsStand, OthersAreCalled, CallsNest, EntriesStand
<1> QED
  BY <1>3, <1>4, <1>5, <1>6, <1>7, <1>8, <1>9 DEF Way

(***************************************************************************)
(* Placeholders.                                                           *)
(***************************************************************************)
\* The calls that have a slot are those without missing names.
LEMMA CalledWithoutNames ==
  ASSUME Types, Places
  PROVE  \A k \in 1 .. Len(stack) : Called(stack[k]) <=> stack[k].names = 0
  BY DEF Types, Call, Places, OthersAreCalled, Called

HasSlot(i) == \E k \in 1 .. Len(stack) : stack[k].names = 0 /\ stack[k].slot = i

SlotsAreOpen == \A i \in 1 .. Len(objects) : objects[i].open <=> HasSlot(i)

LEMMA SlotsAreOpenInductive ==
  ASSUME Types, Types', Places, Places', SlotsAreOpen, Way
  PROVE  SlotsAreOpen'
<1>1. /\ Len(tree) + 1 \in Nat /\ Len(objects) \in Nat /\ Len(stack) \in Nat
      /\ stack \in Seq(Call) /\ objects \in Seq(Slots) /\ tree \in Seq(Event)
  BY DEF Types
<1>2. ASSUME NEW s \in Seq(Call), SameCalls(s, stack), NEW i \in Nat
      PROVE  (\E k \in 1 .. Len(s) : s[k].names = 0 /\ s[k].slot = i) <=> HasSlot(i)
  BY <1>2 DEF SameCalls, HasSlot
<1>3. \A i \in Nat : HasSlot(i) => i \in 1 .. Len(objects)
  BY DEF HasSlot, Places, CallsStand, CallStands
<1>4. stack' \in Seq(Call)
  BY DEF Types
<1>5. ASSUME SameCalls(stack', stack), objects' = objects PROVE SlotsAreOpen'
  <2>1. \A i \in Nat : HasSlot(i)' <=> HasSlot(i)
    BY <1>2, <1>4, <1>5 DEF HasSlot
  <2> QED
    BY <1>1, <1>5, <2>1 DEF SlotsAreOpen
<1>6. ASSUME SameCalls(stack', stack), NEW x \in Slots, ~x.open, objects' = Append(objects, x)
      PROVE  SlotsAreOpen'
  <2>1. \A i \in Nat : HasSlot(i)' <=> HasSlot(i)
    BY <1>2, <1>4, <1>6 DEF HasSlot
  <2> QED
    BY <1>1, <1>3, <1>6, <2>1 DEF SlotsAreOpen
<1>7. ASSUME NEW e \in Event, Passes(e) PROVE SlotsAreOpen'
  BY <1>5, <1>7 DEF Passes
<1>8. ASSUME NEW e \in Event, NEW n \in Nat, Refers(e, n) PROVE SlotsAreOpen'
  <2>1. CASE objects' = objects
    BY <1>5, <1>8, <2>1 DEF Refers
  <2>2. CASE objects' = Append(objects, Closed(e.kind, e.from))
    <3>1. objects[n] \in Slots /\ e.kind = objects[n].kind /\ e.from = objects[n].from
      BY <1>1, <1>8 DEF Refers
    <3>2. e.kind \in Leaves \cup {"array", "object"} /\ e.from \in Nat
      BY <3>1 DEF Slots
    <3>3. Closed(e.kind, e.from) \in Slots /\ ~Closed(e.kind, e.from).open
      BY <3>2, EntriesAreSlots
    <3> QED
      BY <1>6, <1>8, <2>2, <3>3 DEF Refers
  <2> QED
    BY <1>8, <2>1, <2>2 DEF Refers
<1>9. ASSUME NEW e \in Event, Stores(e) PROVE SlotsAreOpen'
  <2>1. e.kind \in Leaves
    BY <1>9 DEF Stores, Event, Cell
  <2>2. Closed(e.kind, Len(tree) + 1) \in Slots /\ ~Closed(e.kind, Len(tree) + 1).open
    BY <1>1, <2>1, EntriesAreSlots
  <2> QED
    BY <1>6, <1>9, <2>2 DEF Stores
<1>10. ASSUME NEW f \in Call, NEW s \in Seq(Call), SameCalls(s, stack), stack' = Append(s, f),
              f.names # 0, objects' = objects
       PROVE  SlotsAreOpen'
  <2>1. /\ Len(s) \in Nat /\ Len(stack') = Len(s) + 1 /\ stack'[Len(s) + 1] = f
        /\ \A k \in 1 .. Len(s) : stack'[k] = s[k]
    BY <1>10
  <2>2. \A i \in Nat : HasSlot(i)' <=> HasSlot(i)
    BY <1>2, <1>10, <2>1 DEF HasSlot
  <2> QED
    BY <1>1, <1>10, <2>2 DEF SlotsAreOpen
<1>11. ASSUME NEW x \in Slots, x.open, objects' = Append(objects, x),
              \A i \in Nat : HasSlot(i)' <=> HasSlot(i) \/ i = Len(objects) + 1
       PROVE  SlotsAreOpen'
  BY <1>1, <1>3, <1>11 DEF SlotsAreOpen
<1>12. ASSUME NEW e \in Event, NEW s \in Seq(Call), NEW f \in Call, Calls(e, s, f)
       PROVE  SlotsAreOpen'
  <2>1. /\ SameCalls(s, stack) /\ stack' = Append(s, f) /\ e.kind \in {"array", "object"}
        /\ \/ f.names = 0 /\ f.slot = Len(objects) + 1 /\ objects' = Append(objects, Opened(e.kind, Len(tree) + 1))
           \/ f.kind = "object" /\ f.names > 0 /\ objects' = objects
    BY <1>12 DEF Calls
  <2>2. CASE f.names = 0 /\ f.slot = Len(objects) + 1 /\ objects' = Append(objects, Opened(e.kind, Len(tree) + 1))
    <3> DEFINE x == Opened(e.kind, Len(tree) + 1)
    <3>1. e.kind \in Leaves \cup {"array", "object"}
      BY <2>1
    <3>2. x \in Slots /\ x.open
      BY <1>1, <3>1, EntriesAreSlots
    <3>3. /\ Len(s) \in Nat /\ Len(stack') = Len(s) + 1 /\ stack'[Len(s) + 1] = f
          /\ \A k \in 1 .. Len(s) : stack'[k] = s[k]
      BY <2>1
    <3> HIDE DEF x
    <3>4. \A i \in Nat : HasSlot(i)' <=> HasSlot(i) \/ i = Len(objects) + 1
      <4>1. f.names = 0 /\ f.slot = Len(objects) + 1
        BY <2>2
      <4>2. \A i \in Nat : (\E k \in 1 .. Len(s) : s[k].names = 0 /\ s[k].slot = i) <=> HasSlot(i)
        BY <1>2, <2>1
      <4> QED
        <5>1. ASSUME NEW i \in Nat
              PROVE  HasSlot(i)' <=> (\E k \in 1 .. Len(s) : s[k].names = 0 /\ s[k].slot = i)
                                       \/ i = Len(objects) + 1
          BY <3>3, <4>1 DEF HasSlot
        <5> QED
          BY <4>2, <5>1
    <3>5. objects' = Append(objects, x)
      BY <2>2 DEF x
    <3> QED
      BY <1>11, <3>2, <3>4, <3>5
  <2>3. CASE f.names > 0 /\ objects' = objects
    <3>1. f.names # 0
      BY <2>3 DEF Call
    <3> QED
      BY <1>10, <2>1, <2>3, <3>1
  <2> QED
    BY <2>1, <2>2, <2>3
<1>13. ASSUME NEW e \in Event, NEW f \in Call, Enters(e, f) PROVE SlotsAreOpen'
  <2> DEFINE x == Opened("object", Top.cell)  m == Len(stack)
  <2>1. /\ stack # <<>> /\ Top.names # 0 /\ f.names = 0 /\ f.slot = Len(objects) + 1
        /\ stack' = [stack EXCEPT ![m] = f] /\ objects' = Append(objects, x)
    BY <1>1, <1>13 DEF Enters, Call, Top
  <2>2. m \in 1 .. m /\ Top = stack[m] /\ Top \in Call
    BY <1>1, <2>1 DEF Top
  <2>3. x \in Slots /\ x.open
    <3>1. Top.cell \in Nat
      BY <2>2 DEF Call
    <3> QED
      BY <3>1, EntriesAreSlots
  <2>4. /\ m \in Nat /\ Len(stack') = m /\ stack'[m] = f
        /\ \A k \in 1 .. m : k # m => stack'[k] = stack[k]
    BY <1>1, <2>1, <2>2
  <2> HIDE DEF x
  <2>5. \A i \in Nat : HasSlot(i)' <=> HasSlot(i) \/ i = Len(objects) + 1
    BY <2>1, <2>2, <2>4 DEF HasSlot
  <2> QED
    BY <1>11, <2>1, <2>3, <2>5
<1>14. CASE Returns
  <2> DEFINE m == Len(stack)
  <2>1. /\ stack # <<>> /\ Top.names = 0 /\ m \in 1 .. m /\ Top = stack[m]
        /\ Len(stack') = m - 1 /\ \A k \in 1 .. m - 1 : stack'[k] = stack[k]
    <3>1. stack # <<>> /\ Top.names = 0 /\ stack' = SubSeq(stack, 1, m - 1)
      BY <1>14 DEF Returns
    <3>2. m \in 1 .. m /\ Top = stack[m]
      BY <1>1, <3>1 DEF Top
    <3>3. Len(stack') = m - 1
      <4>1. CASE m = 1
        BY <1>1, <3>1, <3>2, <4>1
      <4>2. CASE m > 1
        BY <1>1, <3>1, <3>2, <4>2
      <4>3. m = 1 \/ m > 1
        <5> HIDE DEF m
        <5> QED
          BY <3>2
      <4> QED
        BY <4>1, <4>2, <4>3
    <3>4. \A k \in 1 .. m - 1 : stack'[k] = stack[k]
      BY <1>1, <3>1, <3>2
    <3> QED
      BY <3>1, <3>2, <3>3, <3>4
  <2>2. Top.slot \in 1 .. Len(objects)
    BY <2>1 DEF Places, CallsStand, CallStands
  <2>3. \A k \in 1 .. m - 1 : stack[k].slot < Top.slot
    BY <2>1 DEF Places, CallsNest, Nests
  <2>4. \A i \in Nat : HasSlot(i)' <=> HasSlot(i) /\ i # Top.slot
    <3>1. \A k \in 1 .. m - 1 : stack[k].names = 0 => stack[k].slot \in Nat
      BY <1>1 DEF Places, CallsStand, CallStands
    <3> QED
      BY <2>1, <2>2, <2>3, <3>1 DEF HasSlot
  <2>5. /\ Len(objects') = Len(objects)
        /\ \A i \in 1 .. Len(objects) : objects'[i].open <=> objects[i].open /\ i # Top.slot
    <3>1. objects' = [objects EXCEPT ![Top.slot] = [objects[Top.slot] EXCEPT !.open = FALSE]]
      BY <1>14 DEF Returns
    <3>2. ~[objects[Top.slot] EXCEPT !.open = FALSE].open
      <4>1. objects[Top.slot] \in Slots
        BY <1>1, <2>2
      <4> QED
        BY <4>1 DEF Slots
    <3> QED
      BY <1>1, <2>2, <3>1, <3>2
  <2> QED
    BY <1>1, <2>4, <2>5 DEF SlotsAreOpen
<1>15. CASE Rests
  BY <1>15 DEF Rests, SlotsAreOpen, HasSlot
<1> QED
  BY <1>7, <1>8, <1>9, <1>12, <1>13, <1>14, <1>15 DEF Way

(***************************************************************************)
(* References.                                                             *)
(***************************************************************************)
ReferencesInv ==
  \A j \in 1 .. Len(tree) : tree[j].op = "alias" =>
    /\ tree[j].from \in 1 .. j - 1
    /\ tree[tree[j].from].kind = tree[j].kind
    /\ tree[tree[j].from].op # "alias"

LEMMA ReferencesInductive ==
  ASSUME Types, Types', Places, ReferencesInv, Way
  PROVE  ReferencesInv'
<1>1. /\ Len(tree) \in Nat /\ tree \in Seq(Event) /\ objects \in Seq(Slots)
  BY DEF Types
<1>2. ASSUME NEW e \in Event, tree' = Append(tree, e),
             e.op = "alias" => /\ e.from \in 1 .. Len(tree) /\ tree[e.from].kind = e.kind
                               /\ tree[e.from].op # "alias"
      PROVE  ReferencesInv'
  <2>1. /\ Len(tree') = Len(tree) + 1 /\ tree'[Len(tree) + 1] = e
        /\ \A j \in 1 .. Len(tree) : tree'[j] = tree[j]
    BY <1>1, <1>2
  <2>2. ASSUME NEW j \in 1 .. Len(tree), tree[j].op = "alias"
        PROVE  tree[j].from \in 1 .. Len(tree)
    BY <1>1, <2>2 DEF ReferencesInv
  <2> DEFINE Good(j) == /\ tree'[j].from \in 1 .. j - 1
                        /\ tree'[tree'[j].from].kind = tree'[j].kind
                        /\ tree'[tree'[j].from].op # "alias"
  <2>3. ASSUME NEW j \in 1 .. Len(tree), tree'[j].op = "alias" PROVE Good(j)
    <3>1. /\ tree'[j] = tree[j] /\ tree[j].from \in 1 .. j - 1
          /\ tree[tree[j].from].kind = tree[j].kind /\ tree[tree[j].from].op # "alias"
      BY <2>1, <2>3 DEF ReferencesInv
    <3>2. tree'[tree[j].from] = tree[tree[j].from]
      BY <2>1, <2>2, <2>3, <3>1
    <3> QED
      BY <3>1, <3>2
  <2>4. tree'[Len(tree) + 1].op = "alias" => Good(Len(tree) + 1)
    <3> SUFFICES ASSUME e.op = "alias" PROVE Good(Len(tree) + 1)
      BY <2>1
    <3>1. e.from \in 1 .. (Len(tree) + 1) - 1
      BY <1>1, <1>2
    <3>2. tree'[e.from] = tree[e.from]
      BY <1>2, <2>1
    <3> QED
      BY <1>2, <2>1, <3>1, <3>2
  <2> HIDE DEF Good
  <2>5. \A j \in 1 .. Len(tree') : tree'[j].op = "alias" => Good(j)
    <3>1. \A j \in 1 .. Len(tree') : j \in 1 .. Len(tree) \/ j = Len(tree) + 1
      BY <1>1, <2>1
    <3> QED
      BY <2>3, <2>4, <3>1
  <2> QED
    BY <2>5 DEF ReferencesInv, Good
<1>3. ASSUME NEW e \in Event, NEW n \in Nat, Refers(e, n) PROVE ReferencesInv'
  <2>1. /\ n \in 1 .. Len(objects) /\ e.kind = objects[n].kind /\ e.from = objects[n].from
        /\ tree' = Append(tree, e)
    BY <1>3 DEF Refers
  <2>2. EntryStands(objects[n], tree)
    BY <2>1 DEF Places, EntriesStand
  <2> QED
    BY <1>2, <2>1, <2>2 DEF EntryStands, Literal
<1>4. ASSUME NEW e \in Event, Passes(e) PROVE ReferencesInv'
  BY <1>2, <1>4 DEF Passes
<1>5. ASSUME NEW e \in Event, Stores(e) PROVE ReferencesInv'
  BY <1>2, <1>5 DEF Stores
<1>6. ASSUME NEW e \in Event, NEW s \in Seq(Call), NEW f \in Call, Calls(e, s, f)
      PROVE  ReferencesInv'
  BY <1>2, <1>6 DEF Calls
<1>7. ASSUME NEW e \in Event, NEW f \in Call, Enters(e, f) PROVE ReferencesInv'
  BY <1>2, <1>7 DEF Enters
<1>8. CASE Returns \/ Rests
  BY <1>8 DEF Returns, Rests, ReferencesInv
<1> QED
  BY <1>3, <1>4, <1>5, <1>6, <1>7, <1>8 DEF Way

(***************************************************************************)
(* The table and the literals.                                             *)
(***************************************************************************)
\* The places of t where a literal starts that is not waiting for names.
Begins(t, s) ==
  {j \in 1 .. Len(t) : /\ t[j].op \in Literal
                       /\ \A k \in 1 .. Len(s) : s[k].cell = j => s[k].names = 0}

\* Table o numbers the places of set L in order.
Numbers(o, L) ==
  /\ Len(o) = Cardinality(L)
  /\ \A i \in 1 .. Len(o) : o[i].from \in L
  /\ \A h, i \in 1 .. Len(o) : h < i => o[h].from < o[i].from

\* A call waiting for its slot began after everything in the table.
WaitsLast ==
  stack # <<>> /\ Top.names # 0 => \A i \in 1 .. Len(objects) : objects[i].from < Top.cell

TableInv == WaitsLast /\ (~HasXmlReference => Numbers(objects, Begins(tree, stack)))

LEMMA BeginsAreLiterals ==
  ASSUME Types, Places
  PROVE  Begins(tree, stack) = Literals
<1>1. \A k \in 1 .. Len(stack) : Called(stack[k]) <=> stack[k].names = 0
  BY CalledWithoutNames
<1> QED
  BY <1>1 DEF Begins, Literals, Literal

LEMMA BeginsFinite ==
  ASSUME Types
  PROVE  IsFiniteSet(Begins(tree, stack)) /\ Begins(tree, stack) \subseteq 1 .. Len(tree)
<1>1. Begins(tree, stack) \subseteq 1 .. Len(tree)
  BY DEF Begins
<1>2. IsFiniteSet(1 .. Len(tree))
  BY FS_Interval DEF Types
<1> QED
  BY <1>1, <1>2, FS_Subset

\* A literal that begins after all others gets the next number.
LEMMA NextNumber ==
  ASSUME Types, NEW L, IsFiniteSet(L), Numbers(objects, L),
         NEW x \in Slots, x.from \notin L,
         \A i \in 1 .. Len(objects) : objects[i].from < x.from
  PROVE  Numbers(Append(objects, x), L \cup {x.from})
<1>1. Cardinality(L \cup {x.from}) = Cardinality(L) + 1
  BY FS_AddElement
<1>2. objects \in Seq(Slots) /\ Len(objects) \in Nat
  BY DEF Types
<1> DEFINE o == Append(objects, x)
<1>3. /\ Len(o) = Len(objects) + 1 /\ o[Len(objects) + 1] = x
      /\ \A i \in 1 .. Len(objects) : o[i] = objects[i]
  BY <1>2
<1> HIDE DEF o
<1>4. Len(o) = Cardinality(L \cup {x.from})
  BY <1>1, <1>3 DEF Numbers
<1>5. \A i \in 1 .. Len(o) : o[i].from \in L \cup {x.from}
  BY <1>2, <1>3 DEF Numbers
<1>6. \A h, i \in 1 .. Len(o) : h < i => o[h].from < o[i].from
  BY <1>2, <1>3 DEF Numbers
<1> QED
  BY <1>4, <1>5, <1>6 DEF Numbers, o

LEMMA TableInductive ==
  ASSUME Types, Types', Places, Places', TableInv, Way
  PROVE  TableInv'
<1>1. /\ Len(tree) \in Nat /\ Len(tree) + 1 \in Nat /\ Len(objects) \in Nat /\ Len(stack) \in Nat
      /\ stack \in Seq(Call) /\ objects \in Seq(Slots) /\ tree \in Seq(Event)
  BY DEF Types
<1>2. ASSUME NEW e \in Event, tree' = Append(tree, e)
      PROVE  /\ Len(tree') = Len(tree) + 1 /\ tree'[Len(tree) + 1] = e
             /\ \A j \in 1 .. Len(tree) : tree'[j] = tree[j]
  BY <1>1, <1>2
<1>3. \A i \in 1 .. Len(objects) : objects[i].from \in 1 .. Len(tree)
  BY DEF Places, EntriesStand, EntryStands
<1>4. \A k \in 1 .. Len(stack) : stack[k].cell \in 1 .. Len(tree)
  BY DEF Places, CallsStand, CallStands
<1>5. ASSUME NEW e \in Event, tree' = Append(tree, e)
      PROVE  HasXmlReference' <=> HasXmlReference \/ (e.op = "alias" /\ e.kind \in {"xml", "xmldoc"})
  BY <1>1, <1>2, <1>5 DEF HasXmlReference
<1>6. IsFiniteSet(Begins(tree, stack)) /\ Begins(tree, stack) \subseteq 1 .. Len(tree)
  BY BeginsFinite
<1>7. ASSUME NEW e \in Event, tree' = Append(tree, e), NEW s \in Seq(Call), SameCalls(s, stack)
      PROVE  Begins(tree', s) = IF e.op \in Literal THEN Begins(tree, stack) \cup {Len(tree) + 1}
                                                    ELSE Begins(tree, stack)
  <2>1. /\ Len(tree') = Len(tree) + 1 /\ tree'[Len(tree) + 1] = e
        /\ \A j \in 1 .. Len(tree) : tree'[j] = tree[j]
    BY <1>2, <1>7
  <2>2. \A j \in 1 .. Len(tree) : j \in Begins(tree', s) <=> j \in Begins(tree, stack)
    <3>1. ASSUME NEW j \in 1 .. Len(tree)
          PROVE  j \in Begins(tree', s) <=> j \in Begins(tree, stack)
      <4>1. (\A k \in 1 .. Len(s) : s[k].cell = j => s[k].names = 0)
              <=> (\A k \in 1 .. Len(stack) : stack[k].cell = j => stack[k].names = 0)
        BY <1>7 DEF SameCalls
      <4>2. j \in 1 .. Len(tree') /\ tree'[j] = tree[j]
        BY <1>1, <2>1
      <4> QED
        BY <4>1, <4>2 DEF Begins
    <3> QED
      BY <3>1
  <2>3. Len(tree) + 1 \in Begins(tree', s) <=> e.op \in Literal
    <3>1. \A k \in 1 .. Len(s) : s[k].cell # Len(tree) + 1
      BY <1>1, <1>4, <1>7 DEF SameCalls
    <3> QED
      BY <1>1, <2>1, <3>1 DEF Begins
  <2>4. \A j : j \in Begins(tree', s) => j \in 1 .. Len(tree) \/ j = Len(tree) + 1
    BY <1>1, <2>1 DEF Begins
  <2>5. Len(tree) + 1 \notin 1 .. Len(tree)
    BY <1>1
  <2> QED
    BY <1>6, <2>2, <2>3, <2>4, <2>5
<1>8. ASSUME SameCalls(stack', stack), stack' \in Seq(Call), objects' = objects PROVE WaitsLast'
  <2>1. stack' # <<>> /\ Top'.names # 0 => stack # <<>> /\ Top.names # 0 /\ Top'.cell = Top.cell
    BY <1>1, <1>8 DEF SameCalls, Top
  <2> QED
    BY <1>8, <2>1 DEF TableInv, WaitsLast
<1>9. ASSUME SameCalls(stack', stack), stack' \in Seq(Call), NoNamesDue PROVE WaitsLast'
  BY <1>1, <1>9 DEF SameCalls, Top, WaitsLast, NoNamesDue
<1>10. stack' \in Seq(Call)
  BY DEF Types
<1>11. ASSUME NEW e \in Event, Passes(e) PROVE TableInv'
  <2>1. e.op \notin Literal /\ e.op # "alias"
    BY <1>11 DEF Passes, Literal
  <2> QED
    BY <1>5, <1>7, <1>8, <1>10, <1>11, <2>1 DEF Passes, TableInv
<1>12. ASSUME NEW e \in Event, NEW n \in Nat, NoNamesDue, Refers(e, n) PROVE TableInv'
  <2>1. /\ e.op = "alias" /\ e.op \notin Literal /\ SameCalls(stack', stack) /\ tree' = Append(tree, e)
        /\ objects' = objects \/ e.kind \in {"xml", "xmldoc"}
    BY <1>12 DEF Refers, Literal
  <2> QED
    BY <1>5, <1>7, <1>9, <1>10, <1>12, <2>1 DEF TableInv
<1>13. ASSUME NEW x \in Slots, x.from = Len(tree) + 1, objects' = Append(objects, x),
              Begins(tree', stack') = Begins(tree, stack) \cup {Len(tree) + 1},
              HasXmlReference' <=> HasXmlReference, WaitsLast'
       PROVE  TableInv'
  <2>1. x.from \notin Begins(tree, stack) /\ \A i \in 1 .. Len(objects) : objects[i].from < x.from
    BY <1>1, <1>3, <1>6, <1>13
  <2>2. Numbers(objects, Begins(tree, stack)) => Numbers(objects', Begins(tree, stack) \cup {x.from})
    BY <1>6, <1>13, <2>1, NextNumber
  <2> QED
    BY <1>13, <2>2 DEF TableInv
<1>14. ASSUME NEW e \in Event, NoNamesDue, Stores(e) PROVE TableInv'
  <2> DEFINE x == Closed(e.kind, Len(tree) + 1)
  <2>1. /\ e.op \in Literal /\ e.op # "alias" /\ SameCalls(stack', stack) /\ tree' = Append(tree, e)
        /\ objects' = Append(objects, x)
    BY <1>14 DEF Stores, Literal
  <2>2. x \in Slots /\ x.from = Len(tree) + 1
    <3>1. e.kind \in Leaves
      BY <1>14 DEF Stores, Event, Cell
    <3> QED
      BY <1>1, <3>1, EntriesAreSlots
  <2> HIDE DEF x
  <2> QED
    BY <1>5, <1>7, <1>9, <1>10, <1>13, <1>14, <2>1, <2>2
<1>15. ASSUME NEW e \in Event, NEW s \in Seq(Call), NEW f \in Call, NoNamesDue, Calls(e, s, f)
       PROVE  TableInv'
  <2> DEFINE x == Opened(e.kind, Len(tree) + 1)
  <2>1. /\ e.op \in {"array", "object"} /\ SameCalls(s, stack) /\ e.kind = e.op
        /\ stack' = Append(s, f) /\ tree' = Append(tree, e) /\ f.cell = Len(tree) + 1
        /\ \/ f.names = 0 /\ objects' = Append(objects, x)
           \/ f.names # 0 /\ objects' = objects
    BY <1>15 DEF Calls, Call
  <2>2. e.op \in Literal /\ e.op # "alias"
    BY <2>1 DEF Literal
  <2>3. x \in Slots /\ x.from = Len(tree) + 1
    <3> DEFINE k == e.kind  from == Len(tree) + 1
    <3>1. k \in Leaves \cup {"array", "object"} /\ from \in Nat
      BY <1>1, <2>1
    <3> HIDE DEF k, from
    <3>2. Opened(k, from) \in Slots /\ Opened(k, from).from = from
      BY <3>1, EntriesAreSlots
    <3> QED
      BY <3>2 DEF k, from
  <2> HIDE DEF x
  <2>4. Begins(tree', s) = Begins(tree, stack) \cup {Len(tree) + 1}
    BY <1>7, <2>1, <2>2
  <2>5. /\ Len(s) \in Nat /\ Len(stack') = Len(s) + 1 /\ stack'[Len(s) + 1] = f
        /\ \A k \in 1 .. Len(s) : stack'[k] = s[k]
    BY <2>1
  <2>6. Top' = f
    BY <2>5 DEF Top
  <2>7. HasXmlReference' <=> HasXmlReference
    BY <1>5, <2>1, <2>2
  <2>8. CASE f.names = 0 /\ objects' = Append(objects, x)
    <3>1. Begins(tree', stack') = Begins(tree', s)
      <4>1. ASSUME NEW j
            PROVE  (\A k \in 1 .. Len(stack') : stack'[k].cell = j => stack'[k].names = 0)
                     <=> (\A k \in 1 .. Len(s) : s[k].cell = j => s[k].names = 0)
        BY <2>5, <2>8
      <4> QED
        BY <4>1 DEF Begins
    <3>2. WaitsLast'
      BY <2>6, <2>8 DEF WaitsLast
    <3> QED
      BY <1>13, <2>3, <2>4, <2>7, <2>8, <3>1, <3>2
  <2>9. CASE f.names # 0 /\ objects' = objects
    <3>1. Begins(tree', stack') = Begins(tree, stack)
      <4>1. \A j : j \in Begins(tree', stack') <=> j \in Begins(tree', s) /\ j # Len(tree) + 1
        BY <2>1, <2>5, <2>9 DEF Begins
      <4>2. Len(tree) + 1 \notin Begins(tree, stack)
        BY <1>1, <1>6
      <4> QED
        BY <2>4, <4>1, <4>2
    <3>2. WaitsLast'
      BY <1>1, <1>3, <2>1, <2>6, <2>9 DEF WaitsLast
    <3> QED
      BY <2>7, <2>9, <3>1, <3>2 DEF TableInv
  <2> QED
    BY <2>1, <2>8, <2>9
<1>16. ASSUME NEW e \in Event, NEW f \in Call, Enters(e, f) PROVE TableInv'
  <2> DEFINE x == Opened("object", Top.cell)  m == Len(stack)
  <2>1. /\ stack # <<>> /\ Top.names # 0 /\ f.cell = Top.cell /\ f.names = 0
        /\ stack' = [stack EXCEPT ![m] = f] /\ tree' = Append(tree, e)
        /\ objects' = Append(objects, x) /\ e.op = "name"
    BY <1>1, <1>16 DEF Enters, Call, Top
  <2>2. m \in 1 .. m /\ Top = stack[m] /\ Top \in Call
    BY <1>1, <2>1 DEF Top
  <2>3. x \in Slots /\ x.from = Top.cell
    <3>1. Top.cell \in Nat
      BY <2>2 DEF Call
    <3> QED
      BY <3>1, EntriesAreSlots
  <2>4. /\ m \in Nat /\ Len(stack') = m /\ stack'[m] = f
        /\ \A k \in 1 .. m : k # m => k < m /\ stack'[k] = stack[k]
    BY <1>1, <2>1, <2>2
  <2>5. \A k \in 1 .. m : k # m => stack[k].cell < Top.cell /\ stack[k].names = 0
    BY <2>2, <2>4 DEF Places, CallsNest, Nests, OthersAreCalled
  <2>6. Top.cell \in 1 .. Len(tree) /\ tree[Top.cell].op \in Literal
    <3>1. CallStands(Top, tree, Len(objects)) /\ Top.kind = "object"
      BY <2>1, <2>2 DEF Places, CallsStand, OthersAreCalled
    <3> QED
      BY <3>1 DEF CallStands, Literal
  <2> HIDE DEF x, m
  <2>7. /\ Len(tree') = Len(tree) + 1 /\ tree'[Len(tree) + 1] = e
        /\ \A j \in 1 .. Len(tree) : tree'[j] = tree[j]
    BY <1>2, <2>1
  <2>8. Begins(tree', stack') = Begins(tree, stack) \cup {Top.cell}
    <3>1. \A k \in 1 .. m : stack'[k].cell = stack[k].cell /\ stack'[k].names = 0
      BY <2>1, <2>2, <2>4, <2>5
    <3>2. \A j : j \in Begins(tree', stack') <=> j \in 1 .. Len(tree) /\ tree[j].op \in Literal
      BY <1>1, <2>1, <2>4, <2>7, <3>1 DEF Begins, Literal
    <3>3. \A j \in 1 .. Len(tree) : tree[j].op \in Literal => j \in Begins(tree, stack) \/ j = Top.cell
      BY <2>2, <2>5 DEF Begins, m
    <3>4. \A j \in Begins(tree, stack) : j \in 1 .. Len(tree) /\ tree[j].op \in Literal
      BY DEF Begins
    <3> QED
      BY <2>6, <3>2, <3>3, <3>4
  <2>9. Top.cell \notin Begins(tree, stack)
    BY <2>1, <2>2 DEF Begins, m
  <2>10. \A i \in 1 .. Len(objects) : objects[i].from < x.from
    BY <2>1, <2>3 DEF TableInv, WaitsLast
  <2>11. Numbers(objects, Begins(tree, stack)) => Numbers(objects', Begins(tree', stack'))
    BY <1>6, <2>1, <2>3, <2>8, <2>9, <2>10, NextNumber
  <2>12. Top' = f
    BY <2>4 DEF Top
  <2>13. WaitsLast'
    BY <2>1, <2>12 DEF WaitsLast
  <2>14. HasXmlReference' <=> HasXmlReference
    BY <1>5, <2>1
  <2> QED
    BY <2>11, <2>13, <2>14 DEF TableInv
<1>17. CASE Returns
  <2> DEFINE m == Len(stack)
  <2>1. /\ stack # <<>> /\ Top.names = 0 /\ stack' = SubSeq(stack, 1, m - 1) /\ tree' = tree
        /\ objects' = [objects EXCEPT ![Top.slot].open = FALSE]
    BY <1>17 DEF Returns
  <2>2. m \in 1 .. m /\ Top = stack[m]
    BY <1>1, <2>1 DEF Top
  <2>3. /\ Len(stack') <= m /\ Len(stack') \in Nat
        /\ \A k \in 1 .. Len(stack') : k \in 1 .. m /\ k < m /\ stack'[k] = stack[k]
        /\ \A k \in 1 .. m : k # m => k \in 1 .. Len(stack')
    BY <1>1, <2>1, <2>2
  <2>4. \A k \in 1 .. m : stack[k].names = 0
    BY <2>1, <2>2 DEF Places, OthersAreCalled
  <2> HIDE DEF m
  <2>5. Begins(tree', stack') = Begins(tree, stack)
    BY <2>1, <2>3, <2>4 DEF Begins, m
  <2>6. WaitsLast'
    <3>1. stack' # <<>> => Top'.names = 0
      BY <1>10, <2>3, <2>4 DEF Top
    <3> QED
      BY <3>1 DEF WaitsLast
  <2>7. /\ Len(objects') = Len(objects)
        /\ \A i \in 1 .. Len(objects) : objects'[i].from = objects[i].from
    BY <1>1, <2>1 DEF Slots
  <2>8. Numbers(objects, Begins(tree, stack)) => Numbers(objects', Begins(tree, stack))
    BY <2>7 DEF Numbers
  <2>9. HasXmlReference' <=> HasXmlReference
    BY <2>1 DEF HasXmlReference
  <2> QED
    BY <2>5, <2>6, <2>8, <2>9 DEF TableInv
<1>18. CASE Rests
  BY <1>18 DEF Rests, TableInv, WaitsLast, Top, HasXmlReference
<1> QED
  BY <1>11, <1>12, <1>14, <1>15, <1>16, <1>17, <1>18 DEF Way

-----------------------------------------------------------------------------
(***************************************************************************)
(* The invariant, and what follows from it.                                *)
(***************************************************************************)
IInv == Types /\ Places /\ SlotsAreOpen /\ ReferencesInv /\ TableInv

LEMMA IInvStarts == DecoderInit => IInv
<1> SUFFICES ASSUME DecoderInit PROVE IInv
  OBVIOUS
<1>1. Types
  BY DEF DecoderInit, Types
<1>2. Len(stack) = 0 /\ Len(objects) = 0 /\ Len(tree) = 0
  BY DEF DecoderInit
<1>3. Places /\ SlotsAreOpen /\ ReferencesInv
  BY <1>2 DEF Places, CallsStand, OthersAreCalled, CallsNest, EntriesStand, SlotsAreOpen, ReferencesInv
<1>4. TableInv
  <2>1. Begins(tree, stack) = {}
    BY <1>2 DEF Begins
  <2>2. Cardinality({}) = 0
    BY FS_EmptySet
  <2> QED
    <3>1. Numbers(objects, {})
      BY <1>2, <2>2 DEF Numbers
    <3>2. WaitsLast
      BY DEF DecoderInit, WaitsLast
    <3> QED
      BY <2>1, <3>1, <3>2 DEF TableInv
<1> QED
  BY <1>1, <1>3, <1>4 DEF IInv

LEMMA IInvInductive == IInv /\ [DecoderNext]_decoderVars => IInv'
<1> SUFFICES ASSUME IInv, [DecoderNext]_decoderVars PROVE IInv'
  OBVIOUS
<1>1. Types /\ Places /\ SlotsAreOpen /\ ReferencesInv /\ TableInv
  BY DEF IInv
<1>2. Types' /\ Way
  BY <1>1, StepsGoTheirWay
<1>3. Places'
  BY <1>1, <1>2, PlacesInductive
<1>4. SlotsAreOpen' /\ ReferencesInv' /\ TableInv'
  BY <1>1, <1>2, <1>3, SlotsAreOpenInductive, ReferencesInductive, TableInductive
<1> QED
  BY <1>2, <1>3, <1>4 DEF IInv

LEMMA IInvHolds == DecoderSpec => []IInv
BY IInvStarts, IInvInductive, PTL DEF DecoderSpec

\* Type correctness of the decoder for every set of cells and every length of
\* a message: slots and entries lie in the table and the value (read_array,
\* read_object, parse_value).
THEOREM DecoderTypeCorrect == DecoderSpec => []TypeOK
<1>1. IInv => TypeOK
  <2> SUFFICES ASSUME IInv PROVE TypeOK
    OBVIOUS
  <2>1. Types /\ Places
    BY DEF IInv
  <2>2. \A k \in 1 .. Len(stack) :
          /\ stack[k].cell \in 1 .. Len(tree)
          /\ stack[k].values \in Nat /\ stack[k].names \in Nat
          /\ Called(stack[k]) => stack[k].slot \in 1 .. Len(objects)
    <3>1. \A k \in 1 .. Len(stack) : stack[k] \in Call
      BY <2>1 DEF Types
    <3>2. \A k \in 1 .. Len(stack) : Called(stack[k]) <=> stack[k].names = 0
      BY <2>1, CalledWithoutNames
    <3> QED
      BY <2>1, <3>1, <3>2 DEF Call, Places, CallsStand, CallStands
  <2>3. \A i \in 1 .. Len(objects) :
          objects[i].from \in 1 .. Len(tree) /\ objects[i].kind = tree[objects[i].from].kind
    BY <2>1 DEF Places, EntriesStand, EntryStands
  <2> QED
    BY <2>1, <2>2, <2>3 DEF TypeOK, Types
<1> QED
  BY <1>1, IInvHolds, PTL

\* An entry of the table is a placeholder exactly while the call of read_array
\* or read_object that took it is under way, through any nesting.
THEOREM PlaceholdersAreCalls == DecoderSpec => []OpenSlotsAreCalls
<1>1. IInv => OpenSlotsAreCalls
  <2> SUFFICES ASSUME IInv PROVE OpenSlotsAreCalls
    OBVIOUS
  <2>1. \A k \in 1 .. Len(stack) : Called(stack[k]) <=> stack[k].names = 0
    BY CalledWithoutNames DEF IInv
  <2> QED
    BY <2>1 DEF IInv, SlotsAreOpen, HasSlot, OpenSlotsAreCalls
<1> QED
  BY <1>1, IInvHolds, PTL

\* A reference that resolves gives a literal of its kind that begins before it
\* (the object-reference arms of parse_value), also behind entries that
\* references have made themselves.
THEOREM ReferencesGiveEarlierLiterals == DecoderSpec => []ReferencesGoBack
<1>1. IInv => ReferencesGoBack
  <2> SUFFICES ASSUME IInv PROVE ReferencesGoBack
    OBVIOUS
  <2>1. Len(tree) \in Nat
    BY DEF IInv, Types
  <2> QED
    BY <2>1 DEF IInv, ReferencesInv, ReferencesGoBack
<1> QED
  BY <1>1, IInvHolds, PTL

\* Index N means the Nth literal of the message, whatever its nesting, as long
\* as no xml value was sent by reference (the header of amf3.rs).
THEOREM IndexNumbersLiterals == DecoderSpec => []IndexIsNthLiteralWithoutXml
<1>1. IInv => IndexIsNthLiteralWithoutXml
  <2> SUFFICES ASSUME IInv PROVE IndexIsNthLiteralWithoutXml
    OBVIOUS
  <2>1. Begins(tree, stack) = Literals
    BY BeginsAreLiterals DEF IInv
  <2> QED
    BY <2>1 DEF IInv, TableInv, Numbers, IndexIsNthLiteralWithoutXml, TableIsLiterals
<1> QED
  BY <1>1, IInvHolds, PTL
=============================================================================
