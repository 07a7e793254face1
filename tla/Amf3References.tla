--------------------------- MODULE Amf3References ---------------------------
(***************************************************************************)
(* The decoder on any wire, and what its object table is good for.         *)
(***************************************************************************)
EXTENDS Amf3Decoder, FiniteSets

CONSTANTS
  Cells,      \* the cells a message may hold
  MaxCells    \* bound: how many of them

\* What the bytes of a message can be taken for.
Cell ==
  [op : {"atom"}]
    \cup [op : {"string", "name"}, at : Nat, text : Text \cup {NoText}]
    \cup [op : {"leaf"}, kind : Leaves, at : Nat]
    \cup [op : {"array"}, kind : {"array"}, at : Nat, dense : Nat]
    \cup [op : {"object"}, kind : {"object"}, by : {"object", "traits", "inline"},
          at : Nat, ext : BOOLEAN, dyn : BOOLEAN, sealed : Nat]

ASSUME CellsAssumption == Cells \subseteq Cell

ReadNext == Len(tree) < MaxCells /\ \E c \in Cells : ReadCell(c)

DecoderNext == ReadNext \/ Return \/ Complete \/ Truncated

DecoderSpec == DecoderInit /\ [][DecoderNext]_decoderVars

Called(f) == f.kind = "array" \/ f.names = 0

\* The type invariant: a call's slot is in the table and its value in the tree.
TypeOK ==
  /\ status \in {"reading", "done", "invalid"}
  /\ \A k \in 1 .. Len(stack) :
       /\ stack[k].cell \in 1 .. Len(tree)
       /\ stack[k].values \in Nat /\ stack[k].names \in Nat
       /\ Called(stack[k]) => stack[k].slot \in 1 .. Len(objects)
  /\ \A i \in 1 .. Len(objects) :
       /\ objects[i].from \in 1 .. Len(tree)
       /\ objects[i].kind = tree[objects[i].from].kind
  /\ \A i \in 1 .. Len(strings) : strings[i] \in Text

\* Complex literals that have their place in the table: an object whose traits
\* are still being read does not have it yet.
Literals ==
  {j \in 1 .. Len(tree) :
     /\ tree[j].op \in {"leaf", "array", "object"}
     /\ \A k \in 1 .. Len(stack) : stack[k].cell = j => Called(stack[k])}

HasXmlReference ==
  \E j \in 1 .. Len(tree) : tree[j].op = "alias" /\ tree[j].kind \in {"xml", "xmldoc"}

TableIsLiterals ==
  /\ Len(objects) = Cardinality(Literals)
  /\ \A i \in 1 .. Len(objects) : objects[i].from \in Literals
  /\ \A h, i \in 1 .. Len(objects) : h < i => objects[h].from < objects[i].from

\* The header of amf3.rs: "index N means the Nth literal we have seen so far in
\* this message", through nesting of any depth, because array and object take
\* their slot before they read their children.
IndexIsNthLiteral == TableIsLiterals

\* The same for messages in which no xml value is sent by reference.
IndexIsNthLiteralWithoutXml == ~HasXmlReference => TableIsLiterals

\* A slot holds the empty placeholder exactly as long as the call that took it
\* has not returned: outside of itself, every value is referred to as a whole.
OpenSlotsAreCalls ==
  \A i \in 1 .. Len(objects) :
    objects[i].open <=> \E k \in 1 .. Len(stack) : Called(stack[k]) /\ stack[k].slot = i

\* A reference gives a literal of the kind it was asked for that was begun before
\* it, also when the table holds values that came from references themselves.
ReferencesGoBack ==
  \A j \in 1 .. Len(tree) : tree[j].op = "alias" =>
    /\ tree[j].from < j
    /\ tree[tree[j].from].kind = tree[j].kind
    /\ tree[tree[j].from].op # "alias"
=============================================================================
