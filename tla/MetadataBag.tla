----------------------------- MODULE MetadataBag -----------------------------
(***************************************************************************)
(* The metadata bag of demuxer.rs, keys and their texts in order, and how  *)
(* an AMF value is flattened into it.                                      *)
(***************************************************************************)
EXTENDS AmfValues

CONSTANT MaxDepth     \* bound: how many values deep a value is

ASSUME MaxDepthAssumption == MaxDepth \in Nat

(***************************************************************************)
(* A key of the bag is the sequence of its parts, which a dot separates;   *)
(* the index of an array item is added to the last part without one.       *)
(***************************************************************************)
Entry(key, text) == [key |-> key, text |-> text]

Indexed(key, i) == Front(key) \o <<Last(key) \o "[" \o ToString(i) \o "]">>

\* The text of a key starts with prefix and a dot.
Under(prefix, key) == Len(key) > Len(prefix) /\ SubSeq(key, 1, Len(prefix)) = prefix

\* The class of an object and its "externalizable" stand in front of its members.
Marked(key, v) ==
  (IF v.m = "typed" \/ v.class # "" THEN <<Member(Append(key, "class"), String(v.class))>> ELSE <<>>)
    \o (IF v.ext THEN <<Member(Append(key, "externalizable"), Boolean(TRUE))>> ELSE <<>>)

\* The parts of the value that stands under a key, each under its own key.
Opened(p) ==
  LET v == p.value IN
  IF v.m = "avmplus" THEN <<Member(p.key, v.inner)>>
  ELSE IF v.m \in Composites
  THEN Marked(p.key, v)
         \o [i \in 1 .. Len(v.members) |->
               Member(Append(p.key, v.members[i].key), v.members[i].value)]
         \o [i \in 1 .. Len(v.items) |-> Member(Indexed(p.key, i - 1), v.items[i])]
  ELSE <<p>>

AllOpened(ps) == FlattenSeq([i \in 1 .. Len(ps) |-> Opened(ps[i])])

\* The entries of the scalars in a value, in its order.
Flatten(v, key) ==
  LET level[n \in 0 .. MaxDepth] ==
        IF n = 0 THEN <<Member(key, v)>>
        ELSE AllOpened(level[n - 1])
      scalars == level[MaxDepth]
  IN [i \in 1 .. Len(scalars) |-> Entry(scalars[i].key, scalars[i].value.text)]

\* The first entry with this key.
Find(bag, key) ==
  LET at == {i \in 1 .. Len(bag) : bag[i].key = key}
  IN IF at = {} THEN <<>> ELSE <<bag[CHOOSE i \in at : \A j \in at : i <= j].text>>

\* Vec::retain of the harvests: what stood under the prefix goes.
Without(bag, prefix) == SelectSeq(bag, LAMBDA e : e.key # prefix /\ ~Under(prefix, e.key))
=============================================================================
