-------------------------- MODULE MCAmf3References --------------------------
(***************************************************************************)
(* Messages with every kind of reference, resolving and not.               *)
(***************************************************************************)
EXTENDS Amf3References

At == 0 .. 2

MessageCells ==
  { Atom }
    \cup { StringCell(at, s) : at \in At, s \in Text }
    \cup { NameCell(at, s) : at \in {0, 2}, s \in Text \cup {NoText} }
    \cup { LeafCell(k, at) : k \in {"xml", "date"}, at \in At }
    \cup { ArrayCell(at, n) : at \in At, n \in 0 .. 2 }
    \cup { ObjectCell("object", at, FALSE, FALSE, 0) : at \in 1 .. 2 }
    \cup { ObjectCell("traits", 1, FALSE, FALSE, 0) }
    \cup { ObjectCell("inline", 0, ext, dyn, n) : ext \in BOOLEAN, dyn \in BOOLEAN, n \in 0 .. 1 }
=============================================================================
