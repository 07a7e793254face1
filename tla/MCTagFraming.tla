---------------------------- MODULE MCTagFraming ----------------------------
(***************************************************************************)
(* Tags at the limits of their fields.  A byte has four values, so that    *)
(* 63, 64 and 255 are the limits of 24 and 32 bits.                        *)
(***************************************************************************)
EXTENDS TagFraming

Media(k, t, n) ==
  [kind |-> k, preamble |-> None, ts |-> t, stream |-> 0, payload |-> [i \in 1 .. n |-> i % Radix]]

Iv == [i \in 1 .. IvLength |-> Radix - i]

SomePreamble(name, e, iv) == [name |-> name, encrypted |-> e, iv |-> iv]

Filtered(p, n) == [Media("video", 1, n) EXCEPT !.preamble = p]

SomePreambles ==
  { SomePreamble(n, e, iv) : n \in {Encryption, Selective, <<1>>}, e \in BOOLEAN, iv \in {None, Iv} }

SomeTags ==
  { Media("audio", 0, 0), Media("audio", 63, 2), Media("video", 64, 5), Media("script", 255, 1),
    Media("video", 130, 63), Media("video", 7, 1), Media("video", 0, 64) }
    \cup { [Media("script", 0, 1) EXCEPT !.stream = s] : s \in {63, 64} }
    \cup { Filtered(p, 3) : p \in SomePreambles }
    \cup { Filtered(SomePreamble(Selective, FALSE, None), n) : n \in {56, 57} }

ShortTags == { Media("audio", 0, 0), Media("video", 64, 5), Filtered(SomePreamble(Selective, TRUE, Iv), 3) }

SomeFiles ==
  UNION {[1 .. n -> SomeTags] : n \in 1 .. 2} \cup [1 .. 3 -> ShortTags]

\* One tag of any kind and any size that is claimed, over bytes that may be an
\* EncryptionTagHeader, and a second tag or a stray behind them.
AnySizes ==
  { UI32(0) \o <<lead>> \o UI24(size) \o [i \in 1 .. 7 |-> 1] \o name \o tail :
      lead \in {8, 10, 41, 42, 50}, size \in {0, 1, 6, 8, 63},
      name \in { <<1, 2, 0>>, <<1, 3, 1, 0>>, <<2>>, <<1, 1>> },
      tail \in UNION {[1 .. n -> {0, 2}] : n \in 0 .. 5} }

\* A whole tag whose EncryptionTagHeader claims n bytes of FilterParams, of k that
\* are there, and that are flagged or not.
AnyParams ==
  { UI32(0) \o <<41>> \o UI24(Len(name) + 3 + k) \o [i \in 1 .. 7 |-> 1]
            \o name \o UI24(n) \o [i \in 1 .. k |-> (flag + i) % Radix] \o UI32(0) :
      name \in { <<1, 2, 0>>, <<1, 3, 1, 0>> }, n \in 0 .. 5, k \in 0 .. 5, flag \in {0, 2} }

SomeNoise == AnySizes \cup AnyParams
=============================================================================
