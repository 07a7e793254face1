------------------------------ MODULE MCExBody ------------------------------
(***************************************************************************)
(* Headers of every form, and the sizes at which a field changes its width.*)
(***************************************************************************)
EXTENDS ExBody

Avc == <<97, 118, 99, 49>>
Av1 == <<97, 118, 48, 49>>

ReorderedCodecs == {Avc}

Zeros(n) == [i \in 1 .. n |-> 0]

Nano(n) == [subtype |-> 0, nano |-> n, raw |-> UI24(n)]
Other(n) == [subtype |-> 3, nano |-> None, raw |-> Zeros(n)]
Masked == [subtype |-> 0, nano |-> None, raw |-> <<9>>]

Chains == { <<>>, <<Nano(999999), Other(1), Nano(1)>> }

\* Entries that are refused, one that is not what it says, and long ones.
OddChains ==
  { <<Nano(1000000)>>, <<Other(1), Nano(1000000)>>, <<Masked>>, <<Other(0)>> } \cup { <<Other(n)>> : n \in {255, 256, 257} }

Header(v, f, t, c, l, e, o, k) ==
  [video |-> v, frame |-> f, type |-> t, fourcc |-> c, layout |-> l, entries |-> e,
   nanos |-> Total(e), cto |-> o, command |-> k, consumed |-> 0]

\* Every combination of type, layout and FourCC.
AudioHeaders ==
  { Header(FALSE, 0, t, c, l, e, None, None) :
      t \in {0, 1, 5, 7}, c \in {<<>>, Av1}, l \in {None, 0, 1, 2, 3}, e \in Chains }
    \cup { Header(FALSE, 0, 1, Av1, None, e, None, None) : e \in OddChains }

VideoHeaders ==
  { Header(TRUE, f, t, c, l, e, o, k) :
      f \in {1, 5}, t \in {1, 4, 6}, c \in {<<>>, Av1, Avc}, l \in {None, 0, 1, 2},
      e \in {<<>>, <<Nano(7)>>}, o \in {None, -8388608, -1, 8388607}, k \in {None, 1} }

MisfitHeaders ==
  { [Header(FALSE, 0, 1, Av1, None, <<>>, None, None) EXCEPT !.nanos = 1],
    [Header(TRUE, 1, 0, Av1, None, <<Nano(5)>>, None, None) EXCEPT !.nanos = 4] }

AllHeaders == AudioHeaders \cup VideoHeaders \cup MisfitHeaders

Track(id, p) == [id |-> id, fourcc |-> Avc, payload |-> p]

SomeBatches ==
  { <<>>, <<Track(0, <<>>)>>, <<Track(1, <<1, 0>>)>>, <<Track(2, <<3>>), Track(0, <<>>)>>,
    <<Track(0, Zeros(257)), Track(1, <<4>>)>> }

SomePayloads == { <<>>, <<7, 0, 255>> }

\* Bodies of up to four bytes behind every lead byte that opens a header, among
\* them sizes that lead anywhere.
SomeNoise ==
  { <<lead>> \o tail : lead \in {0, 149, 151, 144, 145, 150},
      tail \in UNION {[1 .. n -> {0, 1, 37, 255}] : n \in 0 .. 4} }
    \cup { <<lead>> \o Avc \o tail : lead \in {145, 209},
            tail \in UNION {[1 .. n -> {0, 128}] : n \in 0 .. 4} }
    \cup { <<lead, byte>> \o tail : lead \in {149, 150}, byte \in {32, 37},
            tail \in UNION {[1 .. n -> {0, 1}] : n \in 0 .. 9} }
=============================================================================
