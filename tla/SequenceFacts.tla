--------------------------- MODULE SequenceFacts ---------------------------
(***************************************************************************)
(* What several proofs need to know of numbers and sequences.              *)
(***************************************************************************)
EXTENDS Integers, SequencesExt, SequenceTheorems, WellFoundedInduction, TLAPS

\* s stands in b behind the first c bytes.
Stands(s, b, c) == \A i \in 1 .. Len(s) : b[c + i] = s[i]

(***************************************************************************)
(* Induction, over sets of numbers, and what it says of recursive          *)
(* functions: of Ends, which adds up lengths, and of FlattenSeq.           *)
(***************************************************************************)
\* Every set of numbers has a least one.
LEMMA Least ==
  ASSUME NEW T, T \subseteq Nat, T # {}
  PROVE  \E x \in T : \A y \in T : x <= y
<1> DEFINE R == {ss \in Nat \X Nat : ss[1] < ss[2]}
<1>1. IsWellFoundedOn(R, Nat)
  BY NatLessThanWellFounded DEF OpToRel
<1> HIDE DEF R
<1>2. \E x \in T : \A y \in T : <<y, x>> \notin R
  BY <1>1, WFMin
<1> USE DEF R
<1>3. \A x, y \in Nat : y < x => <<y, x>> \in R
  BY DEF OpToRel
<1> HIDE DEF R
<1>4. \A x, y \in T : ~(y < x) => x <= y
  BY SMT
<1> QED
  BY <1>2, <1>3, <1>4

\* A set that holds 0 and the successor of each of its members holds every number.
LEMMA Induction ==
  ASSUME NEW T, 0 \in T, \A n \in Nat : n \in T => n + 1 \in T
  PROVE  \A n \in Nat : n \in T
<1> SUFFICES ASSUME NEW m \in Nat, m \notin T PROVE FALSE
  OBVIOUS
<1> DEFINE U == {n \in Nat : n \notin T}
<1>1. PICK x \in U : \A y \in U : x <= y
  BY Least
<1>2. x # 0 /\ x \in Nat
  OBVIOUS
<1>3. x - 1 \in Nat /\ ~(x <= x - 1) /\ (x - 1) + 1 = x
  BY <1>2, SMT
<1>4. x - 1 \notin U
  BY <1>1, <1>3
<1> QED
  BY <1>1, <1>3, <1>4

\* f begins with z, and G says how it goes on.
Iterates(f, S, n, z, G) ==
  f \in [0 .. n -> S] /\ f[0] = z /\ \A i \in 1 .. n : f[i] = G[<<f[i - 1], i>>]

\* A recursive function over numbers goes on as its definition says.
LEMMA Recursion ==
  ASSUME NEW S, NEW n \in Nat, NEW z \in S, NEW G \in [S \X (1 .. n) -> S]
  PROVE  \E f : Iterates(f, S, n, z, G)
<1> DEFINE Good(m, f) == f[0] = z /\ \A i \in 1 .. m : f[i] = G[<<f[i - 1], i>>]
           T == {m \in Nat : m <= n => \E f \in [0 .. m -> S] : Good(m, f)}
<1>1. 0 \in T
  <2> DEFINE f == [i \in 0 .. 0 |-> z]
  <2>1. f \in [0 .. 0 -> S] /\ Good(0, f)
    BY SMT
  <2> HIDE DEF f
  <2> QED
    BY <2>1
<1>2. ASSUME NEW m \in Nat, m \in T PROVE m + 1 \in T
  <2> SUFFICES ASSUME m + 1 <= n PROVE \E f \in [0 .. m + 1 -> S] : Good(m + 1, f)
    BY SMT
  <2>1. PICK f \in [0 .. m -> S] : Good(m, f)
    BY <1>2, SMT
  <2> DEFINE next == G[<<f[m], m + 1>>]
             g == [i \in 0 .. m + 1 |-> IF i = m + 1 THEN next ELSE f[i]]
  <2>2. next \in S
    <3>1. f[m] \in S /\ m + 1 \in 1 .. n
      BY SMT
    <3> QED
      BY <3>1
  <2>3. g \in [0 .. m + 1 -> S]
    <3>1. \A i \in 0 .. m + 1 : i = m + 1 \/ i \in 0 .. m
      BY SMT
    <3> QED
      BY <2>2, <3>1
  <2>4. Good(m + 1, g)
    <3>1. g[0] = f[0] /\ g[m + 1] = next /\ \A i \in 0 .. m : g[i] = f[i]
      BY SMT
    <3> HIDE DEF g
    <3>2. ASSUME NEW i \in 1 .. m + 1 PROVE g[i] = G[<<g[i - 1], i>>]
      <4>1. i - 1 \in 0 .. m /\ (i = m + 1 \/ (i \in 1 .. m /\ i \in 0 .. m))
        BY SMT
      <4>2. g[i - 1] = f[i - 1]
        BY <3>1, <4>1
      <4>3. i = m + 1 => i - 1 = m
        BY SMT
      <4> QED
        BY <2>1, <3>1, <4>1, <4>2, <4>3
    <3> QED
      BY <2>1, <3>1, <3>2
  <2> QED
    BY <2>3, <2>4
<1>3. n \in T
  <2> HIDE DEF T
  <2> QED
    BY <1>1, <1>2, Induction
<1> QED
  BY <1>3, SMT DEF Iterates

\* Where each of the sequences ends when they follow each other.
Ends(ss) ==
  LET end[i \in 0 .. Len(ss)] == IF i = 0 THEN 0 ELSE end[i - 1] + Len(ss[i])
  IN end

\* Ends is what its definition says.
LEMMA EndsAre ==
  ASSUME NEW A, NEW ss \in Seq(Seq(A))
  PROVE  /\ Ends(ss) \in [0 .. Len(ss) -> Nat]
         /\ Ends(ss)[0] = 0
         /\ \A i \in 1 .. Len(ss) : Ends(ss)[i] = Ends(ss)[i - 1] + Len(ss[i])
<1> DEFINE n == Len(ss)
           G == [p \in Nat \X (1 .. n) |-> p[1] + Len(ss[p[2]])]
<1>1. n \in Nat /\ \A i \in 1 .. n : Len(ss[i]) \in Nat
  BY LenProperties, ElementOfSeq
<1>2. G \in [Nat \X (1 .. n) -> Nat]
  <2>1. \A i \in 1 .. n, a \in Nat : a + Len(ss[i]) \in Nat
    BY <1>1, SMT
  <2> QED
    BY <2>1
<1>2a. \A a \in Nat, i \in 1 .. n : G[<<a, i>>] = a + Len(ss[i])
  OBVIOUS
<1>2b. 0 \in Nat
  BY SMT
<1> HIDE DEF G
<1> HIDE DEF n
<1>3. PICK f : Iterates(f, Nat, n, 0, G)
  BY <1>1, <1>2, <1>2b, Recursion, Zenon
<1>4. \A i \in 1 .. n : f[i] = f[i - 1] + Len(ss[i])
  <2>1. \A i \in 1 .. n : i - 1 \in 0 .. n
    BY <1>1, SMT
  <2> QED
    BY <1>2a, <1>3, <2>1 DEF Iterates
<1>5. f = [i \in 0 .. n |-> IF i = 0 THEN 0 ELSE f[i - 1] + Len(ss[i])]
  <2>1. \A i \in 0 .. n : i = 0 \/ i \in 1 .. n
    BY <1>1, SMT
  <2> QED
    BY <1>3, <1>4, <2>1 DEF Iterates
<1>6. Ends(ss) = [i \in 0 .. n |-> IF i = 0 THEN 0 ELSE Ends(ss)[i - 1] + Len(ss[i])]
  BY <1>5 DEF Ends, n
<1>7. Ends(ss)[0] = 0 /\ \A i \in 1 .. n : Ends(ss)[i] = Ends(ss)[i - 1] + Len(ss[i])
  <2>1. 0 \in 0 .. n /\ \A i \in 1 .. n : i \in 0 .. n /\ i # 0
    BY <1>1, SMT
  <2> QED
    BY <1>6, <2>1, Zenon
<1> DEFINE T == {m \in Nat : m <= n => Ends(ss)[m] \in Nat}
<1>8. 0 \in T
  BY <1>7
<1>9. ASSUME NEW m \in Nat, m \in T PROVE m + 1 \in T
  <2> SUFFICES ASSUME m + 1 <= n PROVE Ends(ss)[m + 1] \in Nat
    OBVIOUS
  <2>1. m + 1 \in 1 .. n /\ (m + 1) - 1 = m /\ m <= n
    BY <1>1, SMT
  <2>2. Ends(ss)[m + 1] = Ends(ss)[m] + Len(ss[m + 1])
    BY <1>7, <2>1
  <2>3. Ends(ss)[m] \in Nat /\ Len(ss[m + 1]) \in Nat
    BY <1>1, <1>9, <2>1
  <2> QED
    BY <2>2, <2>3, SMT
<1>10. \A m \in 0 .. n : Ends(ss)[m] \in Nat
  <2>1. \A m \in Nat : m \in T
    <3> HIDE DEF T
    <3> QED
      BY <1>8, <1>9, Induction
  <2> QED
    BY <2>1, <1>1, SMT
<1>11. Ends(ss) \in [0 .. n -> Nat]
  BY <1>6, <1>10, Zenon
<1> QED
  BY <1>7, <1>11 DEF n

\* The ends are in order.
LEMMA EndsGrow ==
  ASSUME NEW A, NEW ss \in Seq(Seq(A)), NEW i \in 0 .. Len(ss), NEW j \in i .. Len(ss)
  PROVE  /\ Ends(ss)[i] <= Ends(ss)[j]
         /\ (\A m \in i + 1 .. j : ss[m] = <<>>) => Ends(ss)[i] = Ends(ss)[j]
<1> DEFINE n == Len(ss)
           e == Ends(ss)
           empty(m) == \A k \in i + 1 .. m : ss[k] = <<>>
           T == {d \in Nat : i + d <= n => e[i] <= e[i + d] /\ (empty(i + d) => e[i] = e[i + d])}
<1>1. n \in Nat /\ \A m \in 1 .. n : Len(ss[m]) \in Nat
  BY LenProperties, ElementOfSeq
<1>2. /\ \A m \in 0 .. n : e[m] \in Nat
      /\ \A m \in 1 .. n : e[m] = e[m - 1] + Len(ss[m])
  BY EndsAre
<1> HIDE DEF n, e
<1>3. 0 \in T
  <2>1. i \in 0 .. n
    BY DEF n
  <2> QED
    BY <1>1, <1>2, <2>1, SMT
<1>4. ASSUME NEW d \in Nat, d \in T PROVE d + 1 \in T
  <2> SUFFICES ASSUME i + (d + 1) <= n
               PROVE  e[i] <= e[i + (d + 1)] /\ (empty(i + (d + 1)) => e[i] = e[i + (d + 1)])
    OBVIOUS
  <2>1. /\ i \in 0 .. n /\ i \in Nat /\ i + d \in 0 .. n /\ i + (d + 1) \in 1 .. n
        /\ (i + (d + 1)) - 1 = i + d /\ i + (d + 1) \in i + 1 .. i + (d + 1)
        /\ \A m \in i + 1 .. i + d : m \in i + 1 .. i + (d + 1)
    <3>1. i \in 0 .. n
      BY DEF n
    <3> QED
      BY <1>1, <3>1, SMT
  <2>2. e[i] <= e[i + d] /\ (empty(i + d) => e[i] = e[i + d])
    <3>1. i + d <= n
      BY <1>1, <2>1, SMT
    <3> QED
      BY <1>4, <3>1
  <2>3. e[i + (d + 1)] = e[i + d] + Len(ss[i + (d + 1)])
    BY <1>2, <2>1
  <2>4. e[i] \in Nat /\ e[i + d] \in Nat /\ Len(ss[i + (d + 1)]) \in Nat
    BY <1>1, <1>2, <2>1
  <2>5. empty(i + (d + 1)) => empty(i + d) /\ Len(ss[i + (d + 1)]) = 0
    <3>1. Len(<<>>) = 0
      BY SMT
    <3> QED
      BY <2>1, <3>1
  <2> HIDE DEF empty
  <2>6. \A a, b, c, l \in Nat : a <= b /\ c = b + l => a <= c /\ (a = b /\ l = 0 => a = c)
    BY SMT
  <2>7. e[i + (d + 1)] \in Nat
    BY <1>2, <2>1, SMT
  <2> QED
    BY <2>2, <2>3, <2>4, <2>5, <2>6, <2>7
<1>5. j - i \in Nat /\ i + (j - i) = j /\ j <= n
  <2>1. i \in 0 .. n /\ j \in i .. n
    BY DEF n
  <2> QED
    BY <1>1, <2>1, SMT
<1>6. j - i \in T
  <2> HIDE DEF T
  <2> QED
    BY <1>3, <1>4, <1>5, Induction
<1>7. e[i] <= e[j] /\ (empty(j) => e[i] = e[j])
  BY <1>5, <1>6
<1> QED
  BY <1>7 DEF e

\* f adds one sequence after the other.
Folds(f, A, ss) ==
  /\ f \in [0 .. Len(ss) -> Seq(A)] /\ f[0] = <<>>
  /\ \A i \in 1 .. Len(ss) : f[i] = f[i - 1] \o ss[i]

\* FlattenSeq adds one sequence after the other.
LEMMA FlattenFolds ==
  ASSUME NEW A, NEW ss \in Seq(Seq(A))
  PROVE  \E f : Folds(f, A, ss) /\ FlattenSeq(ss) = f[Len(ss)]
<1> DEFINE n == Len(ss)
           G == [p \in Seq(A) \X (1 .. n) |-> p[1] \o ss[p[2]]]
<1>1. n \in Nat /\ \A i \in 1 .. n : ss[i] \in Seq(A) /\ Len(ss[i]) \in Nat
  BY LenProperties, ElementOfSeq
<1>2. G \in [Seq(A) \X (1 .. n) -> Seq(A)]
  <2>1. \A i \in 1 .. n, a \in Seq(A) : a \o ss[i] \in Seq(A)
    BY <1>1, ConcatProperties
  <2> QED
    BY <2>1
<1>3. \A a \in Seq(A), i \in 1 .. n : G[<<a, i>>] = a \o ss[i]
  OBVIOUS
<1>5. <<>> \in Seq(A) /\ Len(<<>>) = 0
  BY SMT
<1> HIDE DEF G, n
<1>6. PICK f : Iterates(f, Seq(A), n, <<>>, G)
  BY <1>1, <1>2, <1>5, Recursion, Zenon
<1>7. /\ f \in [0 .. n -> Seq(A)] /\ f[0] = <<>>
      /\ \A i \in 1 .. n : f[i] = f[i - 1] \o ss[i]
  <2>1. \A i \in 1 .. n : i - 1 \in 0 .. n
    BY <1>1, SMT
  <2> QED
    BY <1>3, <1>6, <2>1 DEF Iterates
<1>12. FlattenSeq(ss) = f[n]
  <2>1. CASE n = 0
    <3>1. ss = <<>>
      BY <2>1, EmptySeq DEF n
    <3> QED
      BY <1>7, <2>1, <3>1 DEF FlattenSeq, n
  <2>2. CASE n # 0
    <3> DEFINE g == [i \in 1 .. n |-> f[i]]
               flatten == CHOOSE h : h = [i \in 1 .. n |-> IF i = 1 THEN ss[i] ELSE h[i - 1] \o ss[i]]
    <3>1. g = [i \in 1 .. n |-> IF i = 1 THEN ss[i] ELSE g[i - 1] \o ss[i]]
      <4>1. ASSUME NEW i \in 1 .. n PROVE f[i] = IF i = 1 THEN ss[i] ELSE g[i - 1] \o ss[i]
        <5>1. CASE i = 1
          <6>1. i - 1 = 0
            BY <5>1, SMT
          <6>2. <<>> \o ss[i] = ss[i]
            BY <1>1, ConcatEmptySeq
          <6> QED
            BY <1>7, <5>1, <6>1, <6>2
        <5>2. CASE i # 1
          <6>1. i - 1 \in 1 .. n
            BY <1>1, <5>2, SMT
          <6> QED
            BY <1>7, <5>2, <6>1
        <5> QED
          BY <5>1, <5>2
      <4> QED
        BY <4>1, Zenon
    <3>2. flatten = [i \in 1 .. n |-> IF i = 1 THEN ss[i] ELSE flatten[i - 1] \o ss[i]]
      <4> HIDE DEF g
      <4> QED
        BY <3>1
    <3>3. FlattenSeq(ss) = flatten[n]
      BY <2>2, Zenon DEF FlattenSeq, n
    <3> HIDE DEF flatten
    <3> DEFINE U == {m \in Nat : m + 1 <= n => flatten[m + 1] = f[m + 1]}
    <3>4. 0 \in U
      <4> SUFFICES ASSUME 0 + 1 <= n PROVE flatten[0 + 1] = f[0 + 1]
        BY SMT
      <4>1. 1 \in 1 .. n /\ 0 + 1 = 1 /\ 1 - 1 = 0
        BY <1>1, SMT
      <4>2. flatten[1] = ss[1]
        BY <3>2, <4>1
      <4>3. f[1] = <<>> \o ss[1]
        BY <1>7, <4>1
      <4>4. <<>> \o ss[1] = ss[1]
        BY <1>1, <4>1, ConcatEmptySeq
      <4> QED
        BY <4>1, <4>2, <4>3, <4>4
    <3>5. ASSUME NEW m \in Nat, m \in U PROVE m + 1 \in U
      <4> SUFFICES ASSUME (m + 1) + 1 <= n PROVE flatten[(m + 1) + 1] = f[(m + 1) + 1]
        BY SMT
      <4> DEFINE k == (m + 1) + 1
      <4>1. k \in 1 .. n /\ k # 1 /\ k - 1 = m + 1 /\ m + 1 <= n
        BY <1>1, SMT
      <4> HIDE DEF k
      <4>2. flatten[k] = flatten[k - 1] \o ss[k]
        BY <3>2, <4>1
      <4>3. flatten[m + 1] = f[m + 1]
        BY <3>5, <4>1
      <4>4. flatten[k] = f[k]
        BY <1>7, <4>1, <4>2, <4>3
      <4> QED
        BY <4>4 DEF k
    <3>6. \A m \in Nat : m \in U
      <4> HIDE DEF U
      <4> QED
        BY <3>4, <3>5, Induction
    <3>7. n - 1 \in Nat /\ (n - 1) + 1 = n
      BY <1>1, <2>2, SMT
    <3>8. flatten[n] = f[n]
      <4>1. n - 1 \in U
        BY <3>6, <3>7
      <4>2. (n - 1) + 1 <= n
        BY <1>1, <3>7, SMT
      <4> QED
        BY <3>7, <4>1, <4>2
    <3> QED
      BY <3>3, <3>8
  <2> QED
    BY <2>1, <2>2
<1> QED
  BY <1>7, <1>12 DEF Folds, n

\* FlattenSeq leaves every sequence where Ends says.
LEMMA FlattenIs ==
  ASSUME NEW A, NEW ss \in Seq(Seq(A))
  PROVE  /\ FlattenSeq(ss) \in Seq(A)
         /\ Len(FlattenSeq(ss)) = Ends(ss)[Len(ss)]
         /\ \A i \in 1 .. Len(ss) : Stands(ss[i], FlattenSeq(ss), Ends(ss)[i - 1])
<1> DEFINE n == Len(ss)
           e == Ends(ss)
<1>1. n \in Nat /\ \A i \in 1 .. n : ss[i] \in Seq(A) /\ Len(ss[i]) \in Nat
  BY LenProperties, ElementOfSeq
<1>4. /\ \A m \in 0 .. n : e[m] \in Nat
      /\ e[0] = 0
      /\ \A m \in 1 .. n : e[m] = e[m - 1] + Len(ss[m])
  BY EndsAre
<1>5. <<>> \in Seq(A) /\ Len(<<>>) = 0
  BY SMT
<1>6. PICK f : Folds(f, A, ss) /\ FlattenSeq(ss) = f[Len(ss)]
  BY FlattenFolds
<1> HIDE DEF n, e
<1>7. /\ f \in [0 .. n -> Seq(A)] /\ f[0] = <<>>
      /\ \A i \in 1 .. n : f[i] = f[i - 1] \o ss[i]
  BY <1>6 DEF Folds, n
<1>12. FlattenSeq(ss) = f[n]
  BY <1>6 DEF n
<1> DEFINE T == {m \in Nat : m <= n =>
                    /\ Len(f[m]) = e[m]
                    /\ \A i \in 1 .. m : Stands(ss[i], f[m], e[i - 1])}
<1>8. 0 \in T
  <2>1. \A i \in 1 .. 0 : FALSE
    BY SMT
  <2> QED
    BY <1>4, <1>5, <1>7, <2>1
<1>9. ASSUME NEW m \in Nat, m \in T PROVE m + 1 \in T
  <2> SUFFICES ASSUME m + 1 <= n
               PROVE  /\ Len(f[m + 1]) = e[m + 1]
                      /\ \A i \in 1 .. m + 1 : Stands(ss[i], f[m + 1], e[i - 1])
    OBVIOUS
  <2>1. m + 1 \in 1 .. n /\ (m + 1) - 1 = m /\ m <= n /\ m \in 0 .. n
    BY <1>1, SMT
  <2>2. f[m + 1] = f[m] \o ss[m + 1] /\ f[m] \in Seq(A) /\ ss[m + 1] \in Seq(A)
    BY <1>1, <1>7, <2>1
  <2>3. Len(f[m]) = e[m] /\ \A i \in 1 .. m : Stands(ss[i], f[m], e[i - 1])
    BY <1>9, <2>1
  <2>4. /\ Len(f[m + 1]) = Len(f[m]) + Len(ss[m + 1])
        /\ \A k \in 1 .. Len(f[m]) + Len(ss[m + 1]) :
             f[m + 1][k] = IF k <= Len(f[m]) THEN f[m][k] ELSE ss[m + 1][k - Len(f[m])]
    <3> DEFINE a == f[m]
               b == ss[m + 1]
    <3>1. a \in Seq(A) /\ b \in Seq(A)
      BY <2>2
    <3> HIDE DEF a, b
    <3>2. /\ Len(a \o b) = Len(a) + Len(b)
          /\ \A k \in 1 .. Len(a) + Len(b) :
               (a \o b)[k] = IF k <= Len(a) THEN a[k] ELSE b[k - Len(a)]
      BY <3>1, ConcatProperties
    <3>3. f[m + 1] = a \o b
      BY <2>2 DEF a, b
    <3>4. /\ Len(f[m + 1]) = Len(a) + Len(b)
          /\ \A k \in 1 .. Len(a) + Len(b) :
               f[m + 1][k] = IF k <= Len(a) THEN a[k] ELSE b[k - Len(a)]
      BY <3>2, <3>3, Zenon
    <3> QED
      BY <3>4 DEF a, b
  <2>5. Len(f[m + 1]) = e[m + 1]
    BY <1>4, <2>1, <2>3, <2>4
  <2>6. e[m] \in Nat /\ Len(ss[m + 1]) \in Nat
    BY <1>1, <1>4, <2>1
  <2>7. Stands(ss[m + 1], f[m + 1], e[m])
    <3> SUFFICES ASSUME NEW k \in 1 .. Len(ss[m + 1]) PROVE f[m + 1][e[m] + k] = ss[m + 1][k]
      BY DEF Stands
    <3>1. e[m] + k \in 1 .. e[m] + Len(ss[m + 1]) /\ ~(e[m] + k <= e[m]) /\ (e[m] + k) - e[m] = k
      BY <2>6, SMT
    <3> QED
      BY <2>3, <2>4, <3>1
  <2>8. ASSUME NEW i \in 1 .. m PROVE Stands(ss[i], f[m + 1], e[i - 1])
    <3> SUFFICES ASSUME NEW k \in 1 .. Len(ss[i]) PROVE f[m + 1][e[i - 1] + k] = ss[i][k]
      BY DEF Stands
    <3>1. i \in 1 .. n /\ i - 1 \in 0 .. n /\ i \in 0 .. Len(ss) /\ m \in i .. Len(ss)
      BY <1>1, <2>1, SMT DEF n
    <3>2. e[i] <= e[m]
      BY <3>1, EndsGrow DEF e
    <3>3. e[i] = e[i - 1] + Len(ss[i]) /\ e[i - 1] \in Nat /\ Len(ss[i]) \in Nat
      BY <1>1, <1>4, <3>1
    <3>4. e[i - 1] + k <= e[m] /\ e[i - 1] + k \in 1 .. e[m] + Len(ss[m + 1])
      <4>1. \A a, b, c, l \in Nat, x \in Nat :
              b <= c /\ b = a + l /\ k <= l => a + k <= c /\ a + k \in 1 .. c + x
        BY SMT
      <4>2. k <= Len(ss[i]) /\ e[i] \in Nat
        <5>1. i \in 0 .. n
          BY <1>1, <3>1, SMT
        <5> QED
          BY <1>4, <3>3, <5>1, SMT
      <4> QED
        BY <2>6, <3>2, <3>3, <4>1, <4>2
    <3>5. f[m + 1][e[i - 1] + k] = f[m][e[i - 1] + k]
      BY <2>3, <2>4, <3>4
    <3> QED
      BY <2>3, <3>5 DEF Stands
  <2>9. \A i \in 1 .. m + 1 : i \in 1 .. m \/ i = m + 1
    BY SMT
  <2>10. \A i \in 1 .. m + 1 : Stands(ss[i], f[m + 1], e[i - 1])
    BY <2>1, <2>7, <2>8, <2>9
  <2> QED
    BY <2>5, <2>10
<1>10. n \in T
  <2> HIDE DEF T
  <2> QED
    BY <1>1, <1>8, <1>9, Induction
<1>11. Len(f[n]) = e[n] /\ \A i \in 1 .. n : Stands(ss[i], f[n], e[i - 1])
  BY <1>1, <1>10, SMT
<1>13. f[n] \in Seq(A)
  <2>1. n \in 0 .. n
    BY <1>1, SMT
  <2> QED
    BY <1>7, <2>1
<1> QED
  BY <1>11, <1>12, <1>13 DEF n, e

\* FlattenSeq of one sequence more.
LEMMA FlattenGrows ==
  ASSUME NEW A, NEW ss \in Seq(Seq(A)), NEW tt \in Seq(Seq(A)), Len(tt) = Len(ss) + 1,
         \A i \in 1 .. Len(ss) : tt[i] = ss[i]
  PROVE  FlattenSeq(tt) = FlattenSeq(ss) \o tt[Len(tt)]
<1> DEFINE n == Len(ss)
<1>1. n \in Nat
  BY LenProperties
<1>2. PICK f : Folds(f, A, ss) /\ FlattenSeq(ss) = f[Len(ss)]
  BY FlattenFolds
<1>3. PICK g : Folds(g, A, tt) /\ FlattenSeq(tt) = g[Len(tt)]
  BY FlattenFolds
<1>4. f[0] = <<>> /\ \A i \in 1 .. n : f[i] = f[i - 1] \o ss[i]
  BY <1>2 DEF Folds
<1>5. g[0] = <<>> /\ \A i \in 1 .. n + 1 : g[i] = g[i - 1] \o tt[i]
  BY <1>3 DEF Folds
<1>6. \A i \in 1 .. n : tt[i] = ss[i]
  OBVIOUS
<1>7. FlattenSeq(ss) = f[n] /\ FlattenSeq(tt) = g[n + 1] /\ Len(tt) = n + 1
  BY <1>2, <1>3
<1> HIDE DEF n
<1> DEFINE T == {m \in Nat : m <= n => g[m] = f[m]}
<1>8. 0 \in T
  BY <1>4, <1>5
<1>9. ASSUME NEW m \in Nat, m \in T PROVE m + 1 \in T
  <2> SUFFICES ASSUME m + 1 <= n PROVE g[m + 1] = f[m + 1]
    OBVIOUS
  <2>1. m + 1 \in 1 .. n /\ m + 1 \in 1 .. n + 1 /\ (m + 1) - 1 = m /\ m <= n
    BY <1>1, SMT
  <2>2. g[m] = f[m]
    BY <1>9, <2>1
  <2> QED
    BY <1>4, <1>5, <1>6, <2>1, <2>2
<1>10. g[n] = f[n]
  <2>1. n \in T
    <3> HIDE DEF T
    <3> QED
      BY <1>1, <1>8, <1>9, Induction
  <2>2. n <= n
    BY <1>1, SMT
  <2> QED
    BY <2>1, <2>2
<1>11. n + 1 \in 1 .. n + 1 /\ (n + 1) - 1 = n
  BY <1>1, SMT
<1>12. g[n + 1] = f[n] \o tt[n + 1]
  BY <1>5, <1>10, <1>11
<1> QED
  BY <1>7, <1>12
=============================================================================
