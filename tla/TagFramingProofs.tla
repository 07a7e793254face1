-------------------------- MODULE TagFramingProofs --------------------------
(***************************************************************************)
(* Proofs about TagFraming: whatever is written is found again, for every  *)
(* sequence of tags and in any mix of reading, skipping and peeking.       *)
(***************************************************************************)
EXTENDS TagFraming, SequenceTheorems, TLAPS

(***************************************************************************)
(* Numbers and their bytes, in any base.                                   *)
(***************************************************************************)
LEMMA Division ==
  ASSUME NEW n \in Nat, NEW k \in Nat, k > 0
  PROVE  /\ n \div k \in Nat /\ n % k \in 0 .. k - 1
         /\ n = k * (n \div k) + (n % k)
<1>1. n \div k \in Nat
  BY SMT
<1>2. n % k \in 0 .. k - 1
  BY SMT
<1>3. n = k * (n \div k) + (n % k)
  BY SMT
<1> QED
  BY <1>1, <1>2, <1>3

\* Quotients are unique.
LEMMA OneQuotient ==
  ASSUME NEW k \in Nat, k > 0, NEW a \in Nat, NEW b \in Nat,
         NEW x \in 0 .. k - 1, NEW y \in 0 .. k - 1, k * a + x = k * b + y
  PROVE  a = b /\ x = y
  BY SMT

LEMMA Products ==
  ASSUME NEW k \in Nat, NEW m \in Nat
  PROVE  k * m \in Nat
  BY SMT

\* Bytes are read from where they stand.
Stands(s, b, c) == \A i \in 1 .. Len(s) : b[c + i] = s[i]

\* What three digits are worth.
LEMMA ThreeDigits ==
  ASSUME NEW r \in Nat, r > 0, NEW n \in Nat
  PROVE  r * r * (n \div (r * r)) + r * ((n \div r) % r) + (n % r) = n
<1>1. r * r \in Nat /\ r * r > 0
  BY SMT
<1> DEFINE q == n \div r
           u == n % r
           a == q \div r
           v == q % r
           A == n \div (r * r)
           t == n % (r * r)
<1>2. q \in Nat /\ u \in 0 .. r - 1 /\ n = r * q + u
  BY Division
<1>3. a \in Nat /\ v \in 0 .. r - 1 /\ q = r * a + v
  <2>1. q \in Nat
    BY <1>2
  <2> HIDE DEF q
  <2> QED
    BY <2>1, Division
<1>4. A \in Nat /\ t \in 0 .. r * r - 1 /\ n = r * r * A + t
  <2>1. ASSUME NEW k \in Nat, k > 0
        PROVE  n \div k \in Nat /\ n % k \in 0 .. k - 1 /\ n = k * (n \div k) + (n % k)
    BY <2>1, Division
  <2> QED
    BY <1>1, <2>1
<1> HIDE DEF q, u, a, v, A, t
<1>5. n = r * r * a + (r * v + u)
  BY <1>2, <1>3, SMT
<1>6. r * v + u \in 0 .. r * r - 1
  <2>1. r * v <= r * (r - 1) /\ r * v >= 0 /\ r * v \in Int
    BY <1>3, SMT
  <2>2. r * (r - 1) = r * r - r
    BY SMT
  <2> QED
    BY <1>1, <1>2, <2>1, <2>2, SMT
<1>7. a = A
  <2> DEFINE k == r * r
             x == r * v + u
  <2>1. k \in Nat /\ k > 0 /\ x \in 0 .. k - 1 /\ t \in 0 .. k - 1 /\ k * a + x = k * A + t
    BY <1>1, <1>4, <1>5, <1>6
  <2> HIDE DEF k, x
  <2> QED
    BY <1>3, <1>4, <2>1, OneQuotient
<1>8. r * r * A + r * v + u = n
  BY <1>1, <1>2, <1>3, <1>5, <1>7, SMT
<1> QED
  BY <1>8 DEF A, v, u, q

LEMMA Limits ==
  /\ UI24Max \in Nat /\ UI24Max + 1 = Radix * Radix * Radix
  /\ UI24Max >= 26 /\ Radix * Radix \in Nat /\ Radix * Radix > 0
<1>1. Radix \in Nat /\ Radix >= 3
  BY WidthsAssumption, SMT
<1>2. Radix * Radix \in Nat /\ Radix * Radix >= 9
  BY <1>1, SMT
<1>3. Radix * Radix * Radix \in Nat /\ Radix * Radix * Radix >= 27
  BY <1>1, <1>2, SMT
<1> QED
  BY <1>2, <1>3, SMT DEF UI24Max

\* UI24 and Number24, UI32 and Number32 are inverses.
LEMMA BytesOf24 ==
  ASSUME NEW n \in Nat
  PROVE  /\ UI24(n) \in Seq(Nat) /\ Len(UI24(n)) = 3
         /\ \A b, c : b[c + 1] = UI24(n)[1] /\ b[c + 2] = UI24(n)[2] /\ b[c + 3] = UI24(n)[3]
                        => Number24(b, c) = n
<1> DEFINE x == n \div (Radix * Radix)
           y == (n \div Radix) % Radix
           z == n % Radix
<1>1. Radix \in Nat /\ Radix > 0 /\ Radix * Radix \in Nat /\ Radix * Radix > 0
  BY WidthsAssumption, Limits, SMT
<1>2. x \in Nat
  BY <1>1, Division
<1>3. y \in Nat /\ z \in Nat
  <2>1. n \div Radix \in Nat /\ z \in Nat
    BY <1>1, Division, SMT
  <2>2. ASSUME NEW m \in Nat PROVE m % Radix \in Nat
    BY <1>1, <2>2, SMT
  <2> QED
    BY <2>1, <2>2
<1>4. Radix * Radix * x + Radix * y + z = n
  BY <1>1, ThreeDigits
<1>5. UI24(n) = <<x, y, z>>
  BY DEF UI24
<1> HIDE DEF x, y, z
<1>6. <<x, y, z>> \in Seq(Nat) /\ Len(<<x, y, z>>) = 3
  BY <1>2, <1>3, SMT
<1>7. ASSUME NEW b, NEW c, b[c + 1] = x, b[c + 2] = y, b[c + 3] = z
      PROVE  Number24(b, c) = n
  BY <1>4, <1>7 DEF Number24
<1> QED
  BY <1>5, <1>6, <1>7

(***************************************************************************)
(* Bytes behind each other.                                                *)
(***************************************************************************)
LEMMA Concat ==
  ASSUME NEW a \in Seq(Nat), NEW b \in Seq(Nat)
  PROVE  /\ a \o b \in Seq(Nat)
         /\ Len(a) \in Nat /\ Len(b) \in Nat /\ Len(a \o b) = Len(a) + Len(b)
         /\ \A i \in 1 .. Len(a) : (a \o b)[i] = a[i]
         /\ \A i \in 1 .. Len(b) : (a \o b)[Len(a) + i] = b[i]
<1>1. /\ a \o b \in Seq(Nat) /\ Len(a \o b) = Len(a) + Len(b)
      /\ \A i \in 1 .. Len(a) + Len(b) :
           (a \o b)[i] = IF i <= Len(a) THEN a[i] ELSE b[i - Len(a)]
  BY ConcatProperties
<1>2. Len(a) \in Nat /\ Len(b) \in Nat
  BY LenProperties
<1>3. ASSUME NEW i \in 1 .. Len(a) PROVE (a \o b)[i] = a[i]
  <2>1. i \in 1 .. Len(a) + Len(b) /\ i <= Len(a)
    BY <1>2, SMT
  <2> QED
    BY <1>1, <2>1
<1>4. ASSUME NEW i \in 1 .. Len(b) PROVE (a \o b)[Len(a) + i] = b[i]
  <2>1. /\ Len(a) + i \in 1 .. Len(a) + Len(b) /\ ~(Len(a) + i <= Len(a))
        /\ Len(a) + i - Len(a) = i
    BY <1>2, SMT
  <2> QED
    BY <1>1, <2>1
<1> QED
  BY <1>1, <1>2, <1>3, <1>4

LEMMA Associative ==
  ASSUME NEW a \in Seq(Nat), NEW b \in Seq(Nat), NEW c \in Seq(Nat)
  PROVE  (a \o b) \o c = a \o (b \o c)
BY ConcatAssociative, SMTT(30)

LEMMA Regrouped ==
  ASSUME NEW a \in Seq(Nat), NEW b \in Seq(Nat), NEW c \in Seq(Nat), NEW d \in Seq(Nat)
  PROVE  ((a \o b) \o c) \o d = a \o ((b \o c) \o d)
<1>1. PICK e \in Seq(Nat) : e = b \o c
  BY ConcatProperties
<1>2. (a \o b) \o c = a \o e
  BY <1>1, Associative, SMTT(30)
<1>3. (a \o e) \o d = a \o (e \o d)
  BY Associative, SMTT(30)
<1> QED
  BY <1>1, <1>2, <1>3

LEMMA Single ==
  ASSUME NEW x \in Nat
  PROVE  <<x>> \in Seq(Nat) /\ Len(<<x>>) = 1 /\ <<x>>[1] = x
  BY SMT

\* A part of what stands there, and what stands there in a longer sequence.
LEMMA StandsFront ==
  ASSUME NEW a \in Seq(Nat), NEW b \in Seq(Nat), NEW f, NEW c \in Nat, Stands(a \o b, f, c)
  PROVE  Stands(a, f, c) /\ Stands(b, f, c + Len(a))
<1>1. \A i \in 1 .. Len(a) + Len(b) : f[c + i] = (a \o b)[i]
  BY Concat DEF Stands
<1>2. Len(a) \in Nat /\ Len(b) \in Nat
  BY Concat
<1>3. ASSUME NEW i \in 1 .. Len(a) PROVE f[c + i] = a[i]
  <2>1. i \in 1 .. Len(a) + Len(b)
    BY <1>2, SMT
  <2> QED
    BY <1>1, <2>1, Concat
<1>4. ASSUME NEW i \in 1 .. Len(b) PROVE f[c + Len(a) + i] = b[i]
  <2>1. Len(a) + i \in 1 .. Len(a) + Len(b) /\ c + (Len(a) + i) = c + Len(a) + i
    BY <1>2, SMT
  <2>2. f[c + (Len(a) + i)] = (a \o b)[Len(a) + i]
    BY <1>1, <2>1
  <2> QED
    BY <2>1, <2>2, Concat
<1> QED
  BY <1>3, <1>4 DEF Stands

\* The same for what stands at the front.
LEMMA Behind ==
  ASSUME NEW a \in Seq(Nat), NEW b \in Seq(Nat)
  PROVE  /\ a \o b \in Seq(Nat) /\ Len(a \o b) = Len(a) + Len(b)
         /\ \A f : Stands(a \o b, f, 0) => Stands(a, f, 0) /\ Stands(b, f, Len(a))
<1>1. a \o b \in Seq(Nat) /\ Len(a \o b) = Len(a) + Len(b) /\ Len(a) \in Nat
  BY Concat
<1>2. 0 \in Nat /\ 0 + Len(a) = Len(a)
  BY <1>1, SMT
<1>3. ASSUME NEW f, Stands(a \o b, f, 0) PROVE Stands(a, f, 0) /\ Stands(b, f, 0 + Len(a))
  BY <1>2, <1>3, StandsFront
<1> QED
  BY <1>1, <1>2, <1>3

\* Numbers are read where they stand.
LEMMA Stands24 ==
  ASSUME NEW n \in Nat, NEW f, NEW c \in Nat, Stands(UI24(n), f, c)
  PROVE  Number24(f, c) = n
<1>1. Len(UI24(n)) = 3
  BY BytesOf24
<1>2. f[c + 1] = UI24(n)[1] /\ f[c + 2] = UI24(n)[2] /\ f[c + 3] = UI24(n)[3]
  <2>1. 1 \in 1 .. 3 /\ 2 \in 1 .. 3 /\ 3 \in 1 .. 3
    BY SMT
  <2> QED
    BY <1>1, <2>1 DEF Stands
<1> QED
  BY <1>2, BytesOf24

LEMMA BytesOf32 ==
  ASSUME NEW n \in Nat
  PROVE  /\ UI32(n) \in Seq(Nat) /\ Len(UI32(n)) = 4
         /\ \A f : \A c \in Nat : Stands(UI32(n), f, c) => Number32(f, c) = n
<1> DEFINE k == UI24Max + 1
           x == n \div k
           y == n % k
           u == UI24(y)
<1>1. x \in Nat /\ y \in Nat /\ n = k * x + y
  <2>1. k \in Nat /\ k > 0
    BY Limits, SMT
  <2> HIDE DEF k
  <2> QED
    BY <2>1, Division, SMT
<1>2. UI32(n) = <<x>> \o u
  BY DEF UI32
<1> HIDE DEF x, y
<1>3. u \in Seq(Nat) /\ Len(u) = 3
  BY <1>1, BytesOf24
<1>4. <<x>> \in Seq(Nat) /\ Len(<<x>>) = 1 /\ <<x>>[1] = x
  BY <1>1, Single
<1>5. UI32(n) \in Seq(Nat) /\ Len(UI32(n)) = 4
  <2>1. <<x>> \o u \in Seq(Nat) /\ Len(<<x>> \o u) = Len(<<x>>) + Len(u)
    BY <1>3, <1>4, Concat
  <2> QED
    BY <1>2, <1>3, <1>4, <2>1, SMT
<1>6. ASSUME NEW f, NEW c \in Nat, Stands(UI32(n), f, c)
      PROVE  Number32(f, c) = n
  <2>1. Stands(<<x>>, f, c) /\ Stands(u, f, c + 1)
    BY <1>2, <1>3, <1>4, <1>6, StandsFront
  <2>2. f[c + 1] = x
    <3>1. 1 \in 1 .. 1
      BY SMT
    <3> QED
      BY <1>4, <2>1, <3>1 DEF Stands
  <2>3. c + 1 \in Nat
    BY SMT
  <2>4. Number24(f, c + 1) = y
    BY <1>1, <2>1, <2>3, Stands24
  <2>5. Number32(f, c) = k * x + y
    BY <2>2, <2>4 DEF Number32
  <2> QED
    BY <1>1, <2>5
<1> QED
  BY <1>5, <1>6

LEMMA SubSeqStands ==
  ASSUME NEW s \in Seq(Nat), NEW f, NEW c \in Nat, Stands(s, f, c)
  PROVE  SubSeq(f, c + 1, c + Len(s)) = s
<1>1. Len(s) \in Nat /\ \A i \in 1 .. Len(s) : s[i] \in Nat
  BY LenProperties, ElementOfSeq
<1> DEFINE m == c + 1
           n == c + Len(s)
<1>2. m \in Int /\ n \in Int /\ n - m + 1 = Len(s) /\ (IF m <= n THEN n - m + 1 ELSE 0) = Len(s)
  BY <1>1, SMT
<1>3. ASSUME NEW i \in m .. n PROVE f[i] \in Nat
  <2>1. i - c \in 1 .. Len(s) /\ c + (i - c) = i
    BY <1>1, SMT
  <2>2. f[c + (i - c)] = s[i - c]
    BY <2>1 DEF Stands
  <2> QED
    BY <1>1, <2>1, <2>2
<1>4. /\ SubSeq(f, m, n) \in Seq(Nat) /\ Len(SubSeq(f, m, n)) = Len(s)
      /\ \A i \in 1 .. Len(s) : SubSeq(f, m, n)[i] = f[m + i - 1]
  <2> HIDE DEF m, n
  <2> QED
    BY <1>2, <1>3, SubSeqProperties
<1>5. ASSUME NEW i \in 1 .. Len(s) PROVE SubSeq(f, m, n)[i] = s[i]
  <2>1. m + i - 1 = c + i
    BY <1>1, SMT
  <2> QED
    BY <1>4, <2>1 DEF Stands
<1> QED
  BY <1>4, <1>5, SeqEqual

\* A sequence stands in itself.
LEMMA StandsInItself ==
  ASSUME NEW s \in Seq(Nat)
  PROVE  Stands(s, s, 0)
<1>1. \A i \in 1 .. Len(s) : 0 + i = i
  BY LenProperties, SMT
<1> QED
  BY <1>1 DEF Stands

LEMMA StandsByte ==
  ASSUME NEW x \in Nat, NEW f, NEW c \in Nat, Stands(<<x>>, f, c)
  PROVE  f[c + 1] = x
<1>1. 1 \in 1 .. 1
  BY SMT
<1> QED
  BY <1>1, Single DEF Stands

(***************************************************************************)
(* EncryptionTagHeaders.                                                   *)
(***************************************************************************)
LEMMA Names ==
  /\ Encryption \in Seq(Nat) /\ Len(Encryption) = 2 /\ Selective \in Seq(Nat) /\ Len(Selective) = 1
  /\ \A i \in 1 .. 2 : Encryption[i] # 0
  /\ \A i \in 1 .. 1 : Selective[i] # 0
  /\ Encryption # Selective
  /\ Flag \in Nat /\ Flag > 0
<1>1. Radix \in Nat /\ Radix > 2
  BY WidthsAssumption
<1>2. Radix \div 2 \in Nat /\ Radix \div 2 > 0
  BY <1>1, SMT
<1>3. /\ Encryption \in Seq(Nat) /\ Len(Encryption) = 2
      /\ \A i \in 1 .. 2 : Encryption[i] # 0
  <2>1. ASSUME NEW x \in Nat, NEW y \in Nat, x # 0, y # 0
        PROVE  /\ <<x, y>> \in Seq(Nat) /\ Len(<<x, y>>) = 2
               /\ \A i \in 1 .. 2 : <<x, y>>[i] # 0
    <3>1. <<x, y>> \in Seq(Nat) /\ Len(<<x, y>>) = 2 /\ <<x, y>>[1] = x /\ <<x, y>>[2] = y
      BY SMT
    <3>2. \A i \in 1 .. 2 : i = 1 \/ i = 2
      BY SMT
    <3> QED
      BY <2>1, <3>1, <3>2
  <2>2. Radix - 1 \in Nat /\ Radix - 1 # 0 /\ 1 \in Nat /\ 1 # 0
    BY <1>1, SMT
  <2> QED
    BY <2>1, <2>2 DEF Encryption
<1>4. /\ Selective \in Seq(Nat) /\ Len(Selective) = 1
      /\ \A i \in 1 .. 1 : Selective[i] # 0
  <2>1. Radix - 2 \in Nat /\ Radix - 2 # 0
    BY <1>1, SMT
  <2>2. \A i \in 1 .. 1 : i = 1
    BY SMT
  <2> QED
    BY <2>1, <2>2, Single DEF Selective
<1>5. Encryption # Selective
  BY <1>3, <1>4, SMT
<1> QED
  BY <1>2, <1>3, <1>4, <1>5 DEF Flag

LEMMA IvIsBytes ==
  ASSUME NEW iv \in [1 .. IvLength -> Nat]
  PROVE  iv \in Seq(Nat) /\ Len(iv) = IvLength
<1>1. IvLength \in Nat
  BY WidthsAssumption
<1>2. iv \in Seq(Nat)
  BY <1>1, SeqDef
<1>3. DOMAIN iv = 1 .. IvLength /\ DOMAIN iv = 1 .. Len(iv) /\ Len(iv) \in Nat
  BY <1>2, LenProperties
<1>4. Len(iv) = IvLength
  BY <1>1, <1>3, SMT
<1> QED
  BY <1>2, <1>4

LEMMA VectorsAreSomething ==
  ASSUME NEW s \in Seq(Nat), Len(s) = IvLength
  PROVE  s # None
<1>1. s \in [1 .. Len(s) -> Nat]
  BY LenProperties, ElementOfSeq
<1> QED
  BY <1>1, NoneAssumption

\* What FilterParams are.
LEMMA Params ==
  ASSUME NEW p \in Preamble, PreambleIsValid(p)
  PROVE  /\ FilterParams(p) \in Seq(Nat)
         /\ p.name = Encryption =>
              /\ p.iv # None /\ p.iv \in Seq(Nat) /\ Len(p.iv) = IvLength
              /\ FilterParams(p) = p.iv
         /\ p.name = Selective /\ p.encrypted =>
              /\ p.iv # None /\ p.iv \in Seq(Nat) /\ Len(p.iv) = IvLength
              /\ FilterParams(p) = <<Flag>> \o p.iv
         /\ p.name = Selective /\ ~p.encrypted => FilterParams(p) = <<0>>
<1>1. /\ p.name \in {Encryption, Selective} /\ p.encrypted \in BOOLEAN
      /\ p.iv \in [1 .. IvLength -> Nat] \cup {None}
      /\ p.name = Encryption \/ p.encrypted => p.iv # None
  BY DEF Preamble, PreambleIsValid
<1>2. p.iv # None => p.iv \in Seq(Nat) /\ Len(p.iv) = IvLength
  BY <1>1, IvIsBytes
<1>3. <<Flag>> \in Seq(Nat) /\ <<0>> \in Seq(Nat)
  BY Names, SMT
<1>4. p.iv # None => <<Flag>> \o p.iv \in Seq(Nat)
  BY <1>2, <1>3, ConcatProperties
<1> QED
  BY <1>1, <1>2, <1>3, <1>4, Names DEF FilterParams

\* Where the five parts of an EncryptionTagHeader stand.
LEMMA PreambleParts ==
  ASSUME NEW p \in Preamble, PreambleIsValid(p), NEW f, Stands(PreambleBytes(p), f, 0)
  PROVE  /\ PreambleBytes(p) \in Seq(Nat) /\ Len(p.name) \in Nat /\ Len(FilterParams(p)) \in Nat
         /\ Len(PreambleBytes(p)) = Len(p.name) + 5 + Len(FilterParams(p))
         /\ f[1] = 1 /\ Stands(p.name, f, 1) /\ f[Len(p.name) + 2] = 0
         /\ Number24(f, Len(p.name) + 2) = Len(FilterParams(p))
         /\ Stands(FilterParams(p), f, Len(p.name) + 5)
<1> DEFINE a == <<1>>
           n == p.name
           z == <<0>>
           l == UI24(Len(FilterParams(p)))
           q == FilterParams(p)
<1>1. PreambleBytes(p) = a \o n \o z \o l \o q
  BY DEF PreambleBytes
<1>2. a \in Seq(Nat) /\ Len(a) = 1 /\ z \in Seq(Nat) /\ Len(z) = 1
  BY Single, SMT
<1>3. n \in Seq(Nat) /\ Len(n) \in Nat
  BY LenProperties DEF Preamble
<1>4. q \in Seq(Nat) /\ Len(q) \in Nat
  BY Params, LenProperties
<1>5. l \in Seq(Nat) /\ Len(l) = 3
  BY <1>4, BytesOf24
<1>6. Stands(l, f, Len(n) + 2) => Number24(f, Len(n) + 2) = Len(q)
  <2>1. Len(n) + 2 \in Nat
    BY <1>3, SMT
  <2> QED
    BY <1>4, <2>1, Stands24
<1>7. /\ Stands(a, f, 0) => f[1] = 1
      /\ Stands(z, f, Len(n) + 1) => f[Len(n) + 2] = 0
  <2>1. 0 + 1 = 1 /\ Len(n) + 1 \in Nat /\ Len(n) + 1 + 1 = Len(n) + 2 /\ 0 \in Nat /\ 1 \in Nat
    BY <1>3, SMT
  <2>2. Stands(a, f, 0) => f[0 + 1] = 1
    BY <2>1, StandsByte
  <2>3. Stands(z, f, Len(n) + 1) => f[Len(n) + 1 + 1] = 0
    BY <2>1, StandsByte
  <2> QED
    BY <2>1, <2>2, <2>3
<1> HIDE DEF a, n, z, l, q
<1>8. /\ 1 + Len(n) = Len(n) + 1 /\ Len(n) + 1 + 1 = Len(n) + 2 /\ Len(n) + 2 + 3 = Len(n) + 5
      /\ Len(n) + 5 + Len(q) = Len(n) + 5 + Len(q)
  BY <1>3, SMT
<1>9. /\ a \o n \o z \o l \o q \in Seq(Nat) /\ Len(a \o n \o z \o l \o q) = Len(n) + 5 + Len(q)
      /\ Stands(a, f, 0) /\ Stands(n, f, 1) /\ Stands(z, f, Len(n) + 1)
      /\ Stands(l, f, Len(n) + 2) /\ Stands(q, f, Len(n) + 5)
  <2>1. /\ a \o n \in Seq(Nat) /\ Len(a \o n) = Len(n) + 1
        /\ Stands(a \o n, f, 0) => Stands(a, f, 0) /\ Stands(n, f, 1)
    <3>1. /\ a \o n \in Seq(Nat) /\ Len(a \o n) = Len(a) + Len(n)
          /\ Stands(a \o n, f, 0) => Stands(a, f, 0) /\ Stands(n, f, Len(a))
      BY <1>2, <1>3, Behind
    <3> QED
      BY <1>2, <1>8, <3>1
  <2>2. /\ a \o n \o z \in Seq(Nat) /\ Len(a \o n \o z) = Len(n) + 2
        /\ Stands(a \o n \o z, f, 0) => Stands(a \o n, f, 0) /\ Stands(z, f, Len(n) + 1)
    <3>1. /\ a \o n \o z \in Seq(Nat) /\ Len(a \o n \o z) = Len(a \o n) + Len(z)
          /\ Stands(a \o n \o z, f, 0) => Stands(a \o n, f, 0) /\ Stands(z, f, Len(a \o n))
      BY <1>2, <2>1, Behind
    <3> QED
      BY <1>2, <1>8, <2>1, <3>1
  <2>3. /\ a \o n \o z \o l \in Seq(Nat) /\ Len(a \o n \o z \o l) = Len(n) + 5
        /\ Stands(a \o n \o z \o l, f, 0) => Stands(a \o n \o z, f, 0) /\ Stands(l, f, Len(n) + 2)
    <3>1. /\ a \o n \o z \o l \in Seq(Nat) /\ Len(a \o n \o z \o l) = Len(a \o n \o z) + Len(l)
          /\ Stands(a \o n \o z \o l, f, 0) => Stands(a \o n \o z, f, 0) /\ Stands(l, f, Len(a \o n \o z))
      BY <1>5, <2>2, Behind
    <3> QED
      BY <1>5, <1>8, <2>2, <3>1
  <2>4. /\ a \o n \o z \o l \o q \in Seq(Nat) /\ Len(a \o n \o z \o l \o q) = Len(n) + 5 + Len(q)
        /\ Stands(a \o n \o z \o l \o q, f, 0) =>
             Stands(a \o n \o z \o l, f, 0) /\ Stands(q, f, Len(n) + 5)
    <3>1. /\ a \o n \o z \o l \o q \in Seq(Nat) /\ Len(a \o n \o z \o l \o q) = Len(a \o n \o z \o l) + Len(q)
          /\ Stands(a \o n \o z \o l \o q, f, 0) => Stands(a \o n \o z \o l, f, 0) /\ Stands(q, f, Len(a \o n \o z \o l))
      BY <1>4, <2>3, Behind
    <3> QED
      BY <1>4, <1>8, <2>3, <3>1
  <2> QED
    BY <1>1, <2>1, <2>2, <2>3, <2>4
<1>10. /\ a \o n \o z \o l \o q \in Seq(Nat) /\ Len(n) \in Nat /\ Len(q) \in Nat
       /\ Len(a \o n \o z \o l \o q) = Len(n) + 5 + Len(q)
       /\ f[1] = 1 /\ Stands(n, f, 1) /\ f[Len(n) + 2] = 0
       /\ Number24(f, Len(n) + 2) = Len(q)
       /\ Stands(q, f, Len(n) + 5)
  BY <1>3, <1>4, <1>6, <1>7, <1>9
<1> QED
  BY <1>1, <1>10 DEF n, q

LEMMA PreambleIsBytes ==
  ASSUME NEW p \in Preamble, PreambleIsValid(p)
  PROVE  PreambleBytes(p) \in Seq(Nat)
BY PreambleParts DEF Stands

\* The name ends at the first NUL.
LEMMA NameEnds ==
  ASSUME NEW p \in Preamble, PreambleIsValid(p), NEW f \in Seq(Nat), Len(f) >= Len(p.name) + 2,
         Stands(p.name, f, 1), f[Len(p.name) + 2] = 0
  PROVE  NameEnd(f) = Len(p.name) + 2 /\ NameOf(f) = p.name
<1> DEFINE e == Len(p.name) + 2
           First(i) == f[i] = 0 /\ \A j \in 2 .. i - 1 : f[j] # 0
<1>1. p.name \in Seq(Nat) /\ Len(p.name) \in {1, 2} /\ \A i \in 1 .. Len(p.name) : p.name[i] # 0
  BY Names DEF Preamble, PreambleIsValid
<1>2. e \in 2 .. Len(f) /\ e \in Nat /\ Len(f) \in Nat
  BY <1>1, LenProperties, SMT
<1>3. ASSUME NEW j \in 2 .. e - 1 PROVE f[j] # 0
  <2>1. j - 1 \in 1 .. Len(p.name) /\ 1 + (j - 1) = j
    BY <1>1, SMT
  <2>2. f[1 + (j - 1)] = p.name[j - 1]
    BY <2>1 DEF Stands
  <2> QED
    BY <1>1, <2>1, <2>2
<1>4. First(e)
  BY <1>3
<1>5. ASSUME NEW i \in 2 .. Len(f), First(i) PROVE i = e
  <2>1. f[i] = 0 /\ \A j \in 2 .. i - 1 : f[j] # 0
    BY <1>5
  <2>2. ~(i < e)
    <3> SUFFICES ASSUME i < e PROVE FALSE
      OBVIOUS
    <3>1. i \in 2 .. e - 1
      BY <1>2, SMT
    <3> QED
      BY <1>3, <2>1, <3>1
  <2>3. ~(e < i)
    <3> SUFFICES ASSUME e < i PROVE FALSE
      OBVIOUS
    <3>1. e \in 2 .. i - 1
      BY <1>2, SMT
    <3> QED
      BY <2>1, <3>1
  <2> QED
    BY <1>2, <2>2, <2>3, SMT
<1>6. NameEnd(f) = e
  <2>1. \E i \in 2 .. Len(f) : f[i] = 0
    BY <1>2
  <2>2. NameEnd(f) = CHOOSE i \in 2 .. Len(f) : First(i)
    BY <2>1 DEF NameEnd
  <2> HIDE DEF e, First
  <2> QED
    BY <1>2, <1>4, <1>5, <2>2
<1>7. NameOf(f) = p.name
  <2>1. 1 + 1 = 2 /\ 1 + Len(p.name) = e - 1 /\ 1 \in Nat
    BY <1>1, SMT
  <2>2. SubSeq(f, 1 + 1, 1 + Len(p.name)) = p.name
    BY <1>1, <2>1, SubSeqStands
  <2> QED
    BY <1>6, <2>1, <2>2 DEF NameOf
<1> QED
  BY <1>6, <1>7

\* A body that begins with an EncryptionTagHeader of to_bytes is parsed as that
\* header, and what stands behind it is the payload.
LEMMA PreambleComesBack ==
  ASSUME NEW p \in Preamble, PreambleIsValid(p), NEW y \in Seq(Nat), NEW b,
         b = PreambleBytes(p) \o y
  PROVE  /\ Parses(b) /\ SubSeq(b, Consumed(b) + 1, Len(b)) = y
         /\ Consistent(p) => Parsed(b) = p
<1> DEFINE q == FilterParams(p)
           e == Len(p.name) + 2
           n == Len(PreambleBytes(p))
<1>1. PreambleBytes(p) \in Seq(Nat)
  BY PreambleIsBytes
<1>2. /\ b \in Seq(Nat) /\ Len(b) = n + Len(y)
      /\ \A f : Stands(b, f, 0) => Stands(PreambleBytes(p), f, 0) /\ Stands(y, f, n)
  BY <1>1, Behind
<1>3. Stands(PreambleBytes(p), b, 0) /\ Stands(y, b, n)
  BY <1>2, StandsInItself
<1>4. /\ Len(p.name) \in Nat /\ Len(q) \in Nat /\ n = Len(p.name) + 5 + Len(q)
      /\ b[1] = 1 /\ Stands(p.name, b, 1) /\ b[Len(p.name) + 2] = 0
      /\ Number24(b, Len(p.name) + 2) = Len(q)
      /\ Stands(q, b, Len(p.name) + 5)
  BY <1>3, PreambleParts
<1>5. Len(y) \in Nat
  BY LenProperties
<1>6. /\ n \in Nat /\ e \in Nat /\ Len(b) >= e /\ Len(b) >= e + 3 /\ Len(b) >= n /\ n = e + 3 + Len(q)
      /\ e + 4 = (Len(p.name) + 5) + 1 /\ n = (Len(p.name) + 5) + Len(q) /\ Len(p.name) + 5 \in Nat
      /\ e # 0 /\ Len(b) # 0
  <2> DEFINE m == Len(p.name)
             k == Len(q)
             l == Len(b)
             w == Len(y)
             N == n
  <2>1. m \in Nat /\ k \in Nat /\ w \in Nat /\ N = m + 5 + k /\ l = N + w
    BY <1>2, <1>4, <1>5
  <2> HIDE DEF m, k, l, w, N
  <2>2. /\ N \in Nat /\ m + 2 \in Nat /\ l >= m + 2 /\ l >= m + 2 + 3 /\ l >= N /\ N = m + 2 + 3 + k
        /\ m + 2 + 4 = (m + 5) + 1 /\ N = (m + 5) + k /\ m + 5 \in Nat
        /\ m + 2 # 0 /\ l # 0
    BY <2>1, SMT
  <2> QED
    BY <2>2 DEF m, k, l, w, N
<1>7. NameEnd(b) = e /\ NameOf(b) = p.name
  BY <1>2, <1>4, <1>6, NameEnds
<1>8. Consumed(b) = n
  BY <1>4, <1>6, <1>7 DEF Consumed
<1>9. q \in Seq(Nat)
  BY Params
<1>10. ParamsOf(b) = q
  <2>1. SubSeq(b, (Len(p.name) + 5) + 1, (Len(p.name) + 5) + Len(q)) = q
    BY <1>4, <1>6, <1>9, SubSeqStands
  <2> QED
    BY <1>6, <1>7, <1>8, <2>1 DEF ParamsOf
<1>11. ParamsFit(b)
  BY <1>6, <1>7, <1>8 DEF ParamsFit
<1>12. SubSeq(b, Consumed(b) + 1, Len(b)) = y
  <2>1. SubSeq(b, n + 1, n + Len(y)) = y
    BY <1>3, <1>6, SubSeqStands
  <2> QED
    BY <1>2, <1>8, <2>1
<1>13. b # <<>> /\ b[1] = 1 /\ NameEnd(b) # 0
  BY <1>2, <1>4, <1>6, <1>7, EmptySeq
<1>14. CASE p.name = Encryption
  <2>1. p.iv \in Seq(Nat) /\ Len(p.iv) = IvLength /\ q = p.iv
    BY <1>14, Params
  <2>2. SubSeq(p.iv, 1, IvLength) = p.iv
    BY <2>1, SubSeqFull
  <2>3. Len(ParamsOf(b)) >= IvLength
    BY <1>10, <2>1, WidthsAssumption, SMT
  <2>4. Parses(b)
    BY <1>7, <1>11, <1>13, <1>14, <2>3 DEF Parses
  <2>5. ASSUME Consistent(p) PROVE Parsed(b) = p
    <3>1. p.encrypted = TRUE
      BY <1>14, <2>5 DEF Consistent, Preamble
    <3>2. Parsed(b) = [name |-> p.name, encrypted |-> TRUE, iv |-> p.iv]
      BY <1>7, <1>10, <1>14, <2>1, <2>2 DEF Parsed
    <3>3. p = [name |-> p.name, encrypted |-> p.encrypted, iv |-> p.iv]
      BY DEF Preamble
    <3> QED
      BY <3>1, <3>2, <3>3
  <2> QED
    BY <1>12, <2>4, <2>5
<1>15. CASE p.name = Selective /\ p.encrypted
  <2>1. p.iv \in Seq(Nat) /\ Len(p.iv) = IvLength /\ q = <<Flag>> \o p.iv
    BY <1>15, Params
  <2>2. <<Flag>> \in Seq(Nat) /\ Len(<<Flag>>) = 1
    BY Names, Single
  <2>3. Len(q) = 1 + IvLength /\ Stands(<<Flag>>, q, 0) /\ Stands(p.iv, q, 1)
    <3>1. /\ Len(<<Flag>> \o p.iv) = Len(<<Flag>>) + Len(p.iv) /\ <<Flag>> \o p.iv \in Seq(Nat)
          /\ \A f : Stands(<<Flag>> \o p.iv, f, 0) => Stands(<<Flag>>, f, 0) /\ Stands(p.iv, f, Len(<<Flag>>))
      BY <2>1, <2>2, Behind
    <3>2. Stands(q, q, 0)
      BY <1>9, StandsInItself
    <3> QED
      BY <2>1, <2>2, <3>1, <3>2
  <2>4. q[1] = Flag
    <3>1. 0 \in Nat /\ 0 + 1 = 1
      BY SMT
    <3>2. q[0 + 1] = Flag
      BY <2>3, <3>1, Names, StandsByte
    <3> QED
      BY <3>1, <3>2
  <2>5. SubSeq(q, 2, 1 + IvLength) = p.iv
    <3>1. 1 + 1 = 2 /\ 1 \in Nat
      BY SMT
    <3>2. SubSeq(q, 1 + 1, 1 + Len(p.iv)) = p.iv
      BY <2>1, <2>3, <3>1, SubSeqStands
    <3> QED
      BY <2>1, <3>1, <3>2
  <2>6. IsFlagged(b)
    <3>1. Flag >= Flag
      BY Names, SMT
    <3> QED
      BY <1>10, <2>4, <3>1 DEF IsFlagged
  <2>7. Len(q) >= 1 + IvLength /\ q # <<>>
    <3>1. Len(q) >= 1 + IvLength /\ Len(q) # 0
      BY <2>3, WidthsAssumption, SMT
    <3> QED
      BY <3>1, EmptySeq
  <2>8. Parses(b)
    BY <1>7, <1>10, <1>11, <1>13, <1>15, <2>7 DEF Parses
  <2>9. Parsed(b) = p
    <3>1. Parsed(b) = [name |-> p.name, encrypted |-> TRUE, iv |-> p.iv]
      BY <1>7, <1>10, <1>15, <2>5, <2>6, Names DEF Parsed
    <3>2. p = [name |-> p.name, encrypted |-> p.encrypted, iv |-> p.iv] /\ p.encrypted = TRUE
      BY <1>15 DEF Preamble
    <3> QED
      BY <3>1, <3>2
  <2> QED
    BY <1>12, <2>8, <2>9
<1>16. CASE p.name = Selective /\ ~p.encrypted
  <2>1. q = <<0>>
    BY <1>16, Params
  <2>2. Len(q) = 1 /\ q[1] = 0 /\ q # <<>>
    BY <2>1, SMT
  <2>3. ~IsFlagged(b)
    <3>1. ~(0 >= Flag)
      BY Names, SMT
    <3> QED
      BY <1>10, <2>2, <3>1 DEF IsFlagged
  <2>4. Parses(b)
    BY <1>7, <1>10, <1>11, <1>13, <1>16, <2>2, <2>3 DEF Parses
  <2>5. ASSUME Consistent(p) PROVE Parsed(b) = p
    <3>1. p.encrypted = FALSE /\ p.iv = None
      BY <1>16, <2>5 DEF Consistent, Preamble
    <3>2. Parsed(b) = [name |-> p.name, encrypted |-> FALSE, iv |-> None]
      BY <1>7, <1>16, <2>3, Names DEF Parsed
    <3>3. p = [name |-> p.name, encrypted |-> p.encrypted, iv |-> p.iv]
      BY DEF Preamble
    <3> QED
      BY <3>1, <3>2, <3>3
  <2> QED
    BY <1>12, <2>4, <2>5
<1> QED
  BY <1>14, <1>15, <1>16 DEF PreambleIsValid

(***************************************************************************)
(* Tags.                                                                   *)
(***************************************************************************)
Whole(t) == Header(t) \o BodyOf(t) \o Trailer(t)

Valid == {t \in Tag : Writable(t)}

LEMMA Bodies ==
  ASSUME NEW t \in Valid
  PROVE  /\ BodyOf(t) \in Seq(Nat) /\ Len(BodyOf(t)) \in Nat /\ Len(BodyOf(t)) <= UI24Max
         /\ t.stream \in Nat /\ t.stream <= UI24Max /\ t.ts \in Nat
         /\ t.preamble # None => t.preamble \in Preamble /\ PreambleIsValid(t.preamble)
         /\ t.preamble # None => BodyOf(t) = PreambleBytes(t.preamble) \o t.payload
         /\ t.payload \in Seq(Nat) /\ t.kind \in DOMAIN KindNumber
<1>1. /\ t.stream \in Nat /\ t.ts \in Nat /\ t.payload \in Seq(Nat) /\ t.kind \in DOMAIN KindNumber
      /\ t.preamble \in Preamble \cup {None}
  BY DEF Valid, Tag
<1>2. /\ t.preamble # None => PreambleIsValid(t.preamble)
      /\ Len(BodyOf(t)) <= UI24Max /\ t.stream <= UI24Max
  BY DEF Valid, Writable, Fits
<1>3. BodyOf(t) \in Seq(Nat)
  <2>1. CASE t.preamble = None
    <3>1. <<>> \in Seq(Nat)
      BY EmptySeq
    <3>2. BodyOf(t) = <<>> \o t.payload
      BY <2>1 DEF BodyOf
    <3> QED
      BY <1>1, <3>1, <3>2, ConcatProperties
  <2>2. CASE t.preamble # None
    <3>1. PreambleBytes(t.preamble) \in Seq(Nat)
      BY <1>1, <1>2, <2>2, PreambleIsBytes
    <3>2. BodyOf(t) = PreambleBytes(t.preamble) \o t.payload
      BY <2>2 DEF BodyOf
    <3> QED
      BY <1>1, <3>1, <3>2, ConcatProperties
  <2> QED
    BY <2>1, <2>2
<1>4. Len(BodyOf(t)) \in Nat
  BY <1>3, LenProperties
<1>5. t.preamble # None => BodyOf(t) = PreambleBytes(t.preamble) \o t.payload
  BY DEF BodyOf
<1> QED
  BY <1>1, <1>2, <1>3, <1>4, <1>5

\* A preamble and its payload come back from the body of the tag.
LEMMA CipherComesBack ==
  ASSUME NEW t \in Valid, NEW x, x.body = None \/ x.body = BodyOf(t)
  PROVE  CipherMatches(x, t)
<1> SUFFICES ASSUME t.preamble # None, WasRead(x)
             PROVE  /\ Parses(x.body)
                    /\ SubSeq(x.body, Consumed(x.body) + 1, Len(x.body)) = t.payload
                    /\ Consistent(t.preamble) => Parsed(x.body) = t.preamble
  BY DEF CipherMatches
<1>1. x.body = BodyOf(t)
  BY DEF WasRead
<1>2. /\ t.preamble \in Preamble /\ PreambleIsValid(t.preamble) /\ t.payload \in Seq(Nat)
      /\ BodyOf(t) = PreambleBytes(t.preamble) \o t.payload
  BY Bodies
<1>3. PICK p, b : p = t.preamble /\ b = BodyOf(t)
  OBVIOUS
<1>4. /\ Parses(b) /\ SubSeq(b, Consumed(b) + 1, Len(b)) = t.payload
      /\ Consistent(p) => Parsed(b) = p
  BY <1>2, <1>3, PreambleComesBack
<1> QED
  BY <1>1, <1>3, <1>4

LEMMA Remainders ==
  ASSUME NEW k \in Nat, NEW n \in Nat, n < k
  PROVE  n % k = n
<1>1. k > 0 /\ k * 0 + n = n /\ n \in 0 .. k - 1 /\ 0 \in Nat
  BY SMT
<1>2. n \div k \in Nat /\ n % k \in 0 .. k - 1 /\ n = k * (n \div k) + (n % k)
  BY <1>1, Division
<1> DEFINE q == n \div k
           r == n % k
<1>3. q \in Nat /\ r \in 0 .. k - 1 /\ n = k * q + r
  BY <1>2
<1> HIDE DEF q, r
<1>4. k * q + r = k * 0 + n
  BY <1>1, <1>3
<1>5. r = n
  BY <1>1, <1>3, <1>4, OneQuotient
<1> QED
  BY <1>5 DEF r

\* Where the fields of a tag stand.
LEMMA TagParts ==
  ASSUME NEW t \in Valid
  PROVE  /\ Header(t) \in Seq(Nat) /\ Trailer(t) \in Seq(Nat)
         /\ Whole(t) \in Seq(Nat) /\ Len(Whole(t)) = 15 + Len(BodyOf(t))
         /\ \A f : \A c \in Nat : Stands(Whole(t), f, c) =>
              /\ f[c + 1] = KindNumber[t.kind] + (IF t.preamble = None THEN 0 ELSE FilterBit)
              /\ Number24(f, c + 1) = Len(BodyOf(t))
              /\ Number24(f, c + 4) = t.ts % (UI24Max + 1)
              /\ f[c + 8] = t.ts \div (UI24Max + 1)
              /\ Number24(f, c + 8) = t.stream
              /\ Stands(BodyOf(t), f, c + 11)
              /\ Number32(f, c + (11 + Len(BodyOf(t)))) = 11 + Len(BodyOf(t))
<1> DEFINE lead == KindNumber[t.kind] + (IF t.preamble = None THEN 0 ELSE FilterBit)
           size == Len(BodyOf(t))
           low == t.ts % (UI24Max + 1)
           high == t.ts \div (UI24Max + 1)
           stream == t.stream
           body == BodyOf(t)
           a == <<lead>>
           u == UI24(size)
           v == UI24(low)
           y == <<high>>
           w == UI24(stream)
           z == UI32(11 + size)
<1>1. size \in Nat /\ size <= UI24Max /\ stream \in Nat /\ body \in Seq(Nat) /\ Len(body) = size
  BY Bodies
<1>2. low \in Nat /\ high \in Nat
  <2>1. UI24Max + 1 \in Nat /\ UI24Max + 1 > 0
    BY Limits, SMT
  <2>3. t.ts \in Nat
    BY Bodies
  <2>2. t.ts \div (UI24Max + 1) \in Nat /\ t.ts % (UI24Max + 1) \in 0 .. (UI24Max + 1) - 1
    BY <2>1, <2>3, Division
  <2> QED
    BY <2>1, <2>2, SMT
<1>3. lead \in Nat
  <2>1. t.kind \in {"audio", "video", "script"}
    BY Bodies DEF KindNumber
  <2>2. KindNumber[t.kind] \in {8, 9, 18}
    BY <2>1 DEF KindNumber
  <2> QED
    BY <2>2, SMT DEF FilterBit
<1>4. size % (UI24Max + 1) = size
  <2>1. UI24Max + 1 \in Nat /\ size < UI24Max + 1
    BY <1>1, Limits, SMT
  <2> QED
    BY <1>1, <2>1, Remainders
<1>0. Header(t) = a \o u \o v \o y \o w /\ Trailer(t) = z
  BY <1>4 DEF Header, Trailer, HeaderLength
<1>5. Whole(t) = (a \o u \o v \o y \o w) \o body \o z
  BY <1>0 DEF Whole
<1>6. 11 + size \in Nat
  BY <1>1, SMT
<1> HIDE DEF lead, size, low, high, stream, body
<1>7. /\ a \in Seq(Nat) /\ Len(a) = 1 /\ u \in Seq(Nat) /\ Len(u) = 3
      /\ v \in Seq(Nat) /\ Len(v) = 3 /\ y \in Seq(Nat) /\ Len(y) = 1
      /\ w \in Seq(Nat) /\ Len(w) = 3 /\ z \in Seq(Nat) /\ Len(z) = 4
  BY <1>1, <1>2, <1>3, <1>6, Single, BytesOf24, BytesOf32
<1>8. ASSUME NEW f, NEW c \in Nat
      PROVE  /\ Stands(a, f, c) => f[c + 1] = lead
             /\ Stands(u, f, c + 1) => Number24(f, c + 1) = size
             /\ Stands(v, f, c + 4) => Number24(f, c + 4) = low
             /\ Stands(y, f, c + 7) => f[c + 8] = high
             /\ Stands(w, f, c + 8) => Number24(f, c + 8) = stream
             /\ Stands(z, f, c + (11 + size)) => Number32(f, c + (11 + size)) = 11 + size
  <2>1. /\ c + 1 \in Nat /\ c + 4 \in Nat /\ c + 7 \in Nat /\ c + 7 + 1 = c + 8 /\ c + 8 \in Nat
        /\ c + (11 + size) \in Nat
    BY <1>1, SMT
  <2>2. /\ Stands(a, f, c) => f[c + 1] = lead
        /\ Stands(y, f, c + 7) => f[c + 7 + 1] = high
    BY <1>2, <1>3, <2>1, StandsByte
  <2>3. /\ Stands(u, f, c + 1) => Number24(f, c + 1) = size
        /\ Stands(v, f, c + 4) => Number24(f, c + 4) = low
        /\ Stands(w, f, c + 8) => Number24(f, c + 8) = stream
    BY <1>1, <1>2, <2>1, Stands24
  <2>4. Stands(z, f, c + (11 + size)) => Number32(f, c + (11 + size)) = 11 + size
    BY <1>6, <2>1, BytesOf32
  <2> QED
    BY <2>1, <2>2, <2>3, <2>4
<1> HIDE DEF a, u, v, y, w, z
<1>9. /\ a \o u \in Seq(Nat) /\ Len(a \o u) = 4
      /\ a \o u \o v \in Seq(Nat) /\ Len(a \o u \o v) = 7
      /\ a \o u \o v \o y \in Seq(Nat) /\ Len(a \o u \o v \o y) = 8
      /\ a \o u \o v \o y \o w \in Seq(Nat) /\ Len(a \o u \o v \o y \o w) = 11
  <2>1. a \o u \in Seq(Nat) /\ Len(a \o u) = 4
    <3>1. a \o u \in Seq(Nat) /\ Len(a \o u) = Len(a) + Len(u)
      BY <1>7, Behind
    <3> QED
      BY <1>7, <3>1
  <2>2. a \o u \o v \in Seq(Nat) /\ Len(a \o u \o v) = 7
    <3>1. a \o u \o v \in Seq(Nat) /\ Len(a \o u \o v) = Len(a \o u) + Len(v)
      BY <1>7, <2>1, Behind
    <3> QED
      BY <1>7, <2>1, <3>1
  <2>3. a \o u \o v \o y \in Seq(Nat) /\ Len(a \o u \o v \o y) = 8
    <3>1. a \o u \o v \o y \in Seq(Nat) /\ Len(a \o u \o v \o y) = Len(a \o u \o v) + Len(y)
      BY <1>7, <2>2, Behind
    <3> QED
      BY <1>7, <2>2, <3>1
  <2>4. a \o u \o v \o y \o w \in Seq(Nat) /\ Len(a \o u \o v \o y \o w) = 11
    <3>1. a \o u \o v \o y \o w \in Seq(Nat) /\ Len(a \o u \o v \o y \o w) = Len(a \o u \o v \o y) + Len(w)
      BY <1>7, <2>3, Behind
    <3> QED
      BY <1>7, <2>3, <3>1
  <2> QED
    BY <2>1, <2>2, <2>3, <2>4
<1> DEFINE h == a \o u \o v \o y \o w
<1>10. ASSUME NEW f, NEW c \in Nat, Stands(h, f, c)
       PROVE  /\ Stands(a, f, c) /\ Stands(u, f, c + 1) /\ Stands(v, f, c + 4)
              /\ Stands(y, f, c + 7) /\ Stands(w, f, c + 8)
  <2>1. Stands(a \o u \o v \o y, f, c) /\ Stands(w, f, c + 8)
    BY <1>7, <1>9, <1>10, StandsFront
  <2>2. Stands(a \o u \o v, f, c) /\ Stands(y, f, c + 7)
    BY <1>7, <1>9, <2>1, StandsFront
  <2>3. Stands(a \o u, f, c) /\ Stands(v, f, c + 4)
    BY <1>7, <1>9, <2>2, StandsFront
  <2>4. Stands(a, f, c) /\ Stands(u, f, c + 1)
    BY <1>7, <2>3, StandsFront
  <2> QED
    BY <2>1, <2>2, <2>3, <2>4
<1>11. h \in Seq(Nat) /\ Len(h) = 11
  BY <1>9
<1> HIDE DEF h
<1>12. /\ h \o body \in Seq(Nat) /\ Len(h \o body) = 11 + size
       /\ h \o body \o z \in Seq(Nat) /\ Len(h \o body \o z) = 15 + size
  <2>1. h \o body \in Seq(Nat) /\ Len(h \o body) = 11 + size
    <3>1. h \o body \in Seq(Nat) /\ Len(h \o body) = Len(h) + Len(body)
      BY <1>1, <1>11, Behind
    <3> QED
      BY <1>1, <1>11, <3>1
  <2>2. h \o body \o z \in Seq(Nat) /\ Len(h \o body \o z) = (11 + size) + 4
    <3>1. h \o body \o z \in Seq(Nat) /\ Len(h \o body \o z) = Len(h \o body) + Len(z)
      BY <1>7, <2>1, Behind
    <3> QED
      BY <1>7, <2>1, <3>1
  <2>3. (11 + size) + 4 = 15 + size
    BY <1>1, SMT
  <2> QED
    BY <2>1, <2>2, <2>3
<1>13. ASSUME NEW f, NEW c \in Nat, Stands(h \o body \o z, f, c)
       PROVE  Stands(h, f, c) /\ Stands(body, f, c + 11) /\ Stands(z, f, c + (11 + size))
  <2>1. Stands(h \o body, f, c) /\ Stands(z, f, c + Len(h \o body))
    BY <1>7, <1>12, <1>13, StandsFront
  <2>2. Stands(h, f, c) /\ Stands(body, f, c + Len(h))
    BY <1>1, <1>11, <2>1, StandsFront
  <2> QED
    BY <1>11, <1>12, <2>1, <2>2
<1>14. ASSUME NEW f, NEW c \in Nat, Stands(Whole(t), f, c)
       PROVE  /\ f[c + 1] = lead /\ Number24(f, c + 1) = size /\ Number24(f, c + 4) = low
              /\ f[c + 8] = high /\ Number24(f, c + 8) = stream
              /\ Stands(body, f, c + 11) /\ Number32(f, c + (11 + size)) = 11 + size
  <2>1. Stands(h \o body \o z, f, c)
    BY <1>5, <1>14 DEF h
  <2>2. Stands(h, f, c) /\ Stands(body, f, c + 11) /\ Stands(z, f, c + (11 + size))
    BY <1>13, <2>1
  <2>3. /\ Stands(a, f, c) /\ Stands(u, f, c + 1) /\ Stands(v, f, c + 4)
        /\ Stands(y, f, c + 7) /\ Stands(w, f, c + 8)
    BY <1>10, <2>2
  <2> QED
    BY <1>8, <2>2, <2>3
<1>15. Whole(t) \in Seq(Nat) /\ Len(Whole(t)) = 15 + size
  BY <1>5, <1>12 DEF h
<1>16. Header(t) \in Seq(Nat) /\ Trailer(t) \in Seq(Nat)
  BY <1>0, <1>7, <1>9
<1> QED
  BY <1>14, <1>15, <1>16 DEF lead, size, low, high, stream, body

(***************************************************************************)
(* The reader stays in order on any file.                                  *)
(***************************************************************************)
Kinds == DOMAIN KindNumber \cup {"unknown"}

SeenTag ==
  [at : Nat, kind : Kinds, filter : BOOLEAN, ts : Nat, stream : Nat,
   lead : Nat \cup {None}, body : Seq(Nat) \cup {None}]

Held ==
  /\ phase \in Phases /\ cut \in BOOLEAN
  /\ file \in Seq(Nat) /\ cursor \in Nat /\ seen \in Seq(SeenTag)
  /\ phase \in {"writing", "refused", "opening"} => cursor = 0 /\ seen = <<>>
  /\ phase \in {"writing", "refused"} => cut = FALSE
  /\ phase = "reading" /\ seen = <<>> => cursor = TrailerLength
  /\ TagsTile

LEMMA Number24IsNat ==
  ASSUME NEW b, NEW c, b[c + 1] \in Nat, b[c + 2] \in Nat, b[c + 3] \in Nat
  PROVE  Number24(b, c) \in Nat
<1>1. Radix * Radix \in Nat /\ Radix \in Nat
  BY Limits, WidthsAssumption
<1>2. Radix * Radix * b[c + 1] \in Nat /\ Radix * b[c + 2] \in Nat
  BY <1>1, Products
<1>3. ASSUME NEW x \in Nat, NEW y \in Nat, NEW z \in Nat PROVE x + y + z \in Nat
  BY SMT
<1> QED
  BY <1>2, <1>3 DEF Number24

\* What is read of a tag has its type, and the next one begins behind it.
LEMMA HeaderIsSeen ==
  ASSUME Held, Left(HeaderLength)
  PROVE  /\ Size \in Nat
         /\ HeaderHere \in SeenTag /\ HeaderHere.at = cursor
         /\ Past \in Nat /\ cursor + HeaderLength <= Len(file)
<1>1. /\ cursor \in Nat /\ file \in Seq(Nat) /\ Len(file) \in Nat /\ cursor + 11 <= Len(file)
      /\ \A i \in 1 .. Len(file) : file[i] \in Nat
  <2>1. file \in Seq(Nat) /\ cursor \in Nat
    BY DEF Held
  <2> QED
    BY <2>1, LenProperties, ElementOfSeq DEF Left, HeaderLength
<1>2. ASSUME NEW i \in 1 .. 11 PROVE file[cursor + i] \in Nat
  <2>1. cursor + i \in 1 .. Len(file)
    BY <1>1, SMT
  <2> QED
    BY <1>1, <2>1
<1>3. ASSUME NEW i \in 0 .. 8 PROVE Number24(file, cursor + i) \in Nat
  <2>1. /\ i + 1 \in 1 .. 11 /\ i + 2 \in 1 .. 11 /\ i + 3 \in 1 .. 11
        /\ cursor + i + 1 = cursor + (i + 1) /\ cursor + i + 2 = cursor + (i + 2)
        /\ cursor + i + 3 = cursor + (i + 3)
    BY <1>1, SMT
  <2>2. file[cursor + i + 1] \in Nat /\ file[cursor + i + 2] \in Nat /\ file[cursor + i + 3] \in Nat
    BY <1>2, <2>1
  <2> QED
    BY <2>2, Number24IsNat
<1>4. 1 \in 0 .. 8 /\ 4 \in 0 .. 8 /\ 8 \in 0 .. 8 /\ 8 \in 1 .. 11
  BY SMT
<1>5. Size \in Nat
  BY <1>3, <1>4 DEF Size
<1>6. Past \in Nat
  BY <1>1, <1>5, SMT DEF Past, HeaderLength, TrailerLength
<1>7. KindAt(cursor) \in Kinds
  BY DEF KindAt, Kinds
<1>8. (UI24Max + 1) * file[cursor + 8] + Number24(file, cursor + 4) \in Nat
  <2>1. UI24Max + 1 \in Nat
    BY Limits, SMT
  <2>2. file[cursor + 8] \in Nat /\ Number24(file, cursor + 4) \in Nat
    BY <1>2, <1>3, <1>4
  <2>3. (UI24Max + 1) * file[cursor + 8] \in Nat
    BY <2>1, <2>2, Products
  <2>4. ASSUME NEW x \in Nat, NEW y \in Nat PROVE x + y \in Nat
    BY SMT
  <2> QED
    BY <2>2, <2>3, <2>4
<1>9. Number24(file, cursor + 8) \in Nat
  BY <1>3, <1>4
<1>10. HeaderHere \in SeenTag /\ HeaderHere.at = cursor
  BY <1>1, <1>7, <1>8, <1>9, Zenon DEF HeaderHere, SeenTag
<1> QED
  BY <1>1, <1>5, <1>6, <1>10 DEF HeaderLength, TrailerLength

\* One more tag has been passed.
LEMMA OneMoreSeen ==
  ASSUME Held, phase = "reading", Left(HeaderLength), NEW x \in SeenTag, x.at = cursor,
         Fills(x, Past),
         seen' = Append(seen, x), cursor' = Past, UNCHANGED <<file, written, cut, phase>>
  PROVE  Held'
<1>1. /\ seen \in Seq(SeenTag) /\ Len(seen) \in Nat
      /\ seen' \in Seq(SeenTag) /\ Len(seen') = Len(seen) + 1
      /\ \A i \in 1 .. Len(seen) : seen'[i] = seen[i]
      /\ seen'[Len(seen) + 1] = x
  BY AppendProperties, LenProperties DEF Held
<1>2. Past \in Nat
  BY HeaderIsSeen
<1>3. ASSUME NEW i \in 1 .. Len(seen')
      PROVE  Fills(seen'[i], NextAt(i)')
  <2>1. CASE i = Len(seen) + 1
    BY <1>1, <2>1 DEF NextAt
  <2>2. CASE i # Len(seen) + 1
    <3>1. i \in 1 .. Len(seen)
      BY <1>1, <2>2, SMT
    <3>2. Fills(seen[i], NextAt(i))
      BY <3>1 DEF Held, TagsTile
    <3>3. NextAt(i)' = NextAt(i)
      <4>1. CASE i = Len(seen)
        BY <1>1, <2>2, <4>1 DEF NextAt
      <4>2. CASE i # Len(seen)
        <5>1. i + 1 \in 1 .. Len(seen)
          BY <1>1, <3>1, <4>2, SMT
        <5> QED
          BY <1>1, <2>2, <4>2, <5>1 DEF NextAt
      <4> QED
        BY <4>1, <4>2
    <3> QED
      BY <1>1, <3>1, <3>2, <3>3
  <2> QED
    BY <2>1, <2>2
<1>4. seen'[1].at = TrailerLength
  <2>1. CASE seen = <<>>
    <3>1. Len(seen) = 0 /\ Len(seen) + 1 = 1
      BY <2>1, EmptySeq, SMT
    <3> QED
      BY <1>1, <2>1, <3>1 DEF Held
  <2>2. CASE seen # <<>>
    <3>1. 1 \in 1 .. Len(seen)
      BY <1>1, <2>2, EmptySeq, SMT
    <3> QED
      BY <1>1, <2>2, <3>1 DEF Held, TagsTile
  <2> QED
    BY <2>1, <2>2
<1>5. seen' # <<>>
  BY <1>1, EmptySeq, SMT
<1>6. TagsTile'
  <2>1. ASSUME NEW i \in 1 .. Len(seen') PROVE Fills(seen[i], NextAt(i))'
    BY <1>3, <2>1 DEF Fills, BodySize, WasRead
  <2> QED
    BY <1>4, <2>1 DEF TagsTile
<1> QED
  BY <1>1, <1>2, <1>5, <1>6 DEF Held, Phases

LEMMA HeldStarts == Init => Held
<1> SUFFICES ASSUME Init PROVE Held
  OBVIOUS
<1>1. phase = "writing" /\ cut = FALSE /\ cursor = 0 /\ seen = <<>> /\ file = UI32(0)
  BY DEF Init
<1>2. 0 \in Nat /\ <<>> \in Seq(SeenTag) /\ \A i \in 1 .. Len(<<>>) : FALSE
  BY SMT
<1>3. UI32(0) \in Seq(Nat)
  BY <1>2, BytesOf32
<1> QED
  BY <1>1, <1>2, <1>3 DEF Held, TagsTile, Phases

LEMMA HeldStep == Held /\ [Next]_vars => Held'
<1> SUFFICES ASSUME Held, [Next]_vars PROVE Held'
  OBVIOUS
<1>1. file \in Seq(Nat) /\ Len(file) \in Nat
  BY LenProperties DEF Held
<1>2. ASSUME NEW x, x = <<>> PROVE ~(\E i \in 1 .. Len(x) : TRUE)
  BY <1>2, SMT
<1>3. ASSUME file' \in Seq(Nat), cut' \in BOOLEAN, phase' \in Phases \ {"reading"},
             cursor = 0, seen = <<>>, UNCHANGED <<cursor, seen>>,
             phase' \in {"writing", "refused"} => cut' = FALSE
      PROVE  Held'
  <2>1. 0 \in Nat /\ <<>> \in Seq(SeenTag)
    BY SMT
  <2> QED
    BY <1>2, <1>3, <2>1 DEF Held, TagsTile
<1>4. ASSUME NEW t \in Tags, WriteTag(t) PROVE Held'
  <2>1. /\ phase \in {"writing", "refused"} /\ Writable(t) /\ phase' = "writing"
        /\ file' = file \o Header(t) \o BodyOf(t) \o Trailer(t)
        /\ UNCHANGED <<cut, cursor, seen>>
    BY <1>4 DEF WriteTag
  <2>2. t \in Valid
    BY <2>1, TagsAssumption DEF Valid
  <2>3. Header(t) \in Seq(Nat) /\ BodyOf(t) \in Seq(Nat) /\ Trailer(t) \in Seq(Nat)
    BY <2>2, TagParts, Bodies
  <2>4. file \o Header(t) \in Seq(Nat)
    BY <1>1, <2>3, ConcatProperties
  <2>5. file \o Header(t) \o BodyOf(t) \in Seq(Nat)
    BY <2>3, <2>4, ConcatProperties
  <2>6. file' \in Seq(Nat)
    BY <2>1, <2>3, <2>5, ConcatProperties
  <2> QED
    BY <1>3, <2>1, <2>6 DEF Held, Phases
<1>5. ASSUME NEW t \in Tags, RefuseTag(t) PROVE Held'
  BY <1>1, <1>3, <1>5 DEF RefuseTag, Held, Phases
<1>6. ASSUME NEW m \in 0 .. Len(file), Deliver(m) PROVE Held'
  <2>1. /\ phase \in {"writing", "refused"} /\ phase' = "opening"
        /\ file' = SubSeq(file, 1, m) /\ cut' = (m < Len(file))
        /\ UNCHANGED <<cursor, seen>>
    BY <1>6 DEF Deliver
  <2>2. SubSeq(file, 1, m) \in Seq(Nat)
    BY <1>1, SMT
  <2> QED
    BY <1>3, <2>1, <2>2 DEF Held, Phases
<1>7. ASSUME NEW bytes \in Noise, Receive(bytes) PROVE Held'
  BY <1>3, <1>7, NoiseAssumption DEF Receive, Held, Phases
<1>8. CASE Open
  <2>1. /\ phase = "opening" /\ phase' \in {"reading", "failed"} /\ cursor' \in Nat
        /\ phase' = "reading" => cursor' = TrailerLength
        /\ UNCHANGED <<file, cut, seen>>
    BY <1>8, SMT DEF Open, Held, TrailerLength
  <2>2. seen = <<>>
    BY <2>1 DEF Held
  <2> QED
    BY <1>2, <2>1, <2>2 DEF Held, TagsTile, Phases
<1>9. CASE ReadTag
  <2> DEFINE x == [HeaderHere EXCEPT !.body =
                     SubSeq(file, cursor + HeaderLength + 1, cursor + HeaderLength + Size)]
  <2>1. /\ phase = "reading" /\ Left(HeaderLength) /\ BodyFits /\ TrailerFits
        /\ seen' = Append(seen, x) /\ cursor' = Past /\ UNCHANGED <<file, written, cut, phase>>
    BY <1>9 DEF ReadTag
  <2>2. HeaderHere \in SeenTag /\ HeaderHere.at = cursor /\ Size \in Nat
    BY <2>1, HeaderIsSeen
  <2>3. SubSeq(file, cursor + HeaderLength + 1, cursor + HeaderLength + Size) \in Seq(Nat)
    <3>1. cursor \in Nat /\ cursor + 11 + Size <= Len(file)
      <4>1. cursor + (11 + Size) <= Len(file) /\ cursor \in Nat
        BY <2>1 DEF BodyFits, Left, HeaderLength, Held
      <4> QED
        BY <1>1, <2>2, <4>1, SMT
    <3> QED
      BY <1>1, <2>2, <3>1, SMT DEF HeaderLength
  <2>4. /\ x \in SeenTag /\ x.at = cursor
        /\ x.body = SubSeq(file, cursor + HeaderLength + 1, cursor + HeaderLength + Size)
    BY <2>2, <2>3 DEF SeenTag
  <2>5. Past <= Len(file)
    <3>1. cursor + (11 + Size + 4) <= Len(file) /\ cursor \in Nat
      BY <2>1 DEF TrailerFits, Left, HeaderLength, TrailerLength, Held
    <3>2. cursor + 11 + Size + 4 <= Len(file)
      BY <1>1, <2>2, <3>1, SMT
    <3> QED
      BY <3>2 DEF Past, HeaderLength, TrailerLength
  <2> HIDE DEF x
  <2>6. Fills(x, Past)
    BY <2>1, <2>2, <2>4, <2>5, HeaderIsSeen DEF Fills, BodySize, Past, Size
  <2> QED
    BY <2>1, <2>4, <2>6, OneMoreSeen
<1>10. CASE SkipTag
  <2>1. /\ phase = "reading" /\ Left(HeaderLength)
        /\ seen' = Append(seen, HeaderHere) /\ cursor' = Past /\ UNCHANGED <<file, written, cut, phase>>
    BY <1>10 DEF SkipTag
  <2>2. HeaderHere \in SeenTag /\ HeaderHere.at = cursor
    BY <2>1, HeaderIsSeen
  <2>3. ~WasRead(HeaderHere)
    BY DEF HeaderHere, WasRead
  <2>4. Fills(HeaderHere, Past)
    BY <2>1, <2>2, <2>3, HeaderIsSeen DEF Fills, BodySize, Past, Size
  <2> QED
    BY <2>1, <2>2, <2>4, OneMoreSeen
<1>11. CASE PeekTag
  <2> DEFINE x == [HeaderHere EXCEPT !.lead = file[cursor + HeaderLength + 1]]
  <2>1. /\ phase = "reading" /\ Left(HeaderLength) /\ Left(HeaderLength + 1)
        /\ seen' = Append(seen, x) /\ cursor' = Past /\ UNCHANGED <<file, written, cut, phase>>
    BY <1>11 DEF PeekTag
  <2>2. HeaderHere \in SeenTag /\ HeaderHere.at = cursor
    BY <2>1, HeaderIsSeen
  <2>3. file[cursor + HeaderLength + 1] \in Nat
    <3>1. cursor \in Nat /\ cursor + (11 + 1) <= Len(file)
      BY <2>1 DEF Left, HeaderLength, Held
    <3>2. cursor + 11 + 1 \in 1 .. Len(file)
      BY <1>1, <3>1, SMT
    <3> QED
      BY <1>1, <3>2, ElementOfSeq DEF HeaderLength
  <2>4. x \in SeenTag /\ x.at = cursor
    BY <2>2, <2>3 DEF SeenTag
  <2>5. ~WasRead(x)
    BY DEF HeaderHere, WasRead
  <2> HIDE DEF x
  <2>6. Fills(x, Past)
    BY <2>1, <2>4, <2>5, HeaderIsSeen DEF Fills, BodySize, Past, Size
  <2> QED
    BY <2>1, <2>4, <2>6, OneMoreSeen
<1>12. CASE ReadEof \/ ReadFails
  <2>1. /\ phase = "reading" /\ phase' \in {"eof", "failed"}
        /\ UNCHANGED <<file, cut, cursor, seen>>
    BY <1>12 DEF ReadEof, ReadFails
  <2> QED
    BY <2>1 DEF Held, Phases, TagsTile, Fills, BodySize, NextAt
<1>13. CASE UNCHANGED vars
  BY <1>13 DEF vars, Held, TagsTile, Fills, BodySize, NextAt
<1> QED
  BY <1>4, <1>5, <1>6, <1>7, <1>8, <1>9, <1>10, <1>11, <1>12, <1>13 DEF Next, Write

(***************************************************************************)
(* EncryptionTagHeaders of any writer.                                     *)
(***************************************************************************)

\* A part of a part.
LEMMA PartOfPart ==
  ASSUME NEW f \in Seq(Nat), NEW a \in Nat, NEW m \in Nat, a + m <= Len(f),
         NEW s, s = SubSeq(f, a + 1, a + m),
         NEW c \in Nat, NEW n \in Nat, c + n <= m
  PROVE  /\ s \in Seq(Nat) /\ Len(s) = m
         /\ SubSeq(s, c + 1, c + n) = SubSeq(f, (a + c) + 1, (a + c) + n)
         /\ SubSeq(s, c + 1, c + n) \in Seq(Nat) /\ Len(SubSeq(s, c + 1, c + n)) = n
<1>1. Len(f) \in Nat /\ \A i \in 1 .. Len(f) : f[i] \in Nat
  BY LenProperties, ElementOfSeq
<1>2. ASSUME NEW g, NEW k \in Nat, NEW l \in Nat, \A i \in 1 .. l : g[k + i] \in Nat
      PROVE  /\ SubSeq(g, k + 1, k + l) \in Seq(Nat) /\ Len(SubSeq(g, k + 1, k + l)) = l
             /\ \A i \in 1 .. l : SubSeq(g, k + 1, k + l)[i] = g[k + i]
  <2>1. PICK p, q : p = k + 1 /\ q = k + l
    OBVIOUS
  <2>2. p \in Int /\ q \in Int /\ (IF p <= q THEN q - p + 1 ELSE 0) = l
    BY <2>1, SMT
  <2>3. ASSUME NEW i \in p .. q PROVE g[i] \in Nat
    <3>1. i - k \in 1 .. l /\ k + (i - k) = i
      BY <2>1, SMT
    <3> QED
      BY <1>2, <3>1
  <2>4. /\ SubSeq(g, p, q) \in Seq(Nat) /\ Len(SubSeq(g, p, q)) = l
        /\ \A i \in 1 .. l : SubSeq(g, p, q)[i] = g[p + i - 1]
    BY <2>2, <2>3, SubSeqProperties
  <2>5. \A i \in 1 .. l : p + i - 1 = k + i
    BY <2>1, SMT
  <2> QED
    BY <2>1, <2>4, <2>5
<1>3. \A i \in 1 .. m : a + i \in 1 .. Len(f)
  BY <1>1, SMT
<1>4. /\ s \in Seq(Nat) /\ Len(s) = m
      /\ \A i \in 1 .. m : s[i] = f[a + i] /\ s[i] \in Nat
  BY <1>1, <1>2, <1>3
<1>5. \A i \in 1 .. n : /\ c + i \in 1 .. m /\ a + (c + i) = (a + c) + i
                        /\ a + (c + i) \in 1 .. Len(f)
  BY <1>1, SMT
<1>6. a + c \in Nat
  BY SMT
<1>7. /\ SubSeq(s, c + 1, c + n) \in Seq(Nat) /\ Len(SubSeq(s, c + 1, c + n)) = n
      /\ \A i \in 1 .. n : SubSeq(s, c + 1, c + n)[i] = s[c + i]
  BY <1>2, <1>4, <1>5
<1>8. \A i \in 1 .. n : f[(a + c) + i] \in Nat /\ s[c + i] = f[(a + c) + i]
  BY <1>1, <1>4, <1>5
<1>9. /\ SubSeq(f, (a + c) + 1, (a + c) + n) \in Seq(Nat)
      /\ Len(SubSeq(f, (a + c) + 1, (a + c) + n)) = n
      /\ \A i \in 1 .. n : SubSeq(f, (a + c) + 1, (a + c) + n)[i] = f[(a + c) + i]
  BY <1>2, <1>6, <1>8
<1>10. \A i \in 1 .. n : SubSeq(s, c + 1, c + n)[i] = SubSeq(f, (a + c) + 1, (a + c) + n)[i]
  BY <1>7, <1>8, <1>9
<1> QED
  BY <1>4, <1>7, <1>9, <1>10, SeqEqual

\* Where FilterParams begin and end in a body that parses, and how long they are.
LEMMA ParsedParams ==
  ASSUME NEW b \in Seq(Nat), Parses(b)
  PROVE  /\ NameEnd(b) + 3 \in Nat /\ Consumed(b) \in Nat /\ Len(b) \in Nat
         /\ NameEnd(b) + 3 <= Consumed(b) /\ Consumed(b) <= Len(b)
         /\ ParamsOf(b) = SubSeq(b, (NameEnd(b) + 3) + 1, Consumed(b))
         /\ ParamsOf(b) \in Seq(Nat)
         /\ Len(ParamsOf(b)) = Consumed(b) - (NameEnd(b) + 3)
<1>1. NameEnd(b) # 0 /\ Len(b) >= NameEnd(b) + 3 /\ Len(b) >= Consumed(b)
  BY DEF Parses, ParamsFit
<1>2. NameEnd(b) \in 2 .. Len(b)
  BY <1>1 DEF NameEnd
<1>3. Len(b) \in Nat /\ \A i \in 1 .. Len(b) : b[i] \in Nat
  BY LenProperties, ElementOfSeq
<1>0. PICK e, n : e = NameEnd(b) /\ n = Len(b)
  OBVIOUS
<1>4. /\ e + 1 \in 1 .. n /\ e + 2 \in 1 .. n /\ e + 3 \in 1 .. n /\ e \in Nat /\ n \in Nat
      /\ e + 3 \in Nat /\ e + 4 = (e + 3) + 1
  <2>1. e \in 2 .. n /\ n \in Nat /\ n >= e + 3
    BY <1>0, <1>1, <1>2, <1>3
  <2> QED
    BY <2>1, SMT
<1>5. b[e + 1] \in Nat /\ b[e + 2] \in Nat /\ b[e + 3] \in Nat
  BY <1>0, <1>3, <1>4
<1>6. PICK l \in Nat : l = Number24(b, e)
  BY <1>5, Number24IsNat
<1>7. Consumed(b) = e + 3 + l
  BY <1>0, <1>6 DEF Consumed
<1>8. /\ e + 3 + l \in Nat /\ e + 3 <= e + 3 + l /\ e + 3 + l <= n /\ e + 3 + l = (e + 3) + l
      /\ (e + 3 + l) - (e + 3) = l
  <2>1. n >= e + 3 + l
    BY <1>0, <1>1, <1>7
  <2> QED
    BY <1>4, <2>1, SMT
<1>9. /\ SubSeq(b, (e + 3) + 1, (e + 3) + l) \in Seq(Nat)
      /\ Len(SubSeq(b, (e + 3) + 1, (e + 3) + l)) = l
  <2>1. 0 + n <= n /\ 0 \in Nat /\ 0 + 1 = 1 /\ 0 + n = n
    BY <1>4, SMT
  <2>2. b = SubSeq(b, 0 + 1, 0 + n) /\ 0 + n <= Len(b)
    BY <1>0, <2>1, SubSeqFull
  <2>3. PICK c \in Nat : c = e + 3
    BY <1>4
  <2>4. c + l <= n
    BY <1>8, <2>3
  <2>5. SubSeq(b, c + 1, c + l) \in Seq(Nat) /\ Len(SubSeq(b, c + 1, c + l)) = l
    BY <1>4, <2>1, <2>2, <2>4, PartOfPart
  <2> QED
    BY <2>3, <2>5
<1>10. ParamsOf(b) = SubSeq(b, (e + 3) + 1, Consumed(b))
  BY <1>0, <1>4 DEF ParamsOf
<1> QED
  BY <1>0, <1>3, <1>4, <1>7, <1>8, <1>9, <1>10

\* The vector is a part of the body, in front of the payload.
LEMMA ParsedVector ==
  ASSUME NEW b \in Seq(Nat), Parses(b)
  PROVE  /\ Parsed(b).encrypted <=> Parsed(b).iv # None
         /\ Parsed(b).iv # None =>
              \E c \in Nat : /\ c + IvLength <= Consumed(b)
                             /\ Parsed(b).iv = SubSeq(b, c + 1, c + IvLength)
<1> DEFINE q == ParamsOf(b)
           a == NameEnd(b) + 3
           m == Consumed(b) - a
<1>1. /\ a \in Nat /\ Consumed(b) \in Nat /\ Len(b) \in Nat /\ a <= Consumed(b) /\ Consumed(b) <= Len(b)
      /\ q = SubSeq(b, a + 1, Consumed(b)) /\ q \in Seq(Nat) /\ Len(q) = m
  BY ParsedParams
<1>2. m \in Nat /\ Consumed(b) = a + m /\ a + m <= Len(b)
  <2>1. ASSUME NEW x \in Nat, NEW y \in Nat, NEW z \in Nat, x <= y, y <= z
        PROVE  y - x \in Nat /\ y = x + (y - x) /\ x + (y - x) <= z
    BY <2>1, SMT
  <2> HIDE DEF q, a
  <2> QED
    BY <1>1, <2>1
<1>3. IvLength \in Nat
  BY WidthsAssumption
<1> HIDE DEF q, a, m
\* IvLength bytes behind the first k of FilterParams.
<1>4. ASSUME NEW k \in Nat, m >= k + IvLength
      PROVE  /\ SubSeq(q, k + 1, k + IvLength) # None
             /\ \E c \in Nat : /\ c + IvLength <= Consumed(b)
                               /\ SubSeq(q, k + 1, k + IvLength) = SubSeq(b, c + 1, c + IvLength)
  <2>1. k + IvLength <= m /\ a + k \in Nat /\ (a + k) + IvLength <= a + m
    BY <1>1, <1>2, <1>3, <1>4, SMT
  <2>2. /\ SubSeq(q, k + 1, k + IvLength) = SubSeq(b, (a + k) + 1, (a + k) + IvLength)
        /\ SubSeq(q, k + 1, k + IvLength) \in Seq(Nat)
        /\ Len(SubSeq(q, k + 1, k + IvLength)) = IvLength
    BY <1>1, <1>2, <1>3, <2>1, PartOfPart
  <2>3. SubSeq(q, k + 1, k + IvLength) # None
    BY <2>2, VectorsAreSomething
  <2> QED
    BY <1>2, <2>1, <2>2, <2>3
<1>5. CASE NameOf(b) = Encryption
  <2>1. /\ Parsed(b).encrypted = TRUE /\ Parsed(b).iv = SubSeq(q, 1, IvLength)
    BY <1>5 DEF Parsed, q
  <2>2. Len(q) >= IvLength
    BY <1>5, Names DEF Parses, q
  <2>3. 0 \in Nat /\ 0 + 1 = 1 /\ 0 + IvLength = IvLength
    BY <1>3, SMT
  <2>4. m >= 0 + IvLength
    BY <1>1, <2>2, <2>3
  <2>5. /\ SubSeq(q, 0 + 1, 0 + IvLength) # None
        /\ \E c \in Nat : /\ c + IvLength <= Consumed(b)
                          /\ SubSeq(q, 0 + 1, 0 + IvLength) = SubSeq(b, c + 1, c + IvLength)
    BY <1>4, <2>3, <2>4
  <2>6. Parsed(b).iv = SubSeq(q, 0 + 1, 0 + IvLength)
    BY <2>1, <2>3
  <2> QED
    BY <2>1, <2>5, <2>6
<1>6. CASE NameOf(b) # Encryption /\ IsFlagged(b)
  <2>1. Parsed(b).encrypted = TRUE /\ Parsed(b).iv = SubSeq(q, 2, 1 + IvLength)
    BY <1>6 DEF Parsed, q
  <2>2. Len(q) >= 1 + IvLength
    BY <1>6 DEF Parses, q
  <2>3. 1 \in Nat /\ 1 + 1 = 2
    BY SMT
  <2>4. m >= 1 + IvLength
    BY <1>1, <2>2
  <2>5. /\ SubSeq(q, 1 + 1, 1 + IvLength) # None
        /\ \E c \in Nat : /\ c + IvLength <= Consumed(b)
                          /\ SubSeq(q, 1 + 1, 1 + IvLength) = SubSeq(b, c + 1, c + IvLength)
    BY <1>4, <2>3, <2>4
  <2>6. Parsed(b).iv = SubSeq(q, 1 + 1, 1 + IvLength)
    BY <2>1, <2>3
  <2> QED
    BY <2>1, <2>5, <2>6
<1>7. CASE NameOf(b) # Encryption /\ ~IsFlagged(b)
  BY <1>7 DEF Parsed
<1> QED
  BY <1>5, <1>6, <1>7

LEMMA SizesAreNat ==
  ASSUME Held, NEW i \in 1 .. Len(seen)
  PROVE  BodySize(seen[i]) \in Nat
<1>1. /\ seen[i] \in SeenTag /\ seen[i].at + 11 <= Len(file)
      /\ Len(file) \in Nat /\ \A j \in 1 .. Len(file) : file[j] \in Nat
  <2>1. file \in Seq(Nat) /\ seen \in Seq(SeenTag)
    BY DEF Held
  <2> QED
    BY <2>1, LenProperties, ElementOfSeq DEF Held, TagsTile, Fills, HeaderLength
<1>2. PICK c \in Nat : c = seen[i].at
  BY <1>1 DEF SeenTag
<1>3. c + 1 + 1 \in 1 .. Len(file) /\ c + 1 + 2 \in 1 .. Len(file) /\ c + 1 + 3 \in 1 .. Len(file)
  <2>1. c + 11 <= Len(file) /\ Len(file) \in Nat
    BY <1>1, <1>2
  <2> QED
    BY <2>1, SMT
<1>4. file[c + 1 + 1] \in Nat /\ file[c + 1 + 2] \in Nat /\ file[c + 1 + 3] \in Nat
  BY <1>1, <1>3
<1> QED
  BY <1>2, <1>4, Number24IsNat DEF BodySize

LEMMA VectorFitsIn ==
  ASSUME file \in Seq(Nat), NEW x \in SeenTag, WasRead(x), Parses(x.body),
         BodySize(x) \in Nat, NEW next, Fills(x, next)
  PROVE  VectorFits(x, next)
<1>1. PICK b, h, n : b = x.body /\ h = x.at + 11 /\ n = BodySize(x)
  OBVIOUS
<1>2. b \in Seq(Nat) /\ Parses(b) /\ h \in Nat /\ n \in Nat /\ Len(file) \in Nat
  <2>1. x.body \in Seq(Nat) /\ x.at \in Nat
    BY DEF SeenTag, WasRead
  <2> QED
    BY <1>1, <2>1, LenProperties, SMT
<1>3. next = h + n + 4 /\ next <= Len(file) /\ b = SubSeq(file, h + 1, h + n)
  BY <1>1 DEF Fills, HeaderLength, TrailerLength
<1>4. h + n <= Len(file)
  BY <1>2, <1>3, SMT
<1>5. Len(b) = n
  <2>1. 0 \in Nat /\ 0 + 0 <= n
    BY <1>2, SMT
  <2> QED
    BY <1>2, <1>3, <1>4, <2>1, PartOfPart
<1>6. PICK m \in Nat : m = Consumed(b) /\ m <= n
  BY <1>2, <1>5, ParsedParams
<1>7. PayloadAt(x) = h + m
  BY <1>1, <1>6 DEF PayloadAt, HeaderLength
<1>8. PayloadAt(x) <= next - TrailerLength
  <2>1. h + m <= (h + n + 4) - 4
    BY <1>2, <1>6, SMT
  <2> QED
    BY <1>3, <1>7, <2>1 DEF TrailerLength
<1>9. ASSUME Parsed(b).iv # None
      PROVE  /\ Len(Parsed(b).iv) = IvLength
             /\ \E c \in h .. (h + m) - IvLength : Parsed(b).iv = SubSeq(file, c + 1, c + IvLength)
  <2>1. PICK c \in Nat : c + IvLength <= m /\ Parsed(b).iv = SubSeq(b, c + 1, c + IvLength)
    BY <1>2, <1>6, <1>9, ParsedVector
  <2>2. IvLength \in Nat
    BY WidthsAssumption
  <2>3. c + IvLength <= n /\ h + c \in h .. (h + m) - IvLength
    BY <1>2, <1>6, <2>1, <2>2, SMT
  <2>4. /\ SubSeq(b, c + 1, c + IvLength) = SubSeq(file, (h + c) + 1, (h + c) + IvLength)
        /\ Len(SubSeq(b, c + 1, c + IvLength)) = IvLength
    BY <1>2, <1>3, <1>4, <2>2, <2>3, PartOfPart
  <2> QED
    BY <2>1, <2>3, <2>4
<1>10. Parsed(b).encrypted <=> Parsed(b).iv # None
  BY <1>2, ParsedVector
<1> QED
  BY <1>1, <1>7, <1>8, <1>9, <1>10 DEF VectorFits, HeaderLength

(***************************************************************************)
(* On any bytes: the tags that the reader comes past tile the file, and    *)
(* what an EncryptionTagHeader says of its payload is inside of its body.  *)
(***************************************************************************)
THEOREM TagsDoNotOverlap == Spec => []TypeOK
<1>1. Held => TypeOK
  <2> SUFFICES ASSUME Held PROVE TypeOK
    OBVIOUS
  <2>1. ASSUME NEW i \in 1 .. Len(seen), WasRead(seen[i]), Parses(seen[i].body)
        PROVE  VectorFits(seen[i], NextAt(i))
    <3>1. file \in Seq(Nat) /\ seen \in Seq(SeenTag)
      BY DEF Held
    <3>2. seen[i] \in SeenTag
      BY <3>1, ElementOfSeq
    <3>3. Fills(seen[i], NextAt(i))
      BY DEF Held, TagsTile
    <3> QED
      BY <2>1, <3>1, <3>2, <3>3, SizesAreNat, VectorFitsIn
  <2> QED
    BY <2>1 DEF TypeOK, VectorsFit, Held
<1> QED
  BY <1>1, HeldStarts, HeldStep, PTL DEF Spec

(***************************************************************************)
(* Writer and reader in step.  full is the file as it was written, ends[i] *)
(* is where the tag i begins in it, and the one behind the last its end.   *)
(***************************************************************************)
Framed(full, ends) ==
  /\ full \in Seq(Nat) /\ Len(full) >= 4 /\ Number32(full, 0) = 0
  /\ ends \in Seq(Nat) /\ Len(ends) = Len(written) + 1
  /\ ends[1] = 4 /\ ends[Len(written) + 1] = Len(full)
  /\ \A i \in 1 .. Len(written) :
       /\ ends[i + 1] = ends[i] + 15 + Len(BodyOf(written[i]))
       /\ ends[i + 1] <= Len(full)
       /\ Stands(Whole(written[i]), full, ends[i])

\* What there is of it.
Arrived(full) ==
  /\ Len(file) <= Len(full)
  /\ \A i \in 1 .. Len(file) : file[i] = full[i]
  /\ ~cut => file = full

Passed(ends) ==
  /\ Len(seen) <= Len(written)
  /\ phase \in {"reading", "eof"} => cursor = ends[Len(seen) + 1]
  /\ \A i \in 1 .. Len(seen) :
       /\ seen[i].at = ends[i]
       /\ Matches(seen[i], written[i]) /\ CipherMatches(seen[i], written[i])
  /\ phase \in {"reading", "eof"} /\ seen # <<>> /\ WasRead(seen[Len(seen)]) => cursor <= Len(file)
  /\ phase = "eof" => cursor >= Len(file)
  /\ ~cut => phase # "failed"
  /\ ~cut /\ phase = "eof" => Len(seen) = Len(written)

InStep ==
  /\ written \in Seq(Valid)
  /\ \E full, ends : Framed(full, ends) /\ Arrived(full) /\ Passed(ends)

IInv == Held /\ (phase \in {"writing", "refused"} \/ IsOurs => InStep)

\* Tags begin behind each other.
LEMMA EndsGrow ==
  ASSUME written \in Seq(Valid), NEW full, NEW ends, Framed(full, ends),
         NEW k \in 0 .. Len(written)
  PROVE  /\ ends[k + 1] \in Nat /\ ends[k + 1] >= 4 /\ ends[k + 1] <= Len(full)
         /\ ends[k + 1] < Len(full) => k < Len(written)
<1>1. Len(written) \in Nat /\ Len(full) \in Nat
  BY LenProperties DEF Framed
<1>2. ends[k + 1] \in Nat
  <2>1. k + 1 \in 1 .. Len(ends)
    BY <1>1, SMT DEF Framed
  <2> QED
    BY <2>1, ElementOfSeq DEF Framed
<1>3. ends[k + 1] >= 4 /\ ends[k + 1] <= Len(full)
  <2>1. CASE k = 0
    BY <1>1, <2>1, SMT DEF Framed
  <2>2. CASE k # 0
    <3>1. k \in 1 .. Len(written) /\ k \in 1 .. Len(ends)
      BY <1>1, <2>2, SMT DEF Framed
    <3>2. written[k] \in Valid /\ ends[k] \in Nat
      BY <3>1, ElementOfSeq DEF Framed
    <3>3. Len(BodyOf(written[k])) \in Nat
      BY <3>2, Bodies
    <3>4. ends[k + 1] = ends[k] + 15 + Len(BodyOf(written[k])) /\ ends[k + 1] <= Len(full)
      BY <3>1 DEF Framed
    <3> QED
      BY <3>2, <3>3, <3>4, SMT
  <2> QED
    BY <2>1, <2>2
<1>4. ASSUME ends[k + 1] < Len(full) PROVE k < Len(written)
  <2>1. k # Len(written)
    BY <1>1, <1>2, <1>4, SMT DEF Framed
  <2> QED
    BY <1>1, <2>1, SMT
<1> QED
  BY <1>2, <1>3, <1>4

\* What the reader finds where a tag of the writer begins, if its header arrived.
LEMMA FoundAgain ==
  ASSUME Held, written \in Seq(Valid), NEW full, NEW ends,
         Framed(full, ends), Arrived(full), Passed(ends),
         phase = "reading", Left(HeaderLength), NEW k, k = Len(seen)
  PROVE  /\ k < Len(written) /\ written[k + 1] \in Valid /\ k + 1 \in 1 .. Len(written)
         /\ Size = Len(BodyOf(written[k + 1])) /\ Past = ends[k + 2]
         /\ HeaderHere.at = ends[k + 1]
         /\ HeaderHere.lead = None /\ HeaderHere.body = None
         /\ Matches(HeaderHere, written[k + 1])
         /\ Left(HeaderLength + 1) /\ Size > 0 =>
              /\ BodyOf(written[k + 1]) # <<>>
              /\ file[cursor + HeaderLength + 1] = BodyOf(written[k + 1])[1]
         /\ BodyFits => SubSeq(file, cursor + HeaderLength + 1, cursor + HeaderLength + Size)
                          = BodyOf(written[k + 1])
<1>0. PICK c, t, size : c = ends[k + 1] /\ t = written[k + 1] /\ size = Len(BodyOf(t))
  OBVIOUS
<1>1. /\ Len(seen) \in Nat /\ Len(written) \in Nat /\ Len(file) \in Nat /\ Len(full) \in Nat
      /\ k \in 0 .. Len(written) /\ cursor = c /\ cursor \in Nat
  <2>1. seen \in Seq(SeenTag) /\ file \in Seq(Nat) /\ full \in Seq(Nat) /\ cursor \in Nat
    BY DEF Held, Framed
  <2>2. Len(seen) \in Nat /\ Len(written) \in Nat /\ Len(file) \in Nat /\ Len(full) \in Nat
    BY <2>1, LenProperties
  <2>3. Len(seen) <= Len(written) /\ cursor = c
    BY <1>0 DEF Passed
  <2> QED
    BY <2>1, <2>2, <2>3, SMT
<1>2. c + 11 <= Len(file) /\ Len(file) <= Len(full) /\ \A i \in 1 .. Len(file) : file[i] = full[i]
  BY <1>1 DEF Left, HeaderLength, Arrived
<1>3. k < Len(written)
  <2>1. c < Len(full)
    BY <1>1, <1>2, SMT
  <2> QED
    BY <1>0, <1>1, <2>1, EndsGrow
<1>4. k + 1 \in 1 .. Len(written)
  BY <1>1, <1>3, SMT
<1>5. t \in Valid
  BY <1>0, <1>4, ElementOfSeq
<1>6. /\ ends[k + 1 + 1] = c + 15 + size /\ Stands(Whole(t), full, c)
  BY <1>0, <1>4 DEF Framed
<1>7. /\ full[c + 1] = KindNumber[t.kind] + (IF t.preamble = None THEN 0 ELSE FilterBit)
      /\ Number24(full, c + 1) = size
      /\ Number24(full, c + 4) = t.ts % (UI24Max + 1)
      /\ full[c + 8] = t.ts \div (UI24Max + 1)
      /\ Number24(full, c + 8) = t.stream
      /\ Stands(BodyOf(t), full, c + 11)
  <2>1. c \in Nat /\ Stands(Whole(t), full, c)
    BY <1>1, <1>6
  <2>2. /\ full[c + 1] = KindNumber[t.kind] + (IF t.preamble = None THEN 0 ELSE FilterBit)
        /\ Number24(full, c + 1) = Len(BodyOf(t))
        /\ Number24(full, c + 4) = t.ts % (UI24Max + 1)
        /\ full[c + 8] = t.ts \div (UI24Max + 1)
        /\ Number24(full, c + 8) = t.stream
        /\ Stands(BodyOf(t), full, c + 11)
    BY <1>5, <2>1, TagParts, ZenonT(30)
  <2> QED
    BY <1>0, <2>2
<1>8. /\ size \in Nat /\ BodyOf(t) \in Seq(Nat) /\ t.kind \in DOMAIN KindNumber /\ t.ts \in Nat
  BY <1>0, <1>5, Bodies
<1>9. ASSUME NEW i \in 1 .. 11 PROVE file[c + i] = full[c + i]
  <2>1. c + i \in 1 .. Len(file)
    BY <1>1, <1>2, SMT
  <2> QED
    BY <1>2, <2>1
<1>10. ASSUME NEW i \in 0 .. 8 PROVE Number24(file, c + i) = Number24(full, c + i)
  <2>1. /\ i + 1 \in 1 .. 11 /\ i + 2 \in 1 .. 11 /\ i + 3 \in 1 .. 11
        /\ c + i + 1 = c + (i + 1) /\ c + i + 2 = c + (i + 2) /\ c + i + 3 = c + (i + 3)
    BY <1>1, SMT
  <2>2. /\ file[c + i + 1] = full[c + i + 1] /\ file[c + i + 2] = full[c + i + 2]
        /\ file[c + i + 3] = full[c + i + 3]
    BY <1>9, <2>1
  <2> QED
    BY <2>2 DEF Number24
<1>11. 1 \in 0 .. 8 /\ 4 \in 0 .. 8 /\ 8 \in 0 .. 8 /\ 1 \in 1 .. 11 /\ 8 \in 1 .. 11
  BY SMT
<1>12. Size = size
  BY <1>1, <1>7, <1>10, <1>11 DEF Size
<1>13. Past = ends[k + 2]
  <2>1. k + 1 + 1 = k + 2 /\ c + 11 + size + 4 = c + 15 + size
    BY <1>1, <1>8, SMT
  <2> QED
    BY <1>1, <1>6, <1>12, <2>1 DEF Past, HeaderLength, TrailerLength
<1>14. KindAt(cursor) = t.kind /\ ((file[cursor + 1] \div FilterBit) % 2 = 1 <=> t.preamble # None)
  <2>1. /\ file[cursor + 1] = KindNumber[t.kind] + (IF t.preamble = None THEN 0 ELSE 32)
        /\ t.kind \in {"audio", "video", "script"}
    BY <1>1, <1>7, <1>8, <1>9, <1>11 DEF FilterBit, KindNumber
  <2>2. /\ KindNumber["audio"] = 8 /\ KindNumber["video"] = 9 /\ KindNumber["script"] = 18
        /\ DOMAIN KindNumber = {"audio", "video", "script"}
    BY DEF KindNumber
  <2>3. file[cursor + 1] % 32 = KindNumber[t.kind]
    BY <2>1, <2>2, SMT
  <2>4. (file[cursor + 1] \div 32) % 2 = 1 <=> t.preamble # None
    BY <2>1, <2>2, SMT
  <2>5. \A j \in DOMAIN KindNumber : KindNumber[j] = KindNumber[t.kind] => j = t.kind
    BY <2>1, <2>2, SMT
  <2>6. KindAt(cursor) = t.kind
    BY <1>8, <2>3, <2>5 DEF KindAt
  <2> QED
    BY <2>4, <2>6 DEF FilterBit
<1>15. /\ (UI24Max + 1) * file[cursor + 8] + Number24(file, cursor + 4) = t.ts
       /\ Number24(file, cursor + 8) = t.stream
  <2>1. UI24Max + 1 \in Nat /\ UI24Max + 1 > 0
    BY Limits, SMT
  <2>2. (UI24Max + 1) * (t.ts \div (UI24Max + 1)) + (t.ts % (UI24Max + 1)) = t.ts
    BY <1>8, <2>1, Division
  <2>3. file[cursor + 8] = full[c + 8] /\ Number24(file, cursor + 4) = Number24(full, c + 4)
    BY <1>1, <1>9, <1>10, <1>11
  <2>4. Number24(file, cursor + 8) = Number24(full, c + 8)
    BY <1>1, <1>10, <1>11
  <2> QED
    BY <1>7, <2>2, <2>3, <2>4
<1>16. /\ HeaderHere.at = c /\ HeaderHere.lead = None /\ HeaderHere.body = None
       /\ Matches(HeaderHere, t)
  BY <1>1, <1>14, <1>15 DEF HeaderHere, Matches
<1>17. ASSUME Left(HeaderLength + 1), Size > 0
       PROVE  BodyOf(t) # <<>> /\ file[cursor + HeaderLength + 1] = BodyOf(t)[1]
  <2>1. size # 0 /\ 1 \in 1 .. size /\ c + 11 + 1 \in 1 .. Len(file)
    <3>1. size > 0 /\ c + (11 + 1) <= Len(file)
      BY <1>1, <1>12, <1>17 DEF Left, HeaderLength
    <3> QED
      BY <1>1, <1>8, <3>1, SMT
  <2>2. file[c + 11 + 1] = full[c + 11 + 1] /\ full[c + 11 + 1] = BodyOf(t)[1]
    BY <1>0, <1>2, <1>7, <2>1 DEF Stands
  <2> QED
    BY <1>0, <1>1, <1>8, <2>1, <2>2, EmptySeq DEF HeaderLength
<1>18. ASSUME BodyFits
       PROVE  SubSeq(file, cursor + HeaderLength + 1, cursor + HeaderLength + Size) = BodyOf(t)
  <2>1. c + 11 \in Nat /\ c + 11 + size <= Len(file)
    <3>1. c + (11 + size) <= Len(file)
      BY <1>1, <1>12, <1>18 DEF BodyFits, Left, HeaderLength
    <3> QED
      BY <1>1, <1>8, <3>1, SMT
  <2>2. ASSUME NEW i \in 1 .. size PROVE file[c + 11 + i] = BodyOf(t)[i]
    <3>1. c + 11 + i \in 1 .. Len(file)
      BY <1>1, <1>8, <2>1, SMT
    <3> QED
      BY <1>0, <1>2, <1>7, <3>1 DEF Stands
  <2>3. Stands(BodyOf(t), file, c + 11)
    BY <1>0, <2>2 DEF Stands
  <2>4. SubSeq(file, (c + 11) + 1, (c + 11) + size) = BodyOf(t)
    BY <1>0, <1>8, <2>1, <2>3, SubSeqStands
  <2> QED
    BY <1>1, <1>12, <2>4 DEF HeaderLength
<1> QED
  BY <1>0, <1>3, <1>4, <1>5, <1>12, <1>13, <1>16, <1>17, <1>18

LEMMA InStepStarts == Init => InStep
<1> SUFFICES ASSUME Init PROVE InStep
  OBVIOUS
<1>1. /\ file = UI32(0) /\ written = <<>> /\ seen = <<>> /\ phase = "writing" /\ cut = FALSE
  BY DEF Init
<1>2. 0 \in Nat /\ 4 \in Nat /\ <<>> \in Seq(Valid) /\ Len(<<>>) = 0 /\ 0 + 1 = 1 /\ 4 >= 4
  BY SMT
<1>3. /\ UI32(0) \in Seq(Nat) /\ Len(UI32(0)) = 4 /\ Number32(UI32(0), 0) = 0
  BY <1>2, BytesOf32, StandsInItself
<1>4. <<4>> \in Seq(Nat) /\ Len(<<4>>) = 1 /\ <<4>>[1] = 4
  BY <1>2, Single
<1>5. ASSUME NEW i \in 1 .. 0 PROVE FALSE
  BY <1>5, SMT
<1>6. Framed(file, <<4>>)
  BY <1>1, <1>2, <1>3, <1>4, <1>5 DEF Framed
<1>7. Len(file) <= Len(file)
  BY <1>1, <1>3, SMT
<1>8. Arrived(file)
  BY <1>7 DEF Arrived
<1>9. Passed(<<4>>)
  <2>1. Len(seen) = 0 /\ Len(written) = 0 /\ 0 <= 0
    BY <1>1, <1>2, SMT
  <2> QED
    BY <1>1, <1>5, <2>1 DEF Passed
<1> QED
  BY <1>1, <1>2, <1>6, <1>8, <1>9 DEF InStep

\* While nothing is read, only the file and the tags matter.
LEMMA NothingSeen ==
  ASSUME seen' = <<>>, phase' \in {"writing", "refused", "opening"}, written' \in Seq(Valid),
         NEW ends
  PROVE  Passed(ends)'
<1>1. Len(seen') = 0 /\ Len(written') \in Nat /\ ~(\E i \in 1 .. Len(seen') : TRUE)
  BY LenProperties, SMT
<1>2. Len(seen') <= Len(written')
  BY <1>1, SMT
<1> QED
  BY <1>1, <1>2 DEF Passed

\* A tag is put behind the others.
LEMMA Appending ==
  ASSUME Held, InStep, NEW t \in Tags, WriteTag(t)
  PROVE  InStep'
<1>1. /\ phase \in {"writing", "refused"} /\ Writable(t) /\ phase' = "writing"
      /\ file' = file \o Header(t) \o BodyOf(t) \o Trailer(t)
      /\ written' = Append(written, t)
      /\ UNCHANGED <<cut, cursor, seen>>
  BY DEF WriteTag
<1>2. t \in Valid
  BY <1>1, TagsAssumption DEF Valid
<1>3. cut = FALSE /\ seen = <<>> /\ file \in Seq(Nat)
  BY <1>1 DEF Held
<1>4. PICK full, ends : Framed(full, ends) /\ Arrived(full) /\ Passed(ends)
  BY DEF InStep
<1>5. file = full
  BY <1>3, <1>4 DEF Arrived
<1>6. /\ written \in Seq(Valid) /\ Len(written) \in Nat
      /\ written' \in Seq(Valid) /\ Len(written') = Len(written) + 1
      /\ \A i \in 1 .. Len(written) : written'[i] = written[i]
      /\ written'[Len(written) + 1] = t
  <2>1. written \in Seq(Valid)
    BY DEF InStep
  <2> QED
    BY <1>1, <1>2, <2>1, AppendProperties, LenProperties
<1>7. file' = file \o Whole(t)
  <2>1. Header(t) \in Seq(Nat) /\ BodyOf(t) \in Seq(Nat) /\ Trailer(t) \in Seq(Nat)
    BY <1>2, TagParts, Bodies
  <2>2. \A h, b, r \in Seq(Nat) : ((file \o h) \o b) \o r = file \o ((h \o b) \o r)
    BY <1>3, Regrouped
  <2>3. ((file \o Header(t)) \o BodyOf(t)) \o Trailer(t) = file \o ((Header(t) \o BodyOf(t)) \o Trailer(t))
    BY <2>1, <2>2
  <2> QED
    BY <1>1, <2>3 DEF Whole
<1>8. /\ Whole(t) \in Seq(Nat) /\ Len(Whole(t)) = 15 + Len(BodyOf(t)) /\ Len(BodyOf(t)) \in Nat
  BY <1>2, TagParts, Bodies
<1> DEFINE n == Len(written)
           l == Len(file)
<1>0. PICK now, e : now = file' /\ e = Append(ends, Len(file'))
  OBVIOUS
<1>9. /\ file' \in Seq(Nat) /\ l \in Nat /\ Len(file') = l + 15 + Len(BodyOf(t))
      /\ \A i \in 1 .. l : file'[i] = file[i]
      /\ Stands(Whole(t), file', l)
  <2>1. /\ file' \in Seq(Nat) /\ l \in Nat /\ Len(file') = l + Len(Whole(t))
        /\ \A i \in 1 .. l : file'[i] = file[i]
        /\ \A i \in 1 .. Len(Whole(t)) : file'[l + i] = Whole(t)[i]
    BY <1>3, <1>7, <1>8, Concat
  <2>2. l + (15 + Len(BodyOf(t))) = l + 15 + Len(BodyOf(t))
    BY <1>8, <2>1, SMT
  <2> QED
    BY <1>8, <2>1, <2>2 DEF Stands
<1>10. /\ ends \in Seq(Nat) /\ Len(ends) = n + 1 /\ ends[1] = 4 /\ ends[n + 1] = l /\ l >= 4
       /\ Number32(file, 0) = 0
       /\ \A i \in 1 .. n :
            /\ ends[i + 1] = ends[i] + 15 + Len(BodyOf(written[i]))
            /\ ends[i + 1] <= l
            /\ Stands(Whole(written[i]), file, ends[i])
  BY <1>4, <1>5 DEF Framed
<1>11. Len(file') \in Nat /\ Len(file') >= l /\ Len(file') >= 4 /\ Len(file') <= Len(file')
  BY <1>8, <1>9, <1>10, SMT
<1>12. /\ e \in Seq(Nat) /\ Len(e) = n + 1 + 1 /\ \A i \in 1 .. n + 1 : e[i] = ends[i]
       /\ e[n + 1 + 1] = Len(file')
  <2>1. /\ e \in Seq(Nat) /\ Len(e) = Len(ends) + 1 /\ \A i \in 1 .. Len(ends) : e[i] = ends[i]
        /\ e[Len(ends) + 1] = Len(file')
    BY <1>0, <1>10, <1>11, AppendProperties
  <2> QED
    BY <1>10, <2>1
<1>13. ASSUME NEW i \in 1 .. n + 1
       PROVE  /\ e[i + 1] = e[i] + 15 + Len(BodyOf(written'[i]))
              /\ e[i + 1] <= Len(file')
              /\ Stands(Whole(written'[i]), file', e[i])
  <2>1. CASE i = n + 1
    BY <1>6, <1>9, <1>10, <1>11, <1>12, <2>1
  <2>2. CASE i # n + 1
    <3>1. i \in 1 .. n /\ i \in 0 .. n /\ i - 1 \in 0 .. n /\ i + 1 \in 1 .. n + 1 /\ (i - 1) + 1 = i
      BY <1>6, <2>2, SMT
    <3>2. /\ e[i + 1] = e[i] + 15 + Len(BodyOf(written'[i])) /\ ends[i + 1] <= l
          /\ Stands(Whole(written[i]), file, ends[i])
      BY <1>6, <1>10, <1>12, <3>1
    <3>3. ends[i] \in Nat /\ ends[i + 1] \in Nat
      BY <1>4, <1>6, <3>1, EndsGrow
    <3>4. e[i + 1] <= Len(file')
      <4>1. e[i + 1] = ends[i + 1]
        BY <1>12, <3>1
      <4> DEFINE b == ends[i + 1]
                 m == Len(file')
      <4>2. b \in Nat /\ m \in Nat /\ l \in Nat /\ b <= l /\ l <= m
        BY <1>9, <1>11, <3>2, <3>3
      <4> HIDE DEF b, m, l
      <4>3. b <= m
        BY <4>2, SMT
      <4> QED
        BY <4>1, <4>3 DEF b, m
    <3>5. Stands(Whole(written[i]), file', ends[i])
      <4>1. written[i] \in Valid
        BY <1>6, <3>1, ElementOfSeq
      <4>2. Len(Whole(written[i])) = 15 + Len(BodyOf(written[i])) /\ Len(BodyOf(written[i])) \in Nat
        BY <4>1, TagParts, Bodies
      <4>3. ends[i + 1] = ends[i] + 15 + Len(BodyOf(written[i]))
        BY <1>10, <3>1
      <4>4. ASSUME NEW j \in 1 .. Len(Whole(written[i])) PROVE ends[i] + j \in 1 .. l
        <5> DEFINE a == ends[i]
                   b == ends[i + 1]
                   w == Len(BodyOf(written[i]))
        <5>1. /\ a \in Nat /\ b \in Nat /\ w \in Nat /\ b = a + 15 + w /\ b <= l /\ l \in Nat
              /\ j \in 1 .. 15 + w
          BY <1>9, <3>2, <3>3, <4>2, <4>3
        <5> HIDE DEF a, b, w, l
        <5>2. a + j \in 1 .. l
          BY <5>1, SMT
        <5> QED
          BY <5>2 DEF a
      <4> QED
        BY <1>9, <3>2, <4>4 DEF Stands
    <3> QED
      BY <1>6, <1>12, <3>1, <3>2, <3>4, <3>5
  <2> QED
    BY <2>1, <2>2
<1>14. Number32(file', 0) = 0
  <2>1. /\ 0 + 1 \in 1 .. l /\ 0 + 1 + 1 \in 1 .. l /\ 0 + 1 + 2 \in 1 .. l /\ 0 + 1 + 3 \in 1 .. l
    BY <1>9, <1>10, SMT
  <2>2. Number32(file', 0) = Number32(file, 0)
    BY <1>9, <2>1 DEF Number32, Number24
  <2> QED
    BY <1>10, <2>2
<1>15. Framed(now, e)'
  <2>1. 1 \in 1 .. n + 1
    BY <1>6, SMT
  <2>2. e[1] = 4
    BY <1>10, <1>12, <2>1
  <2> QED
    BY <1>0, <1>6, <1>9, <1>11, <1>12, <1>13, <1>14, <2>2 DEF Framed
<1>16. Arrived(now)'
  BY <1>0, <1>11 DEF Arrived
<1>17. Passed(e)'
  BY <1>1, <1>3, <1>6, NothingSeen
<1>18. \E f, g : Framed(f, g)' /\ Arrived(f)' /\ Passed(g)'
  BY <1>15, <1>16, <1>17
<1> QED
  BY <1>6, <1>18 DEF InStep

\* What does not touch the tags nor the file leaves the frame as it is.
LEMMA SameFrame ==
  ASSUME NEW full, NEW ends, Framed(full, ends), Arrived(full), UNCHANGED <<file, written, cut>>
  PROVE  Framed(full, ends)' /\ Arrived(full)'
BY DEF Framed, Arrived

\* The file is handed over, whole or cut.
LEMMA Delivering ==
  ASSUME Held, InStep, NEW m \in 0 .. Len(file), Deliver(m)
  PROVE  InStep'
<1>1. /\ phase \in {"writing", "refused"} /\ phase' = "opening"
      /\ file' = SubSeq(file, 1, m) /\ cut' = (m < Len(file))
      /\ UNCHANGED <<written, cursor, seen>>
  BY DEF Deliver
<1>2. cut = FALSE /\ seen = <<>> /\ file \in Seq(Nat) /\ Len(file) \in Nat
  BY <1>1, LenProperties DEF Held
<1>3. PICK full, ends : Framed(full, ends) /\ Arrived(full) /\ Passed(ends)
  BY DEF InStep
<1>4. file = full
  BY <1>2, <1>3 DEF Arrived
<1>5. Framed(full, ends)'
  BY <1>1, <1>3 DEF Framed
<1>6. Arrived(full)'
  <2>1. Len(SubSeq(file, 1, m)) = m /\ \A i \in 1 .. m : SubSeq(file, 1, m)[i] = file[i]
    BY <1>2, SMT
  <2>2. m <= Len(file) /\ (~(m < Len(file)) => m = Len(file))
    BY <1>2, SMT
  <2>3. SubSeq(file, 1, Len(file)) = file
    BY <1>2, SubSeqFull
  <2> QED
    BY <1>1, <1>4, <2>1, <2>2, <2>3 DEF Arrived
<1>7. written \in Seq(Valid)
  BY DEF InStep
<1>8. Passed(ends)'
  BY <1>1, <1>2, <1>7, NothingSeen
<1> QED
  BY <1>1, <1>5, <1>6, <1>7, <1>8 DEF InStep

LEMMA Opening ==
  ASSUME Held, InStep, Open
  PROVE  InStep'
<1>1. /\ phase = "opening"
      /\ phase' = IF Left(TrailerLength) THEN "reading" ELSE "failed"
      /\ cursor' = IF Left(TrailerLength) THEN cursor + TrailerLength ELSE cursor
      /\ UNCHANGED <<file, written, cut, seen>>
  BY DEF Open
<1>2. cursor = 0 /\ seen = <<>> /\ cut \in BOOLEAN
  BY <1>1 DEF Held
<1>3. PICK full, ends : Framed(full, ends) /\ Arrived(full) /\ Passed(ends)
  BY DEF InStep
<1>4. Framed(full, ends)' /\ Arrived(full)'
  BY <1>1, <1>3, SameFrame
<1>5. Left(TrailerLength) <=> 4 <= Len(file)
  BY <1>2, SMT DEF Left, TrailerLength
<1>6. ~cut => Left(TrailerLength)
  <2>1. Len(full) >= 4
    BY <1>3 DEF Framed
  <2> QED
    BY <1>3, <1>5, <2>1, SMT DEF Arrived
<1>7. Passed(ends)'
  <2>1. Len(seen) = 0 /\ 0 + 1 = 1 /\ ends[1] = 4 /\ Len(seen) <= Len(written)
    BY <1>2, <1>3, SMT DEF Framed, Passed
  <2>2. phase' = "reading" => cursor' = 4
    BY <1>1, <1>2, SMT DEF TrailerLength
  <2>3. ~(\E i \in 1 .. Len(seen) : TRUE)
    BY <2>1, SMT
  <2>4. phase' \in {"reading", "failed"} /\ (~cut' => phase' # "failed")
    BY <1>1, <1>6
  <2>5. phase' # "eof" /\ (phase' \in {"reading", "eof"} => phase' = "reading")
    BY <2>4
  <2> QED
    BY <1>1, <1>2, <2>1, <2>2, <2>3, <2>4, <2>5 DEF Passed
<1>8. written' \in Seq(Valid)
  BY <1>1 DEF InStep
<1> QED
  BY <1>4, <1>7, <1>8 DEF InStep

\* One more tag of the writer has been passed, with what x says of it.
LEMMA OneMoreFound ==
  ASSUME Held, written \in Seq(Valid), NEW full, NEW ends,
         Framed(full, ends), Arrived(full), Passed(ends),
         phase = "reading", Left(HeaderLength),
         NEW x \in SeenTag, x.at = HeaderHere.at,
         Matches(x, written[Len(seen) + 1]),
         WasRead(x) => Past <= Len(file),
         seen' = Append(seen, x), cursor' = Past, UNCHANGED <<file, written, cut, phase>>
  PROVE  InStep'
<1>1. /\ Len(seen) < Len(written) /\ written[Len(seen) + 1] \in Valid
      /\ Past = ends[Len(seen) + 2] /\ HeaderHere.at = ends[Len(seen) + 1]
  BY FoundAgain
<1>2. /\ seen \in Seq(SeenTag) /\ Len(seen) \in Nat /\ seen' \in Seq(SeenTag)
      /\ Len(seen') = Len(seen) + 1
      /\ \A i \in 1 .. Len(seen) : seen'[i] = seen[i]
      /\ seen'[Len(seen) + 1] = x
  BY AppendProperties, LenProperties DEF Held
<1>3. Len(written) \in Nat
  BY LenProperties
<1>4. Len(seen') <= Len(written) /\ Len(seen') + 1 = Len(seen) + 2
  BY <1>1, <1>2, <1>3, SMT
<1>5. CipherMatches(x, written[Len(seen) + 1])
  <2>1. x.body = None \/ x.body = BodyOf(written[Len(seen) + 1])
    BY DEF Matches
  <2> QED
    BY <1>1, <2>1, CipherComesBack
<1>6. ASSUME NEW i \in 1 .. Len(seen')
      PROVE  /\ seen'[i].at = ends[i]
             /\ Matches(seen'[i], written[i]) /\ CipherMatches(seen'[i], written[i])
  <2>1. CASE i = Len(seen) + 1
    BY <1>1, <1>2, <1>5, <2>1
  <2>2. CASE i # Len(seen) + 1
    <3>1. i \in 1 .. Len(seen)
      BY <1>2, <2>2, SMT
    <3> QED
      BY <1>2, <3>1 DEF Passed
  <2> QED
    BY <2>1, <2>2
<1>7. Passed(ends)'
  <2>1. phase' = "reading" /\ cursor' = ends[Len(seen') + 1]
    BY <1>1, <1>4
  <2>2. WasRead(seen'[Len(seen')]) => cursor' <= Len(file')
    BY <1>2
  <2>3. ASSUME NEW i \in 1 .. Len(seen')
        PROVE  /\ seen'[i].at = ends[i]
               /\ Matches(seen'[i], written'[i]) /\ CipherMatches(seen'[i], written'[i])
    BY <1>6
  <2> QED
    BY <1>4, <2>1, <2>2, <2>3 DEF Passed
<1>8. Framed(full, ends)' /\ Arrived(full)'
  BY SameFrame
<1> QED
  BY <1>7, <1>8 DEF InStep

LEMMA ReadingOn ==
  ASSUME Held, InStep, ReadTag \/ SkipTag \/ PeekTag
  PROVE  InStep'
<1>1. written \in Seq(Valid)
  BY DEF InStep
<1>2. PICK full, ends : Framed(full, ends) /\ Arrived(full) /\ Passed(ends)
  BY DEF InStep
<1>3. phase = "reading" /\ Left(HeaderLength) /\ cursor' = Past /\ UNCHANGED <<file, written, cut, phase>>
  BY DEF ReadTag, SkipTag, PeekTag
<1>4. HeaderHere \in SeenTag /\ HeaderHere.at = cursor /\ Size \in Nat /\ Past \in Nat
  BY <1>3, HeaderIsSeen
<1> DEFINE t == written[Len(seen) + 1]
<1>5. /\ t \in Valid
      /\ HeaderHere.lead = None /\ HeaderHere.body = None /\ Matches(HeaderHere, t)
      /\ Left(HeaderLength + 1) /\ Size > 0 =>
           BodyOf(t) # <<>> /\ file[cursor + HeaderLength + 1] = BodyOf(t)[1]
      /\ BodyFits => SubSeq(file, cursor + HeaderLength + 1, cursor + HeaderLength + Size) = BodyOf(t)
  BY <1>1, <1>2, <1>3, FoundAgain
<1>6. CASE ReadTag
  <2> DEFINE x == [HeaderHere EXCEPT !.body = BodyOf(t)]
  <2>1. BodyFits /\ TrailerFits
    BY <1>6 DEF ReadTag
  <2>2. seen' = Append(seen, x)
    BY <1>5, <1>6, <2>1 DEF ReadTag
  <2>3. BodyOf(t) \in Seq(Nat)
    BY <1>5, Bodies
  <2>4. x \in SeenTag /\ x.at = HeaderHere.at
    BY <1>4, <2>3 DEF SeenTag
  <2>5. Matches(x, t)
    BY <1>4, <1>5 DEF Matches, SeenTag
  <2>6. Past <= Len(file)
    <3>1. cursor + (11 + Size + 4) <= Len(file) /\ Past = cursor + 11 + Size + 4 /\ cursor \in Nat
      BY <2>1 DEF TrailerFits, Left, Past, HeaderLength, TrailerLength, Held
    <3>2. cursor + (11 + Size + 4) = cursor + 11 + Size + 4
      BY <1>4, <3>1, SMT
    <3> QED
      BY <3>1, <3>2
  <2> HIDE DEF x
  <2> QED
    BY <1>1, <1>2, <1>3, <2>2, <2>4, <2>5, <2>6, OneMoreFound
<1>7. CASE SkipTag
  <2>1. seen' = Append(seen, HeaderHere) /\ ~WasRead(HeaderHere)
    BY <1>5, <1>7 DEF SkipTag, WasRead
  <2> QED
    BY <1>1, <1>2, <1>3, <1>4, <1>5, <2>1, OneMoreFound
<1>8. CASE PeekTag
  <2> DEFINE y == BodyOf(t)[1]
             x == [HeaderHere EXCEPT !.lead = y]
  <2>1. Left(HeaderLength + 1) /\ Size > 0
    BY <1>8 DEF PeekTag
  <2>2. BodyOf(t) # <<>> /\ file[cursor + HeaderLength + 1] = y
    BY <1>5, <2>1
  <2>3. seen' = Append(seen, x)
    BY <1>8, <2>2 DEF PeekTag
  <2>4. y \in Nat
    <3>1. BodyOf(t) \in Seq(Nat)
      BY <1>5, Bodies
    <3>2. 1 \in 1 .. Len(BodyOf(t))
      BY <2>2, <3>1, EmptySeq, SMT
    <3> QED
      BY <3>1, <3>2, ElementOfSeq
  <2>5. x \in SeenTag /\ x.at = HeaderHere.at
    BY <1>4, <2>4 DEF SeenTag
  <2>6. Matches(x, t) /\ ~WasRead(x)
    BY <1>4, <1>5, <2>2 DEF Matches, SeenTag, WasRead
  <2> HIDE DEF x
  <2> QED
    BY <1>1, <1>2, <1>3, <2>3, <2>5, <2>6, OneMoreFound
<1> QED
  BY <1>6, <1>7, <1>8

\* A whole file ends where its last tag does.
LEMMA LastTag ==
  ASSUME Held, written \in Seq(Valid), NEW full, NEW ends,
         Framed(full, ends), Arrived(full), Passed(ends), phase = "reading", ~cut
  PROVE  /\ cursor >= Len(file) => Len(seen) = Len(written)
         /\ cursor < Len(file) => Left(HeaderLength) /\ BodyFits /\ TrailerFits
<1>1. /\ Len(seen) \in Nat /\ Len(written) \in Nat /\ Len(full) \in Nat /\ cursor \in Nat
      /\ Len(seen) <= Len(written) /\ cursor = ends[Len(seen) + 1] /\ file = full
  <2>1. seen \in Seq(SeenTag) /\ full \in Seq(Nat) /\ cursor \in Nat
    BY DEF Held, Framed
  <2>2. Len(seen) \in Nat /\ Len(written) \in Nat /\ Len(full) \in Nat
    BY <2>1, LenProperties
  <2> QED
    BY <2>1, <2>2 DEF Passed, Arrived
<1>2. ASSUME Len(seen) < Len(written)
      PROVE  /\ cursor < Len(file)
             /\ Left(HeaderLength) /\ BodyFits /\ TrailerFits
  <2> DEFINE k == Len(seen) + 1
             size == Len(BodyOf(written[k]))
  <2>1. k \in 1 .. Len(written)
    BY <1>1, <1>2, SMT
  <2>2. ends[k + 1] = cursor + 15 + size /\ ends[k + 1] <= Len(file)
    BY <1>1, <2>1 DEF Framed
  <2>3. written[k] \in Valid
    BY <2>1, ElementOfSeq
  <2>4. size \in Nat
    BY <2>3, Bodies
  <2> HIDE DEF size, k
  <2>5. /\ cursor < Len(file) /\ cursor + 11 <= Len(file) /\ cursor + (11 + size) <= Len(file)
        /\ cursor + (11 + size + 4) <= Len(file)
    <3>1. ASSUME NEW a \in Nat, NEW b \in Nat, NEW n \in Nat, a + 15 + b <= n
          PROVE  a < n /\ a + 11 <= n /\ a + (11 + b) <= n /\ a + (11 + b + 4) <= n
      BY <3>1, SMT
    <3>2. cursor + 15 + size <= Len(file) /\ cursor \in Nat /\ Len(file) \in Nat
      BY <1>1, <2>2
    <3> QED
      BY <2>4, <3>1, <3>2
  <2>6. Left(HeaderLength)
    BY <2>5 DEF Left, HeaderLength
  <2>7. Size = size
    BY <2>6, FoundAgain DEF size, k
  <2> QED
    BY <2>5, <2>6, <2>7 DEF BodyFits, TrailerFits, Left, HeaderLength, TrailerLength
<1>3. ASSUME Len(seen) = Len(written) PROVE ~(cursor < Len(file))
  <2>1. cursor = Len(file)
    BY <1>1, <1>3 DEF Framed
  <2> QED
    BY <1>1, <2>1, SMT
<1>4. Len(seen) < Len(written) \/ Len(seen) = Len(written)
  BY <1>1, SMT
<1>5. ~(cursor < Len(file) /\ cursor >= Len(file))
  BY <1>1, SMT
<1> QED
  BY <1>2, <1>3, <1>4, <1>5

LEMMA Ending ==
  ASSUME Held, InStep, ReadEof \/ ReadFails
  PROVE  InStep'
<1>1. /\ phase = "reading" /\ phase' \in {"eof", "failed"}
      /\ UNCHANGED <<file, written, cut, cursor, seen>>
  BY DEF ReadEof, ReadFails
<1>2. /\ phase' = "eof" => cursor >= Len(file)
      /\ phase' = "failed" => cursor < Len(file) /\ ~(Left(HeaderLength) /\ BodyFits /\ TrailerFits)
  BY DEF ReadEof, ReadFails
<1>3. written \in Seq(Valid)
  BY DEF InStep
<1>4. PICK full, ends : Framed(full, ends) /\ Arrived(full) /\ Passed(ends)
  BY DEF InStep
<1>5. ~cut => phase' # "failed" /\ (phase' = "eof" => Len(seen) = Len(written))
  BY <1>1, <1>2, <1>3, <1>4, LastTag
<1>6. Passed(ends)'
  <2>1. \A i \in 1 .. Len(seen) :
          /\ seen[i].at = ends[i]
          /\ Matches(seen[i], written[i]) /\ CipherMatches(seen[i], written[i])
    BY <1>4 DEF Passed
  <2>2. Len(seen) <= Len(written) /\ cursor = ends[Len(seen) + 1]
    BY <1>1, <1>4 DEF Passed
  <2>3. seen # <<>> /\ WasRead(seen[Len(seen)]) => cursor <= Len(file)
    BY <1>1, <1>4 DEF Passed
  <2> QED
    BY <1>1, <1>2, <1>5, <2>1, <2>2, <2>3 DEF Passed
<1>7. Framed(full, ends)' /\ Arrived(full)'
  BY <1>1, <1>4, SameFrame
<1> QED
  BY <1>1, <1>3, <1>6, <1>7 DEF InStep

LEMMA IInvStarts == Init => IInv
BY HeldStarts, InStepStarts DEF IInv

LEMMA IInvStep == IInv /\ [Next]_vars => IInv'
<1> SUFFICES ASSUME IInv, [Next]_vars PROVE IInv'
  OBVIOUS
<1>1. Held /\ Held'
  BY HeldStep DEF IInv
<1>2. ASSUME phase \in {"writing", "refused"} PROVE InStep
  BY <1>2 DEF IInv
<1>3. ASSUME NEW t \in Tags, WriteTag(t) PROVE IInv'
  BY <1>1, <1>2, <1>3, Appending DEF WriteTag, IInv
<1>4. ASSUME NEW t \in Tags, RefuseTag(t) PROVE IInv'
  <2>1. /\ phase = "writing" /\ phase' = "refused" /\ UNCHANGED <<file, written, cut, cursor, seen>>
    BY <1>4 DEF RefuseTag
  <2>2. PICK full, ends : Framed(full, ends) /\ Arrived(full) /\ Passed(ends)
    BY <1>2, <2>1 DEF InStep
  <2>3. Framed(full, ends)' /\ Arrived(full)'
    BY <2>1, <2>2, SameFrame
  <2>4. written' \in Seq(Valid) /\ seen' = <<>>
    BY <1>1, <1>2, <2>1 DEF InStep, Held
  <2>5. Passed(ends)'
    BY <2>1, <2>4, NothingSeen
  <2> QED
    BY <1>1, <2>3, <2>4, <2>5 DEF IInv, InStep
<1>5. ASSUME NEW m \in 0 .. Len(file), Deliver(m) PROVE IInv'
  BY <1>1, <1>2, <1>5, Delivering DEF Deliver, IInv
<1>6. ASSUME NEW bytes \in Noise, Receive(bytes) PROVE IInv'
  BY <1>1, <1>6 DEF Receive, IInv, IsOurs
<1>7. CASE Open \/ ReadTag \/ SkipTag \/ PeekTag \/ ReadEof \/ ReadFails
  <2>1. /\ phase' \notin {"writing", "refused"} /\ written' = written
    BY <1>7 DEF Open, ReadTag, SkipTag, PeekTag, ReadEof, ReadFails
  <2>2. IsOurs => InStep'
    BY <1>1, <1>7, Opening, ReadingOn, Ending DEF IInv
  <2> QED
    BY <1>1, <2>1, <2>2 DEF IInv, IsOurs
<1>8. CASE UNCHANGED vars
  BY <1>1, <1>8 DEF vars, IInv, IsOurs, InStep, Framed, Arrived, Passed
<1> QED
  BY <1>3, <1>4, <1>5, <1>6, <1>7, <1>8 DEF Next, Write

LEMMA StaysInStep == Spec => []IInv
BY IInvStarts, IInvStep, PTL DEF Spec

(***************************************************************************)
(* Whatever tags write_tag and write_filtered_tag accept, in any number    *)
(* and of any size: the reader comes past each once and in order, in any   *)
(* mix of reading, skipping and peeking, finds its kind, time, StreamID,   *)
(* Filter bit and preamble, and then Eof.                                  *)
(***************************************************************************)
THEOREM TagsComeBack == Spec => []RoundTrip
<1>1. IInv => RoundTrip
  BY DEF IInv, InStep, Passed, RoundTrip, IsWhole
<1> QED
  BY <1>1, StaysInStep, PTL

(***************************************************************************)
(* However much of the file is there: what is found is what was written    *)
(* first, and Eof behind a tag that was read means that the file ends      *)
(* there.                                                                  *)
(***************************************************************************)
THEOREM CutsAreNoticed == Spec => []CutIsNoticed
<1>1. IInv => CutIsNoticed
  <2> SUFFICES ASSUME IInv, IsOurs PROVE
        /\ Len(seen) <= Len(written)
        /\ \A i \in 1 .. Len(seen) : Matches(seen[i], written[i]) /\ CipherMatches(seen[i], written[i])
        /\ phase = "eof" /\ seen # <<>> /\ WasRead(seen[Len(seen)]) => cursor = Len(file)
    BY DEF CutIsNoticed
  <2>1. PICK ends : Passed(ends)
    BY DEF IInv, InStep
  <2>2. cursor \in Nat /\ Len(file) \in Nat
    <3>1. file \in Seq(Nat) /\ cursor \in Nat
      BY DEF IInv, Held
    <3> QED
      BY <3>1, LenProperties
  <2>3. ASSUME phase = "eof", seen # <<>>, WasRead(seen[Len(seen)]) PROVE cursor = Len(file)
    <3>1. cursor >= Len(file) /\ cursor <= Len(file)
      BY <2>1, <2>3 DEF Passed
    <3> QED
      BY <2>2, <3>1, SMT
  <2> QED
    BY <2>1, <2>3 DEF Passed
<1> QED
  BY <1>1, StaysInStep, PTL

(***************************************************************************)
(* In every whole file the number in front of each tag, and the one behind *)
(* the last, is the size of the tag it follows: one step back from where   *)
(* the reader came to is where it was before.                              *)
(***************************************************************************)
THEOREM BackPointersLeadBack == Spec => []BackPointersLead
<1>1. IInv => BackPointersLead
  <2> SUFFICES ASSUME IInv, IsWhole, phase = "reading"
               PROVE  Number32(file, cursor - TrailerLength) =
                        IF seen = <<>> THEN 0 ELSE cursor - TrailerLength - seen[Len(seen)].at
    BY DEF BackPointersLead
  <2>1. written \in Seq(Valid) /\ Held
    BY DEF IInv, InStep, IsWhole
  <2>2. PICK full, ends : Framed(full, ends) /\ Arrived(full) /\ Passed(ends)
    BY DEF IInv, InStep, IsWhole
  <2>3. file = full /\ cursor = ends[Len(seen) + 1] /\ Len(seen) <= Len(written)
    BY <2>2 DEF Arrived, Passed, IsWhole
  <2>4. Len(seen) \in Nat /\ Len(written) \in Nat
    <3>1. seen \in Seq(SeenTag)
      BY <2>1 DEF Held
    <3> QED
      BY <2>1, <3>1, LenProperties
  <2>5. CASE seen = <<>>
    <3>1. Len(seen) = 0
      BY <2>5, SMT
    <3>2. cursor - TrailerLength = 0
      BY <2>2, <2>3, <3>1, SMT DEF Framed, TrailerLength
    <3> QED
      BY <2>2, <2>3, <2>5, <3>2 DEF Framed
  <2>6. CASE seen # <<>>
    <3> DEFINE k == Len(seen)
               size == Len(BodyOf(written[k]))
    <3>1. k # 0
      BY <2>1, <2>6, EmptySeq DEF Held
    <3>2. k \in 1 .. Len(written) /\ k \in 1 .. Len(seen) /\ k - 1 \in 0 .. Len(written) /\ (k - 1) + 1 = k
      BY <2>3, <2>4, <3>1, SMT
    <3>3. written[k] \in Valid /\ ends[k] \in Nat /\ size \in Nat
      <4>1. written[k] \in Valid
        BY <2>1, <3>2, ElementOfSeq
      <4>2. size \in Nat
        BY <4>1, Bodies
      <4>3. ends[(k - 1) + 1] \in Nat
        BY <2>1, <2>2, <3>2, EndsGrow
      <4> QED
        BY <3>2, <4>1, <4>2, <4>3
    <3>4. /\ cursor = ends[k] + 15 + size /\ seen[k].at = ends[k]
          /\ Stands(Whole(written[k]), file, ends[k])
      BY <2>2, <2>3, <3>2 DEF Framed, Passed
    <3>5. Number32(file, ends[k] + (11 + size)) = 11 + size
      BY <3>3, <3>4, TagParts
    <3> DEFINE e == ends[k]
    <3>6. e \in Nat /\ size \in Nat /\ cursor = e + 15 + size
      BY <3>3, <3>4
    <3> HIDE DEF e, size
    <3>7. cursor - 4 = e + (11 + size) /\ cursor - 4 - e = 11 + size
      BY <3>6, SMT
    <3> QED
      BY <2>6, <3>4, <3>5, <3>7 DEF e, size, TrailerLength
  <2> QED
    BY <2>5, <2>6
<1> QED
  BY <1>1, StaysInStep, PTL
=============================================================================
