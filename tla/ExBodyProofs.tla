---------------------------- MODULE ExBodyProofs ----------------------------
(***************************************************************************)
(* Proofs about ExBody: the fields that have two forms or a sign are read  *)
(* back as they were written; on every body, its own or not, the reader    *)
(* stays inside of it and the tracks it splits off tile it; headers with   *)
(* any chain of ModEx entries and any number of tracks come back as they   *)
(* were written, and a body that was cut is not taken for a whole one.     *)
(***************************************************************************)
EXTENDS ExBody, SequenceFacts

(***************************************************************************)
(* Fields.                                                                 *)
(***************************************************************************)
\* The escape byte and the sixteen bits behind it are three bytes.
LEMMA Escaped ==
  ASSUME NEW e \in Int, NEW x \in Int, NEW y \in Int, NEW s, s = <<e>> \o <<x, y>>
  PROVE  Len(s) = 3 /\ s[1] = e /\ s[2] = x /\ s[3] = y
<1>1. /\ <<e>> \in Seq(Int) /\ Len(<<e>>) = 1 /\ <<e>>[1] = e
      /\ <<x, y>> \in Seq(Int) /\ Len(<<x, y>>) = 2
      /\ <<x, y>>[1] = x /\ <<x, y>>[2] = y
  BY SMT
<1> DEFINE l == <<e>>
           r == <<x, y>>
<1> HIDE DEF l, r
<1>2. /\ Len(l \o r) = Len(l) + Len(r)
      /\ \A i \in 1 .. Len(l) + Len(r) :
           (l \o r)[i] = IF i <= Len(l) THEN l[i] ELSE r[i - Len(l)]
  <2>1. l \in Seq(Int) /\ r \in Seq(Int)
    BY <1>1 DEF l, r
  <2> QED
    BY <2>1, ConcatProperties
<1>3. s = l \o r /\ Len(l) = 1 /\ l[1] = e /\ Len(r) = 2 /\ r[1] = x /\ r[2] = y
  BY <1>1 DEF l, r
<1> QED
  BY <1>2, <1>3, SMT

\* decode_size undoes encode_size for every size that encode_size takes and goes
\* on where the field ended: the escape is used from 256 on, and not before.
THEOREM SizesComeBack ==
  ASSUME NEW n \in Nat, n >= 1, n <= 65536, NEW b, NEW c \in Nat, Stands(EncodeSize(n), b, c)
  PROVE  /\ DecodeSize(b, c) = n
         /\ SizeWidth(b, c) = Len(EncodeSize(n))
<1>1. CASE n <= 255
  <2>1. EncodeSize(n) = <<n - 1>>
    BY <1>1, SMT DEF EncodeSize
  <2>2. b[c + 1] = n - 1
    BY <2>1, SMT DEF Stands
  <2> QED
    BY <1>1, <2>1, <2>2, SMT DEF DecodeSize, SizeWidth
<1>2. CASE n > 255
  <2> DEFINE m == n - 1
  <2>0. m \in Nat /\ m \div 256 \in Int /\ m % 256 \in Int /\ 256 * (m \div 256) + (m % 256) = m
    BY SMT
  <2>1. EncodeSize(n) = <<255>> \o <<m \div 256, m % 256>>
    BY <1>2, SMT DEF EncodeSize, UI16
  <2> HIDE DEF m
  <2>2. /\ Len(EncodeSize(n)) = 3
        /\ b[c + 1] = 255 /\ b[c + 2] = m \div 256 /\ b[c + 3] = m % 256
    <3> DEFINE s == EncodeSize(n)
    <3>1. Len(s) = 3 /\ s[1] = 255 /\ s[2] = m \div 256 /\ s[3] = m % 256
      BY <2>0, <2>1, Escaped, SMT
    <3>2. \A i \in 1 .. Len(s) : b[c + i] = s[i]
      BY SMT DEF Stands
    <3> HIDE DEF s
    <3>3. Len(s) = 3 /\ b[c + 1] = 255 /\ b[c + 2] = m \div 256 /\ b[c + 3] = m % 256
      BY <3>1, <3>2, SMT
    <3> QED
      BY <3>3, SMT DEF s
  <2>3. c + 1 + 1 = c + 2 /\ c + 1 + 2 = c + 3
    BY SMT
  <2>4. Number16(b, c + 1) = 256 * (m \div 256) + (m % 256)
    BY <2>2, <2>3, SMT DEF Number16
  <2>5. Number16(b, c + 1) + 1 = n
    BY <2>0, <2>4, SMT DEF m
  <2> QED
    BY <2>2, <2>5, SMT DEF DecodeSize, SizeWidth
<1> QED
  BY <1>1, <1>2, SMT

\* The three bytes of a nanosecond offset or of a track's size are read as written.
LEMMA TriplesComeBack ==
  ASSUME NEW n \in Nat, n < 16777216, NEW b, NEW c \in Nat, Stands(UI24(n), b, c)
  PROVE  Number24(b, c) = n
<1>1. UI24(n) = <<n \div 65536, (n \div 256) % 256, n % 256>>
  BY SMT DEF UI24
<1>2. b[c + 1] = n \div 65536 /\ b[c + 2] = (n \div 256) % 256 /\ b[c + 3] = n % 256
  BY <1>1, SMT DEF Stands
<1>3. (65536 * (n \div 65536)) + (256 * ((n \div 256) % 256)) + (n % 256) = n
  BY SMT
<1>4. n \div 65536 \in Int /\ (n \div 256) % 256 \in Int /\ n % 256 \in Int
  BY SMT
<1> QED
  BY <1>2, <1>3, <1>4, SMT DEF Number24

\* A composition time offset comes back with its sign: write_composition_time masks
\* the offset to 24 bits, and the reader's sign extension undoes it.
THEOREM OffsetsComeBack ==
  ASSUME NEW n \in Int, -8388608 <= n, n < 8388608,
         NEW b, NEW c \in Nat, Stands(SI24(n), b, c)
  PROVE  Signed24(b, c) = n
<1> DEFINE masked == n % 16777216
<1>1. /\ masked \in Nat /\ masked < 16777216
      /\ masked = IF n < 0 THEN n + 16777216 ELSE n
  BY SMT
<1>2. Stands(UI24(masked), b, c)
  BY SMT DEF SI24
<1> HIDE DEF masked
<1>3. Number24(b, c) = masked
  BY <1>1, <1>2, TriplesComeBack, SMT
<1> QED
  BY <1>1, <1>3, SMT DEF Signed24

(***************************************************************************)
(* The layout of a header: where each step of to_bytes begins and ends in  *)
(* what it leaves in the buffer.                                           *)
(***************************************************************************)
Passed(h, i) == \A j \in 1 .. i : Steps(h)[j].ok

\* What each step of to_bytes leaves in the buffer.
Parts(h) == [i \in 1 .. Len(Steps(h)) |-> Optional(Passed(h, i), Steps(h)[i].bytes)]

\* Where the i-th step of to_bytes ends.
Mark(h, i) == Ends(Parts(h))[i]

\* How many ModEx entries a header has.
Size(h) == Len(h.entries)

\* What follows the i-th entry in the chain.
Follows(h, i) == IF i = Size(h) THEN Resolved(h) ELSE ModEx

\* The recursive sum of the nanoseconds is what its definition says.
LEMMA SumsAre ==
  ASSUME NEW A, NEW es \in Seq([subtype : Byte, nano : Nat \cup {None}, raw : A])
  PROVE  /\ Sums(es) \in [0 .. Len(es) -> Nat]
         /\ Sums(es)[0] = 0
         /\ \A i \in 1 .. Len(es) :
              Sums(es)[i] = IF es[i].nano = None THEN Sums(es)[i - 1]
                                                 ELSE Saturating(Sums(es)[i - 1], es[i].nano)
<1> DEFINE n == Len(es)
           Add(a, i) == IF es[i].nano = None THEN a ELSE Saturating(a, es[i].nano)
           G == [p \in Nat \X (1 .. n) |-> Add(p[1], p[2])]
<1>1. n \in Nat /\ \A i \in 1 .. n : es[i].nano \in Nat \cup {None}
  <2>1. n \in Nat /\ \A i \in 1 .. n : es[i] \in [subtype : Byte, nano : Nat \cup {None}, raw : A]
    BY LenProperties, ElementOfSeq, Zenon
  <2> QED
    BY <2>1, SMT
<1>2. \A a \in Nat, i \in 1 .. n : Add(a, i) \in Nat
  <2>1. \A a, b \in Nat : Saturating(a, b) \in Nat
    BY NanosAssumption, SMT DEF Saturating
  <2> QED
    BY <1>1, <2>1
<1>3. 0 \in Nat
  BY SMT
<1> HIDE DEF Add
<1>4. G \in [Nat \X (1 .. n) -> Nat] /\ \A a \in Nat, i \in 1 .. n : G[<<a, i>>] = Add(a, i)
  BY <1>2
<1> HIDE DEF G, n
<1>5. PICK f : Iterates(f, Nat, n, 0, G)
  BY <1>1, <1>3, <1>4, Recursion, Zenon
<1>6. /\ f \in [0 .. n -> Nat] /\ f[0] = 0
      /\ \A i \in 1 .. n : f[i] = Add(f[i - 1], i)
  <2>1. \A i \in 1 .. n : i - 1 \in 0 .. n
    BY <1>1, SMT
  <2> QED
    BY <1>4, <1>5, <2>1 DEF Iterates
<1> DEFINE Eq(g) == g = [i \in 0 .. n |-> IF i = 0 THEN 0
                                         ELSE IF es[i].nano = None THEN g[i - 1]
                                         ELSE Saturating(g[i - 1], es[i].nano)]
<1>7. Eq(f)
  <2>1. \A i \in 0 .. n : i = 0 \/ i \in 1 .. n
    BY <1>1, SMT
  <2> QED
    BY <1>6, <2>1 DEF Add
<1>8. Eq(Sums(es))
  BY <1>7 DEF Sums, n
<1> DEFINE s == Sums(es)
<1> HIDE DEF s
<1>9. s = [i \in 0 .. n |-> IF i = 0 THEN 0
                           ELSE IF es[i].nano = None THEN s[i - 1]
                           ELSE Saturating(s[i - 1], es[i].nano)]
  BY <1>8 DEF s
<1>10. s[0] = 0 /\ \A i \in 1 .. n : s[i] = Add(s[i - 1], i)
  <2>1. 0 \in 0 .. n /\ \A i \in 1 .. n : i \in 0 .. n /\ i # 0
    BY <1>1, SMT
  <2> QED
    BY <1>9, <2>1 DEF Add
<1> DEFINE T == {m \in Nat : m <= n => s[m] \in Nat}
<1>11. 0 \in T
  BY <1>10
<1>12. ASSUME NEW m \in Nat, m \in T PROVE m + 1 \in T
  <2> SUFFICES ASSUME m + 1 <= n PROVE s[m + 1] \in Nat
    OBVIOUS
  <2>1. m + 1 \in 1 .. n /\ (m + 1) - 1 = m /\ m <= n
    BY <1>1, SMT
  <2>2. s[m + 1] = Add(s[m], m + 1)
    BY <1>10, <2>1
  <2>3. s[m] \in Nat
    BY <1>12, <2>1
  <2> QED
    BY <1>2, <2>1, <2>2, <2>3
<1>13. \A m \in 0 .. n : s[m] \in Nat
  <2>1. \A m \in Nat : m \in T
    <3> HIDE DEF T
    <3> QED
      BY <1>11, <1>12, Induction
  <2> QED
    BY <2>1, <1>1, SMT
<1>14. s \in [0 .. n -> Nat]
  BY <1>9, <1>13, Zenon
<1> QED
  BY <1>10, <1>14 DEF n, s, Add

\* Two, n and four elements in a row.
Holds(row, n, B, a1, a2, c1, c2, c3, c4) ==
  /\ Len(row) = n + 6
  /\ row[1] = a1 /\ row[2] = a2
  /\ \A i \in 1 .. n : row[i + 2] = B[i]
  /\ row[n + 3] = c1 /\ row[n + 4] = c2 /\ row[n + 5] = c3 /\ row[n + 6] = c4

\* A row of two, n and four steps, one after another.
LEMMA RowIs ==
  ASSUME NEW n \in Nat, NEW S, NEW B \in [1 .. n -> S],
         NEW a1 \in S, NEW a2 \in S, NEW c1 \in S, NEW c2 \in S, NEW c3 \in S, NEW c4 \in S,
         NEW row, row = <<a1, a2>> \o B \o <<c1, c2, c3, c4>>
  PROVE  Holds(row, n, B, a1, a2, c1, c2, c3, c4)
<1> DEFINE l == <<a1, a2>>
           r == <<c1, c2, c3, c4>>
<1>1. /\ l \in Seq(S) /\ Len(l) = 2 /\ l[1] = a1 /\ l[2] = a2
      /\ r \in Seq(S) /\ Len(r) = 4 /\ r[1] = c1 /\ r[2] = c2 /\ r[3] = c3 /\ r[4] = c4
  BY SMT
<1>2. B \in Seq(S) /\ Len(B) = n
  BY IsASeq, LenProperties, SMT
<1> HIDE DEF l, r
<1> DEFINE lb == l \o B
<1>3. /\ lb \in Seq(S) /\ Len(lb) = 2 + n
      /\ \A i \in 1 .. 2 + n : lb[i] = IF i <= 2 THEN l[i] ELSE B[i - 2]
  <2>1. /\ lb \in Seq(S) /\ Len(lb) = Len(l) + Len(B)
        /\ \A i \in 1 .. Len(l) + Len(B) : lb[i] = IF i <= Len(l) THEN l[i] ELSE B[i - Len(l)]
    BY <1>1, <1>2, ConcatProperties, Zenon
  <2> QED
    BY <1>1, <1>2, <2>1, Zenon
<1> HIDE DEF lb
<1>4. /\ lb \o r \in Seq(S) /\ Len(lb \o r) = (2 + n) + 4
      /\ \A i \in 1 .. (2 + n) + 4 : (lb \o r)[i] = IF i <= 2 + n THEN lb[i] ELSE r[i - (2 + n)]
  <2>1. /\ lb \o r \in Seq(S) /\ Len(lb \o r) = Len(lb) + Len(r)
        /\ \A i \in 1 .. Len(lb) + Len(r) :
             (lb \o r)[i] = IF i <= Len(lb) THEN lb[i] ELSE r[i - Len(lb)]
    BY <1>1, <1>3, ConcatProperties, Zenon
  <2> QED
    BY <1>1, <1>3, <2>1, Zenon
<1>5. row = lb \o r
  BY DEF lb, l, r
<1>6. Len(row) = n + 6
  BY <1>4, <1>5, SMT
<1>7. \A i \in 1 .. n + 6 : row[i] = IF i <= 2 + n THEN lb[i] ELSE r[i - (2 + n)]
  <2>1. \A i \in 1 .. n + 6 : i \in 1 .. (2 + n) + 4
    BY SMT
  <2> QED
    BY <1>4, <1>5, <2>1
<1> HIDE DEF lb
<1>8. row[1] = a1 /\ row[2] = a2
  <2>1. 1 \in 1 .. n + 6 /\ 2 \in 1 .. n + 6 /\ 1 <= 2 + n /\ 2 <= 2 + n /\ 1 <= 2 /\ 2 <= 2
        /\ 1 \in 1 .. 2 + n /\ 2 \in 1 .. 2 + n
    BY SMT
  <2> QED
    BY <1>1, <1>3, <1>7, <2>1
<1>9. ASSUME NEW i \in 1 .. n PROVE row[i + 2] = B[i]
  <2>1. i + 2 \in 1 .. n + 6 /\ i + 2 <= 2 + n /\ ~(i + 2 <= 2) /\ i + 2 \in 1 .. 2 + n /\ (i + 2) - 2 = i
    BY SMT
  <2> QED
    BY <1>3, <1>7, <2>1
<1>10. row[n + 3] = c1 /\ row[n + 4] = c2 /\ row[n + 5] = c3 /\ row[n + 6] = c4
  <2>1. ASSUME NEW k \in 1 .. 4 PROVE row[n + 2 + k] = r[k]
    <3>1. n + 2 + k \in 1 .. n + 6 /\ ~(n + 2 + k <= 2 + n) /\ (n + 2 + k) - (2 + n) = k
      BY SMT
    <3> QED
      BY <1>7, <3>1
  <2>2. /\ 1 \in 1 .. 4 /\ 2 \in 1 .. 4 /\ 3 \in 1 .. 4 /\ 4 \in 1 .. 4
        /\ n + 2 + 1 = n + 3 /\ n + 2 + 2 = n + 4 /\ n + 2 + 3 = n + 5 /\ n + 2 + 4 = n + 6
    BY SMT
  <2> QED
    BY <1>1, <2>1, <2>2
<1> QED
  BY <1>6, <1>8, <1>9, <1>10 DEF Holds

\* The steps of to_bytes, one by one.
LEMMA StepsAre ==
  ASSUME NEW h, NEW A, h.entries \in Seq(A)
  PROVE  /\ Size(h) \in Nat
         /\ Len(Steps(h)) = Size(h) + 6
         /\ Steps(h)[1] = Check(h.entries = <<>> => h.nanos = 0, <<Lead(h)>>)
         /\ Steps(h)[2] = Check(h.entries # <<>> => Resolved(h) # ModEx, <<>>)
         /\ \A i \in 1 .. Size(h) :
              Steps(h)[i + 2] = Check(EntryIsValid(h.entries[i]),
                                      EmitEntry(h.entries[i], Follows(h, i)))
         /\ Steps(h)[Size(h) + 3] =
              Check(h.layout # None => h.type # Multitrack(h.video),
                    Optional(h.layout # None, <<Pack(h.layout, h.type)>>))
         /\ Steps(h)[Size(h) + 4] = Check(h.fourcc = <<>> <=> h.layout = ManyCodecs, h.fourcc)
         /\ Steps(h)[Size(h) + 5] =
              Check((h.cto # None <=> HasCto(h)) /\ (h.cto # None => FitsSI24(h.cto)),
                    IF h.cto = None THEN <<>> ELSE SI24(h.cto))
         /\ Steps(h)[Size(h) + 6] =
              Check(h.command # None <=> HasCommand(h), Optional(h.command # None, <<h.command>>))
<1> DEFINE n == Len(h.entries)
           B == [i \in 1 .. n |-> Check(EntryIsValid(h.entries[i]),
                                        EmitEntry(h.entries[i], IF i = n THEN Resolved(h) ELSE ModEx))]
           a1 == Check(h.entries = <<>> => h.nanos = 0, <<Lead(h)>>)
           a2 == Check(h.entries # <<>> => Resolved(h) # ModEx, <<>>)
           c1 == Check(h.layout # None => h.type # Multitrack(h.video),
                       Optional(h.layout # None, <<Pack(h.layout, h.type)>>))
           c2 == Check(h.fourcc = <<>> <=> h.layout = ManyCodecs, h.fourcc)
           c3 == Check((h.cto # None <=> HasCto(h)) /\ (h.cto # None => FitsSI24(h.cto)),
                       IF h.cto = None THEN <<>> ELSE SI24(h.cto))
           c4 == Check(h.command # None <=> HasCommand(h), Optional(h.command # None, <<h.command>>))
           S == {a1, a2, c1, c2, c3, c4} \cup {B[i] : i \in 1 .. n}
<1>1. n \in Nat
  BY LenProperties, SMT
<1>2. Steps(h) = <<a1, a2>> \o B \o <<c1, c2, c3, c4>>
  BY DEF Steps
<1> HIDE DEF a1, a2, c1, c2, c3, c4
<1>3. \A i \in 1 .. n : B[i] = Check(EntryIsValid(h.entries[i]),
                                     EmitEntry(h.entries[i], IF i = n THEN Resolved(h) ELSE ModEx))
  BY Zenon
<1>4. B = [i \in 1 .. n |-> B[i]]
  BY <1>3, Zenon
<1> HIDE DEF n, B
<1>5. B \in [1 .. n -> S]
  BY <1>4
<1>6. a1 \in S /\ a2 \in S /\ c1 \in S /\ c2 \in S /\ c3 \in S /\ c4 \in S
  OBVIOUS
<1> HIDE DEF S
<1> DEFINE row == Steps(h)
<1> HIDE DEF row
<1>7. row = <<a1, a2>> \o B \o <<c1, c2, c3, c4>>
  BY <1>2 DEF row
<1>8. /\ Len(row) = n + 6
      /\ row[1] = a1 /\ row[2] = a2
      /\ \A i \in 1 .. n : row[i + 2] = B[i]
      /\ row[n + 3] = c1 /\ row[n + 4] = c2 /\ row[n + 5] = c3 /\ row[n + 6] = c4
  <2>1. Holds(row, n, B, a1, a2, c1, c2, c3, c4)
    BY <1>1, <1>5, <1>6, <1>7, RowIs, Zenon
  <2> QED
    BY <2>1 DEF Holds
<1>9. \A i \in 1 .. n : row[i + 2] = Check(EntryIsValid(h.entries[i]),
                                       EmitEntry(h.entries[i], Follows(h, i)))
  BY <1>3, <1>8 DEF Follows, Size, n
<1>10. Len(row) = n + 6 /\ row[1] = a1 /\ row[2] = a2
  BY <1>8, Zenon
<1>11. row[n + 3] = c1 /\ row[n + 4] = c2 /\ row[n + 6] = c4
  BY <1>8, Zenon
<1>12. row[n + 5] = c3
  BY <1>8, Zenon
<1> QED
  BY <1>1, <1>9, <1>10, <1>11, <1>12 DEF Size, n, a1, a2, c1, c2, c3, c4, row

\* What the struct of an entry can hold.
Entry == [subtype : Byte, nano : Nat \cup {None}, raw : Seq(Byte)]

\* What a header holds.
LEMMA HeaderFields ==
  ASSUME NEW h \in Headers
  PROVE  /\ h.video \in BOOLEAN /\ h.frame \in 0 .. 7 /\ h.type \in 0 .. 15
         /\ h.fourcc \in FourCc \cup {<<>>} /\ h.layout \in (0 .. 15) \cup {None}
         /\ h.entries \in Seq(Entry)
         /\ h.nanos \in Nat /\ h.cto \in Int \cup {None} /\ h.command \in Byte \cup {None}
         /\ h.consumed = 0
         /\ ~h.video => h.frame = 0 /\ h.cto = None /\ h.command = None
         /\ h = [video |-> h.video, frame |-> h.frame, type |-> h.type, fourcc |-> h.fourcc,
                 layout |-> h.layout, entries |-> h.entries, nanos |-> h.nanos,
                 cto |-> h.cto, command |-> h.command, consumed |-> 0]
<1>1. h \in [video : BOOLEAN, frame : 0 .. 7, type : 0 .. 15, fourcc : FourCc \cup {<<>>},
             layout : (0 .. 15) \cup {None}, entries : Seq(Entry),
             nanos : Nat, cto : Int \cup {None}, command : Byte \cup {None}, consumed : {0}]
  BY HeadersAssumption DEF Entry
<1>2. ~h.video => h.frame = 0 /\ h.cto = None /\ h.command = None
  BY HeadersAssumption
<1> QED
  BY <1>1, <1>2

\* What an entry holds.
LEMMA EntryFields ==
  ASSUME NEW h \in Headers, NEW i \in 1 .. Size(h)
  PROVE  /\ h.entries[i] \in Entry
         /\ h.entries[i].subtype \in Byte
         /\ h.entries[i].nano \in Nat \cup {None}
         /\ h.entries[i].raw \in Seq(Byte) /\ Len(h.entries[i].raw) \in Nat
<1>1. h.entries \in Seq(Entry)
  BY HeaderFields
<1>2. h.entries[i] \in Entry
  BY <1>1, ElementOfSeq DEF Size
<1>3. /\ h.entries[i].subtype \in Byte
      /\ h.entries[i].nano \in Nat \cup {None}
      /\ h.entries[i].raw \in Seq(Byte)
  BY <1>2 DEF Entry
<1> QED
  BY <1>2, <1>3, LenProperties

\* Ranges are stated as inequalities, which the solver takes for any width.
LEMMA BytesAre == \A n : n \in Byte <=> n \in Nat /\ n < 256
  BY SMT DEF Byte

\* Two half bytes are packed and unpacked.
LEMMA NibblesFit ==
  ASSUME NEW a \in 0 .. 15, NEW b \in 0 .. 15
  PROVE  Pack(a, b) \in Byte /\ High(Pack(a, b)) = a /\ Low(Pack(a, b)) = b
<1>1. a \in Nat /\ a < 16 /\ b \in Nat /\ b < 16
  BY SMT
<1>2. 16 * a + b \in Nat /\ 16 * a + b < 256
  BY <1>1, SMT
<1>3. (16 * a + b) \div 16 = a /\ (16 * a + b) % 16 = b
  BY <1>1, SMT
<1> QED
  BY <1>2, <1>3, BytesAre DEF Pack, High, Low

\* A function on 1 .. n is a sequence of length n.
LEMMA RangesAreSeqs ==
  ASSUME NEW n \in Nat, NEW S, NEW c \in [1 .. n -> S]
  PROVE  c \in Seq(S) /\ Len(c) = n
  BY SMT

\* A FourCC is a sequence of four bytes.
LEMMA FourCcIsSeq ==
  ASSUME NEW c \in FourCc
  PROVE  c \in Seq(Byte) /\ Len(c) = 4 /\ c # <<>>
<1>1. 4 \in Nat
  BY SMT
<1>4. c \in Seq(Byte) /\ Len(c) = 4
  BY <1>1, RangesAreSeqs, Zenon DEF FourCc
<1>5. Len(<<>>) # 4
  BY SMT
<1> QED
  BY <1>4, <1>5

\* Three bytes are a sequence of bytes.
LEMMA ThreeBytes ==
  ASSUME NEW x \in Byte, NEW y \in Byte, NEW z \in Byte
  PROVE  <<x, y, z>> \in Seq(Byte) /\ Len(<<x, y, z>>) = 3
  OBVIOUS

\* What the fields are written as, are bytes.
LEMMA SizesAreBytes ==
  ASSUME NEW n \in Nat, 1 <= n, n <= 65536
  PROVE  EncodeSize(n) \in Seq(Byte)
<1>1. CASE n <= 255
  <2>1. EncodeSize(n) = <<n - 1>>
    BY <1>1 DEF EncodeSize
  <2>2. n - 1 \in Nat /\ n - 1 < 256
    BY <1>1, SMT
  <2>3. n - 1 \in Byte
    BY <2>2, BytesAre
  <2> QED
    BY <2>1, <2>3
<1>2. CASE n > 255
  <2> DEFINE m == n - 1
             x == m \div 256
             y == m % 256
  <2>1. m \in Nat /\ m < 65536
    BY SMT
  <2>2. EncodeSize(n) = <<255>> \o <<x, y>>
    BY <1>2, SMT DEF EncodeSize, UI16
  <2> HIDE DEF m
  <2>3. x \in Nat /\ x < 256 /\ y \in Nat /\ y < 256 /\ 255 \in Nat /\ 255 < 256
    BY <2>1, SMT
  <2> HIDE DEF x, y
  <2>4. x \in Byte /\ y \in Byte /\ 255 \in Byte
    BY <2>3, BytesAre
  <2>5. <<255>> \in Seq(Byte) /\ <<x, y>> \in Seq(Byte)
    BY <2>4
  <2> QED
    BY <2>2, <2>5, ConcatProperties
<1> QED
  BY <1>1, <1>2, SMT

\* Three bytes of a number below 2^24.
LEMMA TriplesAreBytes ==
  ASSUME NEW n \in Nat, n < 16777216
  PROVE  UI24(n) \in Seq(Byte) /\ Len(UI24(n)) = 3
<1> DEFINE x == n \div 65536
           y == (n \div 256) % 256
           z == n % 256
<1>1. x \in Nat /\ x < 256 /\ y \in Nat /\ y < 256 /\ z \in Nat /\ z < 256
  BY SMT
<1>2. UI24(n) = <<x, y, z>>
  BY SMT DEF UI24
<1> HIDE DEF x, y, z
<1>3. x \in Byte /\ y \in Byte /\ z \in Byte
  BY <1>1, BytesAre, SMT
<1>4. <<x, y, z>> \in Seq(Byte) /\ Len(<<x, y, z>>) = 3
  BY <1>3, ThreeBytes, SMT
<1> QED
  BY <1>2, <1>4, SMT

\* Three bytes of an offset with its sign.
LEMMA OffsetsAreBytes ==
  ASSUME NEW n \in Int, FitsSI24(n)
  PROVE  SI24(n) \in Seq(Byte) /\ Len(SI24(n)) = 3
<1> DEFINE masked == n % 16777216
<1>1. masked \in Nat /\ masked < 16777216
  BY SMT
<1>2. SI24(n) = UI24(masked)
  BY SMT DEF SI24
<1> HIDE DEF masked
<1> QED
  BY <1>1, <1>2, TriplesAreBytes, SMT

\* Every packet type of a header fits its half byte.
LEMMA ResolvedIsNibble ==
  ASSUME NEW h \in Headers
  PROVE  Resolved(h) \in 0 .. 15 /\ \A i \in 1 .. Size(h) : Follows(h, i) \in 0 .. 15
<1>1. h.type \in 0 .. 15
  BY HeaderFields
<1> QED
  BY <1>1, SMT DEF Resolved, Follows, ModEx, Multitrack

\* The first byte of a header.
LEMMA LeadIsByte ==
  ASSUME NEW h \in Headers
  PROVE  /\ Lead(h) \in Byte
         /\ High(Lead(h)) = IF h.video THEN 8 + h.frame ELSE 9
         /\ Low(Lead(h)) = Follows(h, 0)
<1>1. (IF h.video THEN 8 + h.frame ELSE 9) \in 0 .. 15
  <2>1. \A f \in 0 .. 7 : 8 + f \in 0 .. 15
    BY SMT
  <2>2. 9 \in 0 .. 15
    BY SMT
  <2> QED
    BY <2>1, <2>2, HeaderFields, Zenon
<1>2. (IF h.entries = <<>> THEN Resolved(h) ELSE ModEx) = Follows(h, 0)
  <2>1. h.entries = <<>> <=> Size(h) = 0
    BY HeaderFields, EmptySeq DEF Size
  <2> QED
    BY <2>1 DEF Follows
<1>3. Follows(h, 0) \in 0 .. 15
  BY ResolvedIsNibble, SMT DEF Follows, ModEx
<1> QED
  BY <1>1, <1>2, <1>3, NibblesFit DEF Lead

\* An entry that is in order is written as bytes.
LEMMA EntriesAreBytes ==
  ASSUME NEW e \in Entry, EntryIsValid(e), NEW next \in 0 .. 15
  PROVE  EmitEntry(e, next) \in Seq(Byte)
<1>1. e.raw \in Seq(Byte) /\ e.subtype \in 0 .. 15
  BY DEF Entry, EntryIsValid
<1>0. 1 <= Len(e.raw) /\ Len(e.raw) <= 65536 /\ Len(e.raw) \in Nat
  BY <1>1, LenProperties, SMT DEF EntryIsValid
<1>2. EncodeSize(Len(e.raw)) \in Seq(Byte)
  BY <1>0, SizesAreBytes, SMT
<1>3. <<Pack(e.subtype, next)>> \in Seq(Byte)
  <2>1. Pack(e.subtype, next) \in Byte
    BY <1>1, NibblesFit
  <2> QED
    BY <2>1
<1>4. EncodeSize(Len(e.raw)) \o e.raw \in Seq(Byte)
  BY <1>1, <1>2, ConcatProperties
<1> QED
  BY <1>3, <1>4, ConcatProperties DEF EmitEntry

\* What the last two steps look at.
LEMMA OffsetChecks ==
  ASSUME NEW h, NEW b, NEW s,
         s = Check((h.cto # None <=> HasCto(h)) /\ (h.cto # None => FitsSI24(h.cto)), b)
  PROVE  s.ok <=> (h.cto # None <=> HasCto(h)) /\ (h.cto # None => FitsSI24(h.cto))
  BY Zenon DEF Check

\* The four checks of to_bytes, each as the condition it tests.
LEMMA CommandChecks ==
  ASSUME NEW h, NEW b, NEW s, s = Check(h.command # None <=> HasCommand(h), b)
  PROVE  s.ok <=> (h.command # None <=> HasCommand(h))
  BY Zenon DEF Check

\* Every step that is in order appends bytes.
LEMMA StepsAreBytes ==
  ASSUME NEW h \in Headers, NEW i \in 1 .. Len(Steps(h)), Steps(h)[i].ok
  PROVE  Steps(h)[i].bytes \in Seq(Byte)
<1> DEFINE n == Size(h)
<1>0. h.entries \in Seq(Entry)
  BY HeaderFields
<1>1. n \in Nat /\ Len(Steps(h)) = n + 6
  BY <1>0, StepsAre
<1>e. <<>> \in Seq(Byte)
  BY SMT
<1> HIDE DEF n
<1>2. CASE i = 1
  <2>1. Steps(h)[i] = Check(h.entries = <<>> => h.nanos = 0, <<Lead(h)>>)
    BY <1>0, <1>2, StepsAre, Zenon
  <2>2. Steps(h)[i].bytes = <<Lead(h)>>
    BY <2>1 DEF Check
  <2>3. Lead(h) \in Byte
    BY LeadIsByte
  <2> QED
    BY <2>2, <2>3
<1>3. CASE i = 2
  <2>1. Steps(h)[i] = Check(h.entries # <<>> => Resolved(h) # ModEx, <<>>)
    BY <1>0, <1>3, StepsAre, Zenon
  <2> QED
    BY <1>e, <2>1 DEF Check
<1>4. CASE i \in 3 .. n + 2
  <2>1. i - 2 \in 1 .. Size(h) /\ (i - 2) + 2 = i
    BY <1>1, <1>4, SMT DEF n
  <2> DEFINE e == h.entries[i - 2]
  <2>2. Steps(h)[i] = Check(EntryIsValid(e), EmitEntry(e, Follows(h, i - 2)))
    BY <1>0, <2>1, StepsAre
  <2>3. e \in Entry /\ Follows(h, i - 2) \in 0 .. 15
    BY <2>1, EntryFields, ResolvedIsNibble
  <2> HIDE DEF e
  <2>4. EntryIsValid(e) /\ Steps(h)[i].bytes = EmitEntry(e, Follows(h, i - 2))
    BY <2>2 DEF Check
  <2> QED
    BY <2>3, <2>4, EntriesAreBytes
<1>5. CASE i = n + 3
  <2>1. Steps(h)[i] = Check(h.layout # None => h.type # Multitrack(h.video),
                            Optional(h.layout # None, <<Pack(h.layout, h.type)>>))
    BY <1>0, <1>5, StepsAre, Zenon DEF n
  <2>2. Steps(h)[i].bytes = Optional(h.layout # None, <<Pack(h.layout, h.type)>>)
    BY <2>1 DEF Check
  <2>3. h.layout # None => Pack(h.layout, h.type) \in Byte
    BY HeaderFields, NibblesFit
  <2> QED
    BY <1>e, <2>2, <2>3 DEF Optional
<1>6. CASE i = n + 4
  <2>1. Steps(h)[i] = Check(h.fourcc = <<>> <=> h.layout = ManyCodecs, h.fourcc)
    BY <1>0, <1>6, StepsAre, Zenon DEF n
  <2>2. Steps(h)[i].bytes = h.fourcc
    BY <2>1 DEF Check
  <2> QED
    BY <1>e, <2>2, HeaderFields, FourCcIsSeq
<1>7. CASE i = n + 5
  <2>1. Steps(h)[i] = Check((h.cto # None <=> HasCto(h)) /\ (h.cto # None => FitsSI24(h.cto)),
                            IF h.cto = None THEN <<>> ELSE SI24(h.cto))
    BY <1>0, <1>7, StepsAre, Zenon DEF n
  <2>2. CASE h.cto = None
    <3>1. Steps(h)[i].bytes = <<>>
      BY <2>1, <2>2 DEF Check
    <3> QED
      BY <1>e, <3>1
  <2>3. CASE h.cto # None
    <3>1. Steps(h)[i].bytes = SI24(h.cto)
      BY <2>1, <2>3 DEF Check
    <3>2. FitsSI24(h.cto)
      <4>1. Steps(h)[i].ok <=> (h.cto # None <=> HasCto(h)) /\ (h.cto # None => FitsSI24(h.cto))
        BY <2>1, OffsetChecks
      <4> QED
        BY <2>3, <4>1, Zenon
    <3>3. h.cto \in Int
      BY <2>3, HeaderFields, Zenon
    <3> QED
      BY <3>1, <3>2, <3>3, OffsetsAreBytes
  <2> QED
    BY <2>2, <2>3
<1>8. CASE i = n + 6
  <2>1. Steps(h)[i] = Check(h.command # None <=> HasCommand(h),
                            Optional(h.command # None, <<h.command>>))
    BY <1>0, <1>8, StepsAre, Zenon DEF n
  <2>2. Steps(h)[i].bytes = Optional(h.command # None, <<h.command>>)
    BY <2>1 DEF Check
  <2>3. h.command # None => h.command \in Byte
    BY HeaderFields
  <2> QED
    BY <1>e, <2>2, <2>3 DEF Optional
<1>9. i = 1 \/ i = 2 \/ i \in 3 .. n + 2 \/ i = n + 3 \/ i = n + 4 \/ i = n + 5 \/ i = n + 6
  BY <1>1, SMT
<1> QED
  BY <1>2, <1>3, <1>4, <1>5, <1>6, <1>7, <1>8, <1>9

\* Where the parts of a header lie: a step that was passed stands behind the one
\* before it, and behind one that was not there is nothing.
LEMMA PartsAre ==
  ASSUME NEW h \in Headers
  PROVE  /\ Parts(h) \in Seq(Seq(Byte)) /\ Len(Parts(h)) = Size(h) + 6
         /\ \A i \in 1 .. Size(h) + 6 :
              Parts(h)[i] = IF Passed(h, i) THEN Steps(h)[i].bytes ELSE <<>>
<1>1. h.entries \in Seq(Entry)
  BY HeaderFields
<1>2. Size(h) \in Nat /\ Len(Steps(h)) = Size(h) + 6
  BY <1>1, StepsAre
<1>3. \A i \in 1 .. Size(h) + 6 :
        Parts(h)[i] = IF Passed(h, i) THEN Steps(h)[i].bytes ELSE <<>>
  BY <1>2 DEF Parts, Optional
<1>4. \A i \in 1 .. Size(h) + 6 : Parts(h)[i] \in Seq(Byte)
  <2>1. ASSUME NEW i \in 1 .. Size(h) + 6, Passed(h, i) PROVE Steps(h)[i].ok
    <3>1. i \in 1 .. i
      BY <1>2, SMT
    <3> QED
      BY <2>1, <3>1 DEF Passed
  <2>2. <<>> \in Seq(Byte)
    BY SMT
  <2> QED
    BY <1>2, <1>3, <2>1, <2>2, StepsAreBytes
<1> DEFINE n == Size(h) + 6
<1>5. n \in Nat /\ DOMAIN Parts(h) = 1 .. n /\ Parts(h) = [i \in 1 .. n |-> Parts(h)[i]]
  BY <1>2, SMT DEF Parts
<1>6. \A i \in 1 .. n : Parts(h)[i] \in Seq(Byte)
  BY <1>4
<1> HIDE DEF n
<1>7. Parts(h) \in [1 .. n -> Seq(Byte)]
  BY <1>5, <1>6, Zenon
<1>8. Parts(h) \in Seq(Seq(Byte)) /\ Len(Parts(h)) = n
  BY <1>5, <1>7, IsASeq, LenProperties, SMT
<1> QED
  BY <1>3, <1>8 DEF n

\* A step is passed when the steps before it are and it is in order.
LEMMA PassedIs ==
  ASSUME NEW h \in Headers, NEW i \in 1 .. Size(h) + 6
  PROVE  /\ Passed(h, i) <=> Passed(h, i - 1) /\ Steps(h)[i].ok
         /\ \A j \in 0 .. i : Passed(h, i) => Passed(h, j)
         /\ Passed(h, 0)
<1>1. Size(h) \in Nat
  BY HeaderFields, StepsAre
<1>2. /\ \A j \in 1 .. i : j = i \/ j \in 1 .. i - 1
      /\ i \in 1 .. i /\ \A j \in 1 .. i - 1 : j \in 1 .. i
      /\ \A j \in 0 .. i : \A k \in 1 .. j : k \in 1 .. i
      /\ \A k \in 1 .. 0 : FALSE
  BY <1>1, SMT
<1> QED
  BY <1>2, Zenon DEF Passed

\* A header is accepted when its last step is passed.
LEMMA AcceptedIs ==
  ASSUME NEW h \in Headers
  PROVE  Accepted(h) <=> Passed(h, Size(h) + 6)
<1>1. Len(Steps(h)) = Size(h) + 6
  BY HeaderFields, StepsAre
<1> QED
  BY <1>1 DEF Accepted, Passed

\* Where the parts lie in what to_bytes leaves in the buffer.
LEMMA MarksAre ==
  ASSUME NEW h \in Headers
  PROVE  /\ HeaderBytes(h) \in Seq(Byte) /\ Len(HeaderBytes(h)) \in Nat
         /\ Mark(h, 0) = 0 /\ Mark(h, Size(h) + 6) = Len(HeaderBytes(h))
         /\ \A i \in 0 .. Size(h) + 6 : Mark(h, i) \in Nat /\ Mark(h, i) <= Len(HeaderBytes(h))
         /\ \A i \in 1 .. Size(h) + 6 : Passed(h, i) =>
              /\ Steps(h)[i].bytes \in Seq(Byte)
              /\ Mark(h, i) = Mark(h, i - 1) + Len(Steps(h)[i].bytes)
              /\ Stands(Steps(h)[i].bytes, HeaderBytes(h), Mark(h, i - 1))
         /\ \A i \in 1 .. Size(h) + 6 : ~Passed(h, i) =>
              Mark(h, i - 1) = Len(HeaderBytes(h)) /\ Mark(h, i) = Len(HeaderBytes(h))
<1> DEFINE n == Size(h) + 6
           ss == Parts(h)
           b == HeaderBytes(h)
<1>1. /\ ss \in Seq(Seq(Byte)) /\ Len(ss) = n /\ n \in Nat
      /\ \A i \in 1 .. n : ss[i] = IF Passed(h, i) THEN Steps(h)[i].bytes ELSE <<>>
  <2>1. Size(h) \in Nat
    BY HeaderFields, StepsAre
  <2>2. n \in Nat
    BY <2>1, SMT
  <2> QED
    BY <2>2, PartsAre
<1>2. b = FlattenSeq(ss)
  BY DEF HeaderBytes, Parts, Passed
<1> HIDE DEF b, n, ss
<1>3. /\ b \in Seq(Byte)
      /\ Len(b) = Ends(ss)[n]
      /\ \A i \in 1 .. n : Stands(ss[i], b, Ends(ss)[i - 1])
  BY <1>1, <1>2, FlattenIs
<1>4. /\ Ends(ss) \in [0 .. n -> Nat]
      /\ Ends(ss)[0] = 0
      /\ \A i \in 1 .. n : Ends(ss)[i] = Ends(ss)[i - 1] + Len(ss[i])
  BY <1>1, EndsAre
<1>5. Len(b) \in Nat
  BY <1>3, LenProperties
<1>6. \A i \in 0 .. n : Ends(ss)[i] \in Nat /\ Ends(ss)[i] <= Len(b)
  <2>1. ASSUME NEW i \in 0 .. n PROVE n \in i .. n
    BY <1>1, SMT
  <2> QED
    BY <1>1, <1>3, <1>4, <2>1, EndsGrow
<1>7. ASSUME NEW i \in 1 .. n, ~Passed(h, i)
      PROVE  Ends(ss)[i - 1] = Len(b) /\ Ends(ss)[i] = Len(b)
  <2>1. ASSUME NEW j \in i .. n PROVE ss[j] = <<>>
    <3>1. j \in 1 .. n /\ i \in 0 .. j
      BY <1>1, SMT
    <3>2. ~Passed(h, j)
      BY <1>7, <3>1, PassedIs DEF n
    <3> QED
      BY <1>1, <3>1, <3>2
  <2>2. i - 1 \in 0 .. n /\ n \in i - 1 .. n /\ \A m \in (i - 1) + 1 .. n : m \in i .. n
    BY <1>1, SMT
  <2>3. Ends(ss)[i - 1] = Ends(ss)[n]
    BY <1>1, <2>1, <2>2, EndsGrow
  <2>4. i \in 0 .. n /\ n \in i .. n /\ \A m \in i + 1 .. n : m \in i .. n
    BY <1>1, SMT
  <2>5. Ends(ss)[i] = Ends(ss)[n]
    BY <1>1, <2>1, <2>4, EndsGrow
  <2> QED
    BY <1>3, <2>3, <2>5
<1>8. ASSUME NEW i \in 1 .. n, Passed(h, i)
      PROVE  /\ Steps(h)[i].bytes \in Seq(Byte)
             /\ Ends(ss)[i] = Ends(ss)[i - 1] + Len(Steps(h)[i].bytes)
             /\ Stands(Steps(h)[i].bytes, b, Ends(ss)[i - 1])
  <2>1. ss[i] = Steps(h)[i].bytes
    BY <1>1, <1>8
  <2>2. ss[i] \in Seq(Byte)
    BY <1>1, ElementOfSeq
  <2> QED
    BY <1>3, <1>4, <2>1, <2>2
<1> QED
  BY <1>3, <1>4, <1>5, <1>6, <1>7, <1>8 DEF b, n, ss, Mark

\* What the first steps look at.
LEMMA LeadChecks ==
  ASSUME NEW h, NEW b, NEW s, s = Check(h.entries = <<>> => h.nanos = 0, b)
  PROVE  s.ok <=> (h.entries = <<>> => h.nanos = 0)
  BY Zenon DEF Check

LEMMA ChainChecks ==
  ASSUME NEW h, NEW b, NEW s, s = Check(h.entries # <<>> => Resolved(h) # ModEx, b)
  PROVE  s.ok <=> (h.entries # <<>> => Resolved(h) # ModEx)
  BY Zenon DEF Check

LEMMA LayoutChecks ==
  ASSUME NEW h, NEW b, NEW s, s = Check(h.layout # None => h.type # Multitrack(h.video), b)
  PROVE  s.ok <=> (h.layout # None => h.type # Multitrack(h.video))
  BY Zenon DEF Check

LEMMA FourCcChecks ==
  ASSUME NEW h, NEW b, NEW s, s = Check(h.fourcc = <<>> <=> h.layout = ManyCodecs, b)
  PROVE  s.ok <=> (h.fourcc = <<>> <=> h.layout = ManyCodecs)
  BY Zenon DEF Check

\* What the steps of to_bytes look at and append.
LEMMA StepFacts ==
  ASSUME NEW h, NEW A, h.entries \in Seq(A)
  PROVE  /\ Size(h) \in Nat /\ Len(Steps(h)) = Size(h) + 6
         /\ Steps(h)[1].ok <=> (h.entries = <<>> => h.nanos = 0)
         /\ Steps(h)[1].bytes = <<Lead(h)>>
         /\ Steps(h)[2].ok <=> (h.entries # <<>> => Resolved(h) # ModEx)
         /\ Steps(h)[2].bytes = <<>>
         /\ \A i \in 1 .. Size(h) :
              /\ Steps(h)[i + 2].ok <=> EntryIsValid(h.entries[i])
              /\ Steps(h)[i + 2].bytes = EmitEntry(h.entries[i], Follows(h, i))
         /\ Steps(h)[Size(h) + 3].ok <=> (h.layout # None => h.type # Multitrack(h.video))
         /\ Steps(h)[Size(h) + 3].bytes = Optional(h.layout # None, <<Pack(h.layout, h.type)>>)
         /\ Steps(h)[Size(h) + 4].ok <=> (h.fourcc = <<>> <=> h.layout = ManyCodecs)
         /\ Steps(h)[Size(h) + 4].bytes = h.fourcc
         /\ Steps(h)[Size(h) + 5].ok <=>
              (h.cto # None <=> HasCto(h)) /\ (h.cto # None => FitsSI24(h.cto))
         /\ Steps(h)[Size(h) + 5].bytes = IF h.cto = None THEN <<>> ELSE SI24(h.cto)
         /\ Steps(h)[Size(h) + 6].ok <=> (h.command # None <=> HasCommand(h))
         /\ Steps(h)[Size(h) + 6].bytes = Optional(h.command # None, <<h.command>>)
<1>1. /\ Steps(h)[1].ok <=> (h.entries = <<>> => h.nanos = 0)
      /\ Steps(h)[1].bytes = <<Lead(h)>>
  <2>1. Steps(h)[1] = Check(h.entries = <<>> => h.nanos = 0, <<Lead(h)>>)
    BY StepsAre, Zenon
  <2>2. Steps(h)[1].bytes = <<Lead(h)>>
    BY <2>1 DEF Check
  <2> QED
    BY <2>1, <2>2, LeadChecks
<1>2. /\ Steps(h)[2].ok <=> (h.entries # <<>> => Resolved(h) # ModEx)
      /\ Steps(h)[2].bytes = <<>>
  <2>1. Steps(h)[2] = Check(h.entries # <<>> => Resolved(h) # ModEx, <<>>)
    BY StepsAre, Zenon
  <2>2. Steps(h)[2].bytes = <<>>
    BY <2>1 DEF Check
  <2> QED
    BY <2>1, <2>2, ChainChecks
<1>3. ASSUME NEW i \in 1 .. Size(h)
      PROVE  /\ Steps(h)[i + 2].ok <=> EntryIsValid(h.entries[i])
             /\ Steps(h)[i + 2].bytes = EmitEntry(h.entries[i], Follows(h, i))
  <2>1. Steps(h)[i + 2] = Check(EntryIsValid(h.entries[i]),
                                EmitEntry(h.entries[i], Follows(h, i)))
    BY StepsAre, Zenon
  <2> QED
    BY <2>1 DEF Check
<1>4. /\ Steps(h)[Size(h) + 3].ok <=> (h.layout # None => h.type # Multitrack(h.video))
      /\ Steps(h)[Size(h) + 3].bytes = Optional(h.layout # None, <<Pack(h.layout, h.type)>>)
  <2>1. Steps(h)[Size(h) + 3] = Check(h.layout # None => h.type # Multitrack(h.video),
                                      Optional(h.layout # None, <<Pack(h.layout, h.type)>>))
    BY StepsAre, Zenon
  <2>2. Steps(h)[Size(h) + 3].bytes = Optional(h.layout # None, <<Pack(h.layout, h.type)>>)
    BY <2>1 DEF Check
  <2> QED
    BY <2>1, <2>2, LayoutChecks
<1>5. /\ Steps(h)[Size(h) + 4].ok <=> (h.fourcc = <<>> <=> h.layout = ManyCodecs)
      /\ Steps(h)[Size(h) + 4].bytes = h.fourcc
  <2>1. Steps(h)[Size(h) + 4] = Check(h.fourcc = <<>> <=> h.layout = ManyCodecs, h.fourcc)
    BY StepsAre, Zenon
  <2>2. Steps(h)[Size(h) + 4].bytes = h.fourcc
    BY <2>1 DEF Check
  <2> QED
    BY <2>1, <2>2, FourCcChecks
<1>6. /\ Steps(h)[Size(h) + 5].ok <=>
           (h.cto # None <=> HasCto(h)) /\ (h.cto # None => FitsSI24(h.cto))
      /\ Steps(h)[Size(h) + 5].bytes = IF h.cto = None THEN <<>> ELSE SI24(h.cto)
  <2>1. Steps(h)[Size(h) + 5] =
          Check((h.cto # None <=> HasCto(h)) /\ (h.cto # None => FitsSI24(h.cto)),
                IF h.cto = None THEN <<>> ELSE SI24(h.cto))
    BY StepsAre, Zenon
  <2>2. Steps(h)[Size(h) + 5].bytes = IF h.cto = None THEN <<>> ELSE SI24(h.cto)
    BY <2>1 DEF Check
  <2> QED
    BY <2>1, <2>2, OffsetChecks
<1>7. /\ Steps(h)[Size(h) + 6].ok <=> (h.command # None <=> HasCommand(h))
      /\ Steps(h)[Size(h) + 6].bytes = Optional(h.command # None, <<h.command>>)
  <2>1. Steps(h)[Size(h) + 6] = Check(h.command # None <=> HasCommand(h),
                                      Optional(h.command # None, <<h.command>>))
    BY StepsAre, Zenon
  <2>2. Steps(h)[Size(h) + 6].bytes = Optional(h.command # None, <<h.command>>)
    BY <2>1 DEF Check
  <2> QED
    BY <2>1, <2>2, CommandChecks
<1>8. Size(h) \in Nat /\ Len(Steps(h)) = Size(h) + 6
  BY StepsAre, Zenon
<1> QED
  BY <1>1, <1>2, <1>3, <1>4, <1>5, <1>6, <1>7, <1>8

(***************************************************************************)
(* Where the records of a batch lie.                                       *)
(***************************************************************************)
Records(layout, batch) == [i \in 1 .. Len(batch) |-> JoinTrack(layout, batch[i])]

\* What a track of a batch holds.
JoinedTrack == [id : Byte, fourcc : FourCc, payload : Seq(Byte)]

\* What a batch of tracks holds.
LEMMA BatchFields ==
  ASSUME NEW batch \in Batches \cup {<<>>}
  PROVE  /\ batch \in Seq(JoinedTrack) /\ Len(batch) \in Nat
         /\ \A i \in 1 .. Len(batch) :
              /\ batch[i].id \in Byte /\ batch[i].fourcc \in FourCc
              /\ batch[i].payload \in Seq(Byte) /\ Len(batch[i].payload) \in Nat
<1>1. batch \in Seq(JoinedTrack)
  <2>1. <<>> \in Seq(JoinedTrack)
    BY SMT
  <2> QED
    BY <2>1, BodiesAssumption DEF JoinedTrack
<1>2. Len(batch) \in Nat /\ \A i \in 1 .. Len(batch) : batch[i] \in JoinedTrack
  BY <1>1, LenProperties, ElementOfSeq
<1>3. \A t \in JoinedTrack : t.id \in Byte /\ t.fourcc \in FourCc /\ t.payload \in Seq(Byte)
  BY DEF JoinedTrack
<1> QED
  BY <1>1, <1>2, <1>3, LenProperties

\* Of two sequences that stand together each one stands for itself.
LEMMA StandsInParts ==
  ASSUME NEW S, NEW s \in Seq(S), NEW t \in Seq(S), NEW b, NEW c \in Nat, Stands(s \o t, b, c)
  PROVE  Stands(s, b, c) /\ Stands(t, b, c + Len(s))
<1>1. /\ Len(s) \in Nat /\ Len(t) \in Nat /\ Len(s \o t) = Len(s) + Len(t)
      /\ \A i \in 1 .. Len(s) + Len(t) : (s \o t)[i] = IF i <= Len(s) THEN s[i] ELSE t[i - Len(s)]
  BY ConcatProperties, LenProperties
<1>2. \A i \in 1 .. Len(s) + Len(t) : b[c + i] = IF i <= Len(s) THEN s[i] ELSE t[i - Len(s)]
  BY <1>1 DEF Stands
<1>3. ASSUME NEW i \in 1 .. Len(s) PROVE b[c + i] = s[i]
  <2>1. i \in 1 .. Len(s) + Len(t) /\ i <= Len(s)
    BY <1>1, SMT
  <2> QED
    BY <1>2, <2>1
<1>4. ASSUME NEW i \in 1 .. Len(t) PROVE b[(c + Len(s)) + i] = t[i]
  <2>1. /\ Len(s) + i \in 1 .. Len(s) + Len(t) /\ ~(Len(s) + i <= Len(s))
        /\ (Len(s) + i) - Len(s) = i /\ c + (Len(s) + i) = (c + Len(s)) + i
    BY <1>1, SMT
  <2> QED
    BY <1>2, <2>1
<1> QED
  BY <1>3, <1>4 DEF Stands

\* What a record is made of, by the layout.
LEMMA RecordIs ==
  ASSUME NEW layout, NEW t, t.id \in Byte, t.fourcc \in FourCc, t.payload \in Seq(Byte),
         Len(t.payload) \in Nat, layout = OneTrack \/ Len(t.payload) <= MaxTrackPayload
  PROVE  /\ JoinTrack(layout, t) \in Seq(Byte)
         /\ Len(JoinTrack(layout, t)) =
              (IF layout = ManyCodecs THEN 8 ELSE IF layout = OneTrack THEN 1 ELSE 4) + Len(t.payload)
         /\ \A b : \A c \in Nat : Stands(JoinTrack(layout, t), b, c) =>
              LET at == IF layout = ManyCodecs THEN c + 4 ELSE c
                  from == IF layout = OneTrack THEN at + 1 ELSE at + 4
              IN /\ b[at + 1] = t.id
                 /\ layout = ManyCodecs => Stands(t.fourcc, b, c)
                 /\ layout # OneTrack => Number24(b, at + 1) = Len(t.payload)
                 /\ Stands(t.payload, b, from)
<1> DEFINE l == IF layout = ManyCodecs THEN t.fourcc ELSE <<>>
           m == <<t.id>>
           r == IF layout # OneTrack THEN UI24(Len(t.payload)) ELSE <<>>
           p == t.payload
<1>1. /\ l \in Seq(Byte) /\ Len(l) = IF layout = ManyCodecs THEN 4 ELSE 0
      /\ m \in Seq(Byte) /\ Len(m) = 1 /\ m[1] = t.id
      /\ r \in Seq(Byte) /\ Len(r) = IF layout # OneTrack THEN 3 ELSE 0
      /\ p \in Seq(Byte)
  <2>1. <<>> \in Seq(Byte) /\ Len(<<>>) = 0
    BY SMT
  <2>2. l \in Seq(Byte) /\ Len(l) = IF layout = ManyCodecs THEN 4 ELSE 0
    <3>1. CASE layout = ManyCodecs
      BY <3>1, FourCcIsSeq
    <3>2. CASE layout # ManyCodecs
      BY <2>1, <3>2
    <3> QED
      BY <3>1, <3>2
  <2>3. m \in Seq(Byte) /\ Len(m) = 1 /\ m[1] = t.id
    OBVIOUS
  <2>4. r \in Seq(Byte) /\ Len(r) = IF layout # OneTrack THEN 3 ELSE 0
    <3>1. CASE layout = OneTrack
      BY <2>1, <3>1
    <3>2. CASE layout # OneTrack
      <4>1. Len(t.payload) < 16777216
        <5>1. Len(t.payload) <= MaxTrackPayload
          BY <3>2
        <5> QED
          BY <5>1, SMT DEF MaxTrackPayload
      <4>2. UI24(Len(t.payload)) \in Seq(Byte) /\ Len(UI24(Len(t.payload))) = 3
        BY <4>1, TriplesAreBytes, SMT
      <4> QED
        BY <3>2, <4>2, SMT
    <3> QED
      BY <3>1, <3>2, SMT
  <2> QED
    BY <2>2, <2>3, <2>4, Zenon
<1>2. JoinTrack(layout, t) = ((l \o m) \o r) \o p
  BY DEF JoinTrack, Optional
<1> HIDE DEF l, m, r, p
<1>3. l \o m \in Seq(Byte) /\ Len(l \o m) = Len(l) + Len(m)
  BY <1>1, ConcatProperties
<1>4. (l \o m) \o r \in Seq(Byte) /\ Len((l \o m) \o r) = Len(l \o m) + Len(r)
  BY <1>1, <1>3, ConcatProperties
<1>5. ((l \o m) \o r) \o p \in Seq(Byte) /\ Len(((l \o m) \o r) \o p) = Len((l \o m) \o r) + Len(p)
  BY <1>1, <1>4, ConcatProperties
<1>6. JoinTrack(layout, t) \in Seq(Byte)
  BY <1>2, <1>5
<1>7. ManyCodecs # OneTrack
  BY SMT DEF ManyCodecs, OneTrack
<1>8. Len(p) = Len(t.payload)
  BY DEF p
<1>9. Len(JoinTrack(layout, t)) =
        (IF layout = ManyCodecs THEN 8 ELSE IF layout = OneTrack THEN 1 ELSE 4) + Len(t.payload)
  <2>1. Len(JoinTrack(layout, t)) = ((Len(l) + 1) + Len(r)) + Len(p)
    BY <1>1, <1>2, <1>3, <1>4, <1>5
  <2>2. Len(p) \in Nat
    BY <1>8
  <2>3. CASE layout = ManyCodecs
    <3>1. Len(l) = 4 /\ Len(r) = 3
      BY <1>1, <1>7, <2>3
    <3>2. Len(JoinTrack(layout, t)) = ((4 + 1) + 3) + Len(p)
      BY <2>1, <3>1
    <3> QED
      BY <1>8, <2>2, <2>3, <3>2, SMT
  <2>4. CASE layout = OneTrack
    <3>1. Len(l) = 0 /\ Len(r) = 0
      BY <1>1, <1>7, <2>4
    <3>2. Len(JoinTrack(layout, t)) = ((0 + 1) + 0) + Len(p)
      BY <2>1, <3>1
    <3>3. (IF layout = ManyCodecs THEN 8 ELSE IF layout = OneTrack THEN 1 ELSE 4) = 1
      BY <1>7, <2>4
    <3>4. \A n \in Nat : ((0 + 1) + 0) + n = 1 + n
      BY SMT
    <3> QED
      BY <1>8, <2>2, <3>2, <3>3, <3>4
  <2>5. CASE layout # ManyCodecs /\ layout # OneTrack
    <3>1. Len(l) = 0 /\ Len(r) = 3
      BY <1>1, <2>5
    <3>2. Len(JoinTrack(layout, t)) = ((0 + 1) + 3) + Len(p)
      BY <2>1, <3>1
    <3>3. (IF layout = ManyCodecs THEN 8 ELSE IF layout = OneTrack THEN 1 ELSE 4) = 4
      BY <2>5
    <3>4. \A n \in Nat : ((0 + 1) + 3) + n = 4 + n
      BY SMT
    <3> QED
      BY <1>8, <2>2, <3>2, <3>3, <3>4
  <2> QED
    BY <2>3, <2>4, <2>5
<1>10. ASSUME NEW b, NEW c \in Nat, Stands(JoinTrack(layout, t), b, c)
       PROVE  LET at == IF layout = ManyCodecs THEN c + 4 ELSE c
                  from == IF layout = OneTrack THEN at + 1 ELSE at + 4
              IN /\ b[at + 1] = t.id
                 /\ layout = ManyCodecs => Stands(t.fourcc, b, c)
                 /\ layout # OneTrack => Number24(b, at + 1) = Len(t.payload)
                 /\ Stands(t.payload, b, from)
  <2> DEFINE at == IF layout = ManyCodecs THEN c + 4 ELSE c
             from == IF layout = OneTrack THEN at + 1 ELSE at + 4
  <2>1. at \in Nat /\ at = c + Len(l)
    BY <1>1, SMT
  <2>2. Stands(((l \o m) \o r) \o p, b, c)
    BY <1>2, <1>10
  <2>3. Stands((l \o m) \o r, b, c) /\ Stands(p, b, c + Len((l \o m) \o r))
    BY <1>1, <1>4, <2>2, StandsInParts
  <2>4. Stands(l \o m, b, c) /\ Stands(r, b, c + Len(l \o m))
    BY <1>1, <1>3, <2>3, StandsInParts
  <2>5. Stands(l, b, c) /\ Stands(m, b, c + Len(l))
    BY <1>1, <2>4, StandsInParts
  <2>6. b[at + 1] = t.id
    <3>1. 1 \in 1 .. Len(m)
      BY <1>1, SMT
    <3>2. b[(c + Len(l)) + 1] = m[1]
      BY <2>5, <3>1 DEF Stands
    <3> QED
      BY <1>1, <2>1, <3>2
  <2>7. layout = ManyCodecs => Stands(t.fourcc, b, c)
    BY <2>5 DEF l
  <2>8. layout # OneTrack => Number24(b, at + 1) = Len(t.payload)
    <3> SUFFICES ASSUME layout # OneTrack PROVE Number24(b, at + 1) = Len(t.payload)
      OBVIOUS
    <3>1. Len(t.payload) \in Nat /\ Len(t.payload) < 16777216
      <4>1. Len(t.payload) <= MaxTrackPayload
        OBVIOUS
      <4> QED
        BY <4>1, SMT DEF MaxTrackPayload
    <3>2. c + Len(l \o m) = at + 1 /\ at + 1 \in Nat
      BY <1>1, <1>3, <2>1, SMT
    <3>3. Stands(UI24(Len(t.payload)), b, at + 1)
      BY <2>4, <3>2 DEF r
    <3> QED
      BY <3>1, <3>2, <3>3, TriplesComeBack, SMT
  <2>9. Stands(t.payload, b, from)
    <3>1. from = c + Len((l \o m) \o r)
      BY <1>1, <1>3, <1>4, <1>7, <2>1, SMT
    <3> QED
      BY <2>3, <3>1 DEF p
  <2> QED
    BY <2>6, <2>7, <2>8, <2>9
<1> QED
  BY <1>6, <1>9, <1>10

\* What join_tracks writes: record after record.
LEMMA JoinedIs ==
  ASSUME NEW layout, NEW batch \in Batches \cup {<<>>}, batch = <<>> \/ Joinable(layout, batch)
  PROVE  LET ends == Ends(Records(layout, batch))
             n == Len(batch)
         IN /\ JoinTracks(layout, batch) \in Seq(Byte)
            /\ Len(JoinTracks(layout, batch)) = ends[n]
            /\ ends[0] = 0 /\ n \in Nat
            /\ \A i \in 0 .. n : ends[i] \in Nat /\ ends[i] <= ends[n]
            /\ \A i \in 1 .. n :
                 /\ ends[i] = ends[i - 1] + Len(JoinTrack(layout, batch[i]))
                 /\ Stands(JoinTrack(layout, batch[i]), JoinTracks(layout, batch), ends[i - 1])
                 /\ Len(batch[i].payload) <= MaxTrackPayload \/ layout = OneTrack
<1> DEFINE ss == Records(layout, batch)
           n == Len(batch)
           b == JoinTracks(layout, batch)
<1>1. n \in Nat
  BY BatchFields
<1>2. ASSUME NEW i \in 1 .. n
      PROVE  /\ JoinTrack(layout, batch[i]) \in Seq(Byte)
             /\ layout = OneTrack \/ Len(batch[i].payload) <= MaxTrackPayload
  <2>1. batch # <<>>
    <3>1. Len(<<>>) = 0 /\ ~(1 <= 0)
      BY SMT
    <3>2. 1 <= n
      BY <1>1, SMT
    <3> QED
      BY <3>1, <3>2
  <2>2. layout = OneTrack \/ Len(batch[i].payload) <= MaxTrackPayload
    BY <2>1 DEF Joinable
  <2>3. /\ batch[i].id \in Byte /\ batch[i].fourcc \in FourCc
        /\ batch[i].payload \in Seq(Byte) /\ Len(batch[i].payload) \in Nat
    BY BatchFields
  <2> QED
    BY <2>2, <2>3, RecordIs
<1>3. ss = [i \in 1 .. n |-> JoinTrack(layout, batch[i])] /\ b = FlattenSeq(ss)
  BY DEF Records, JoinTracks
<1> HIDE DEF ss, n, b
<1>4. ss \in [1 .. n -> Seq(Byte)]
  BY <1>2, <1>3
<1>5. ss \in Seq(Seq(Byte)) /\ Len(ss) = n
  BY <1>1, <1>4, RangesAreSeqs
<1>6. \A i \in 1 .. n : ss[i] = JoinTrack(layout, batch[i])
  BY <1>3
<1>7. /\ b \in Seq(Byte) /\ Len(b) = Ends(ss)[n]
      /\ \A i \in 1 .. n : Stands(ss[i], b, Ends(ss)[i - 1])
  BY <1>3, <1>5, FlattenIs
<1>8. /\ Ends(ss) \in [0 .. n -> Nat]
      /\ Ends(ss)[0] = 0
      /\ \A i \in 1 .. n : Ends(ss)[i] = Ends(ss)[i - 1] + Len(ss[i])
  BY <1>5, EndsAre
<1>9. \A i \in 0 .. n : Ends(ss)[i] \in Nat /\ Ends(ss)[i] <= Ends(ss)[n]
  <2>1. ASSUME NEW i \in 0 .. n PROVE n \in i .. n
    BY <1>1, SMT
  <2> QED
    BY <1>5, <1>8, <2>1, EndsGrow
<1> QED
  BY <1>1, <1>2, <1>6, <1>7, <1>8, <1>9 DEF ss, n, b

(***************************************************************************)
(* The reader on any body.                                                 *)
(***************************************************************************)
Fields == DOMAIN Blank(TRUE)

Track == [id : Byte, fourcc : Seq(Byte), from : Nat, to : Nat]

\* What the variables of the reader hold.
Held ==
  /\ video \in BOOLEAN /\ stage \in Stages
  /\ wire \in Seq(Byte)
  /\ cursor \in 0 .. Len(wire)
  /\ DOMAIN read = Fields
  /\ read.fourcc \in Seq(Byte)
  /\ read.consumed \in 0 .. cursor
  /\ tracks \in Seq(Track)

\* Only split_tracks makes tracks, and only a header that has them leads to it.
Splits ==
  /\ stage \notin {"tracks", "done"} => tracks = <<>>
  /\ stage \in {"writing", "lead"} => cursor = 0
  /\ stage = "done" /\ read.layout = None => tracks = <<>>
  /\ \A i \in 1 .. Len(tracks) : tracks[i].from <= tracks[i].to /\ tracks[i].to <= cursor

IInv == Held /\ Splits /\ TracksTile

\* What parse starts from.
LEMMA BlankHeader ==
  ASSUME NEW v
  PROVE  /\ DOMAIN Blank(v) = Fields
         /\ Blank(v).consumed = 0 /\ Blank(v).fourcc = <<>> /\ Blank(v).layout = None
  BY SMT DEF Blank, Fields

\* IInv holds at the start.
LEMMA IInvStarts == Init => IInv
<1> SUFFICES ASSUME Init PROVE IInv
  OBVIOUS
<1>1. /\ video \in BOOLEAN /\ stage = "writing" /\ cursor = 0
      /\ wire = <<>> /\ tracks = <<>> /\ read = Blank(video)
  BY DEF Init
<1>2. /\ DOMAIN read = Fields /\ read.consumed = 0 /\ read.fourcc = <<>>
  BY <1>1, BlankHeader
<1>3. <<>> \in Seq(Byte) /\ <<>> \in Seq(Track) /\ Len(<<>>) = 0
  BY SMT
<1>4. Held
  BY <1>1, <1>2, <1>3, SMT DEF Held, Stages
<1>5. Splits /\ TracksTile
  BY <1>1, <1>2, <1>3, SMT DEF Splits, TracksTile
<1> QED
  BY <1>4, <1>5 DEF IInv

(***************************************************************************)
(* A step that leaves the tracks alone and has none keeps what is said of  *)
(* them.                                                                   *)
(***************************************************************************)
LEMMA WithoutTracks ==
  ASSUME tracks' = <<>>, Held',
         stage' \in {"tracks", "done"} => cursor' = read'.consumed,
         stage' = "done" => read'.layout = None,
         stage' \in {"writing", "lead"} => cursor' = 0
  PROVE  IInv'
<1>1. Len(tracks') = 0
  BY SMT
<1>2. Splits'
  BY <1>1, SMT DEF Splits
<1>3. TracksTile'
  BY <1>1, SMT DEF TracksTile
<1> QED
  BY <1>2, <1>3 DEF IInv

(***************************************************************************)
(* What arrives is a sequence of bytes.                                    *)
(***************************************************************************)
LEMMA BytesAreWritten ==
  ASSUME Write
  PROVE  wire' \in Seq(Byte)
<1>1. ASSUME NEW h \in Headers, Refuse(h) PROVE wire' \in Seq(Byte)
  BY <1>1, MarksAre DEF Refuse
<1>2. ASSUME NEW h \in Headers, NEW batch \in Batches \cup {<<>>},
             batch = <<>> \/ Joinable(h.layout, batch),
             NEW payload \in Seq(Byte), Send(h, batch, payload)
      PROVE  wire' \in Seq(Byte)
  <2>1. wire' = HeaderBytes(h) \o JoinTracks(h.layout, batch) \o payload
    BY <1>2 DEF Send
  <2>2. HeaderBytes(h) \in Seq(Byte) /\ JoinTracks(h.layout, batch) \in Seq(Byte)
    BY <1>2, MarksAre, JoinedIs
  <2>3. HeaderBytes(h) \o JoinTracks(h.layout, batch) \in Seq(Byte)
    BY <2>2, ConcatProperties
  <2> QED
    BY <2>1, <2>3, ConcatProperties
<1>e. <<>> \in Seq(Byte)
  BY SMT
<1>3. ASSUME NEW h \in Headers, NEW batch \in Batches, SendTracks(h, batch)
      PROVE  wire' \in Seq(Byte)
  BY <1>e, <1>2, <1>3 DEF SendTracks
<1>4. ASSUME NEW h \in Headers, NEW payload \in Payloads, SendPayload(h, payload)
      PROVE  wire' \in Seq(Byte)
  <2>1. payload \in Seq(Byte)
    BY BodiesAssumption
  <2>2. Send(h, <<>>, payload)
    BY <1>4 DEF SendPayload
  <2> QED
    BY <1>2, <2>1, <2>2
<1>5. ASSUME NEW body \in Noise, Receive(body) PROVE wire' \in Seq(Byte)
  BY <1>5, BodiesAssumption DEF Receive
<1> QED
  BY <1>1, <1>3, <1>4, <1>5 DEF Write

\* Whatever is written, IInv holds behind it.
LEMMA WritingKeeps ==
  ASSUME IInv, Write
  PROVE  IInv'
<1>1. /\ stage = "writing" /\ stage' = "lead"
      /\ UNCHANGED <<video, cursor, read, tracks>>
  BY DEF Write, Refuse, SendTracks, SendPayload, Send, Receive
<1>2. wire' \in Seq(Byte)
  BY BytesAreWritten
<1>3. Held /\ cursor = 0 /\ tracks = <<>>
  BY <1>1, SMT DEF IInv, Splits
<1>4. read.consumed = 0
  BY <1>3, SMT DEF Held
<1>5. 0 \in 0 .. Len(wire')
  <2>1. Len(wire') \in Nat
    BY <1>2, LenProperties
  <2> QED
    BY <2>1, SMT
<1>6. Held'
  BY <1>1, <1>2, <1>3, <1>4, <1>5, SMT DEF Held, Stages
<1> QED
  BY <1>1, <1>3, <1>6, WithoutTracks, SMT

\* A body that is cut is a body.
LEMMA CuttingKeeps ==
  ASSUME IInv, CutOff
  PROVE  IInv'
<1>1. /\ stage = "lead" /\ stage' = stage
      /\ UNCHANGED <<video, cursor, read, tracks>>
  BY DEF CutOff
<1>2. Held /\ cursor = 0 /\ tracks = <<>>
  BY <1>1, SMT DEF IInv, Splits
<1>3. wire' \in Seq(Byte) /\ Len(wire') \in Nat
  <2>1. PICK m \in 0 .. Len(wire) - 1 : wire' = SubSeq(wire, 1, m)
    BY DEF CutOff
  <2>2. wire \in Seq(Byte) /\ Len(wire) \in Nat
    BY <1>2, LenProperties DEF Held
  <2>3. SubSeq(wire, 1, m) \in Seq(Byte)
    BY <2>2, SMT
  <2> QED
    BY <2>1, <2>3, LenProperties
<1>4. read.consumed = 0
  BY <1>2, SMT DEF Held
<1>5. Held'
  BY <1>1, <1>2, <1>3, <1>4, SMT DEF Held
<1> QED
  BY <1>1, <1>2, <1>5, WithoutTracks, SMT

(***************************************************************************)
(* The header.                                                             *)
(***************************************************************************)
Parsing == {"lead", "modex", "fourcc", "extra"}

\* What a step of the header does: it may move on inside of the body and take
\* fields, but not take an end.
LEMMA MovingOn ==
  ASSUME IInv, stage \in Parsing, stage' \in Stages \ {"writing", "lead", "tracks", "done"},
         cursor' \in cursor .. Len(wire),
         DOMAIN read' = DOMAIN read, read'.consumed = read.consumed, read'.fourcc \in Seq(Byte),
         UNCHANGED <<video, wire, tracks>>
  PROVE  IInv'
<1>1. Held /\ tracks = <<>>
  BY SMT DEF IInv, Splits, Parsing
<1>2. Len(wire) \in Nat
  BY <1>1, LenProperties DEF Held
<1>3. Held'
  BY <1>1, <1>2, SMT DEF Held
<1> QED
  BY <1>1, <1>3, WithoutTracks, SMT

\* What IInv says of the bytes at hand.
LEMMA Facts ==
  ASSUME IInv
  PROVE  /\ wire \in Seq(Byte) /\ Len(wire) \in Nat
         /\ cursor \in 0 .. Len(wire)
         /\ \A i \in 1 .. Len(wire) : wire[i] \in Byte
         /\ DOMAIN read = Fields /\ read.fourcc \in Seq(Byte)
  BY LenProperties, ElementOfSeq DEF IInv, Held

\* The fields of a header.
LEMMA FieldNames ==
  Fields = {"video", "frame", "type", "fourcc", "layout", "entries", "nanos", "cto", "command", "consumed"}
  BY SMT DEF Fields, Blank

\* Numbers made of bytes are natural.
LEMMA Number16IsNat ==
  ASSUME NEW b, NEW c, b[c + 1] \in Nat, b[c + 2] \in Nat
  PROVE  Number16(b, c) \in Nat
<1>1. ASSUME NEW m \in Nat, NEW n \in Nat PROVE 256 * m + n \in Nat
  BY SMT
<1> QED
  BY <1>1, Zenon DEF Number16

LEMMA Number24IsNat ==
  ASSUME NEW b, NEW c, b[c + 1] \in Nat, b[c + 2] \in Nat, b[c + 3] \in Nat
  PROVE  Number24(b, c) \in Nat
<1> DEFINE x == b[c + 1]
           y == b[c + 2]
           z == b[c + 3]
<1>1. x \in Nat /\ y \in Nat /\ z \in Nat
  OBVIOUS
<1>2. Number24(b, c) = 65536 * x + 256 * y + z
  BY DEF Number24
<1> HIDE DEF x, y, z
<1>3. 65536 * x + 256 * y + z \in Nat
  BY <1>1, SMT
<1> QED
  BY <1>2, <1>3

\* A ModEx entry lies in the body, its type byte included.
LEMMA EntryInside ==
  ASSUME IInv, EntryFits
  PROVE  cursor + SizeWidth(wire, cursor) + DecodeSize(wire, cursor) + 1 \in cursor .. Len(wire)
<1>1. Left(1) /\ Left(SizeWidth(wire, cursor))
  BY DEF EntryFits
<1>2. cursor + SizeWidth(wire, cursor) + DecodeSize(wire, cursor) + 1 <= Len(wire)
  BY DEF EntryFits
<1>3. SizeWidth(wire, cursor) \in {1, 3} /\ DecodeSize(wire, cursor) \in Nat
  <2>1. cursor + 1 \in 1 .. Len(wire)
    BY <1>1, Facts, SMT DEF Left
  <2>2. wire[cursor + 1] \in 0 .. 255
    BY <2>1, Facts DEF Byte
  <2>3. CASE wire[cursor + 1] = 255
    <3>1. SizeWidth(wire, cursor) = 3
      BY <2>3 DEF SizeWidth
    <3>2. cursor + 1 + 1 \in 1 .. Len(wire) /\ cursor + 1 + 2 \in 1 .. Len(wire)
      BY <1>1, <3>1, Facts, SMT DEF Left
    <3>3. wire[cursor + 1 + 1] \in 0 .. 255 /\ wire[cursor + 1 + 2] \in 0 .. 255
      BY <3>2, Facts DEF Byte
    <3>4. wire[cursor + 1 + 1] \in Nat /\ wire[cursor + 1 + 2] \in Nat
      BY <3>3, SMT
    <3>6. Number16(wire, cursor + 1) \in Nat
      BY <3>4, Number16IsNat
    <3>5. DecodeSize(wire, cursor) = Number16(wire, cursor + 1) + 1
      BY <2>3 DEF DecodeSize
    <3> QED
      BY <3>1, <3>5, <3>6, SMT
  <2>4. CASE wire[cursor + 1] # 255
    BY <2>2, <2>4, SMT DEF SizeWidth, DecodeSize
  <2> QED
    BY <2>3, <2>4
<1> QED
  BY <1>2, <1>3, Facts, SMT

\* Every turn of parse keeps IInv.
LEMMA ParsingKeeps ==
  ASSUME IInv, Parse
  PROVE  IInv'
<1>1. CASE ParseLegacy
  <2>1. /\ stage = "lead" /\ stage' = "legacy"
        /\ UNCHANGED <<video, wire, cursor, read, tracks>>
    BY <1>1 DEF ParseLegacy
  <2> QED
    BY <2>1, Facts, MovingOn, SMT DEF Parsing, Stages
<1>2. CASE ParseLead
  <2>1. /\ stage = "lead" /\ stage' = "modex" /\ cursor' = 1 /\ wire # <<>>
        /\ UNCHANGED <<video, wire, tracks>>
    BY <1>2 DEF ParseLead, IsEx
  <2>2. read' = [read EXCEPT !.frame = IF video THEN High(Next1) % 8 ELSE 0]
    BY <1>2 DEF ParseLead
  <2>3. DOMAIN read' = DOMAIN read /\ read'.consumed = read.consumed /\ read'.fourcc = read.fourcc
    BY <2>2, Facts, FieldNames, SMT
  <2>4. cursor = 0
    BY <2>1, SMT DEF IInv, Splits
  <2>5. Len(wire) # 0
    BY <2>1, Facts, EmptySeq
  <2>6. 1 \in cursor .. Len(wire)
    BY <2>4, <2>5, Facts, SMT
  <2> QED
    BY <2>1, <2>3, <2>6, Facts, MovingOn, SMT DEF Parsing, Stages
<1>3. CASE WalkEntry
  <2> DEFINE end == cursor + SizeWidth(wire, cursor) + DecodeSize(wire, cursor)
  <2>1. /\ stage = "modex" /\ stage' = stage /\ EntryFits
        /\ cursor' = end + 1
        /\ UNCHANGED <<video, wire, tracks>>
    BY <1>3 DEF WalkEntry
  <2>2. /\ DOMAIN read' = DOMAIN read
        /\ read'.consumed = read.consumed /\ read'.fourcc = read.fourcc
    <3>1. PICK x, y : read' = [read EXCEPT !.entries = x, !.nanos = y]
      BY <1>3 DEF WalkEntry
    <3> QED
      BY <3>1, Facts, FieldNames, SMT
  <2>3. cursor' \in cursor .. Len(wire)
    BY <2>1, EntryInside
  <2> QED
    BY <2>1, <2>2, <2>3, Facts, MovingOn, SMT DEF Parsing, Stages
<1>4. CASE ParseMultitrack
  <2>1. /\ stage = "modex" /\ stage' \in {"extra", "fourcc"} /\ cursor' = cursor + 1 /\ Left(1)
        /\ UNCHANGED <<video, wire, tracks>>
    BY <1>4 DEF ParseMultitrack
  <2>2. read' = [read EXCEPT !.layout = High(Next1), !.type = Low(Next1)]
    BY <1>4 DEF ParseMultitrack
  <2>3. DOMAIN read' = DOMAIN read /\ read'.consumed = read.consumed /\ read'.fourcc = read.fourcc
    BY <2>2, Facts, FieldNames, SMT
  <2>4. cursor' \in cursor .. Len(wire)
    BY <2>1, Facts, SMT DEF Left
  <2> QED
    BY <2>1, <2>3, <2>4, Facts, MovingOn, SMT DEF Parsing, Stages
<1>5. CASE ParseFourCc
  <2>1. /\ stage \in {"modex", "fourcc"} /\ stage' = "extra" /\ cursor' = cursor + 4 /\ Left(4)
        /\ UNCHANGED <<video, wire, tracks>>
    BY <1>5 DEF ParseFourCc, IsSingle
  <2>2. PICK x, y : read' = [read EXCEPT !.type = x, !.fourcc = y] /\ y = SubSeq(wire, cursor + 1, cursor + 4)
    BY <1>5 DEF ParseFourCc
  <2>3. /\ DOMAIN read' = DOMAIN read /\ read'.consumed = read.consumed
        /\ read'.fourcc = y
    BY <2>2, Facts, FieldNames, SMT
  <2>4. cursor' \in cursor .. Len(wire)
    BY <2>1, Facts, SMT DEF Left
  <2>5. SubSeq(wire, cursor + 1, cursor + 4) \in Seq(Byte)
    BY <2>1, Facts, SMT DEF Left
  <2>6. /\ stage \in Parsing /\ stage' \in Stages \ {"writing", "lead", "tracks", "done"}
        /\ read'.fourcc \in Seq(Byte)
    BY <2>1, <2>2, <2>3, <2>5 DEF Parsing, Stages
  <2> QED
    BY <2>1, <2>3, <2>4, <2>6, MovingOn
<1>6. CASE ParseCto
  <2>1. /\ stage = "extra" /\ stage' = stage /\ cursor' = cursor + 3 /\ Left(3)
        /\ UNCHANGED <<video, wire, tracks>>
    BY <1>6 DEF ParseCto
  <2>2. PICK x : read' = [read EXCEPT !.cto = x]
    BY <1>6 DEF ParseCto
  <2>3. DOMAIN read' = DOMAIN read /\ read'.consumed = read.consumed /\ read'.fourcc = read.fourcc
    BY <2>2, Facts, FieldNames, SMT
  <2>4. cursor' \in cursor .. Len(wire)
    BY <2>1, Facts, SMT DEF Left
  <2> QED
    BY <2>1, <2>3, <2>4, Facts, MovingOn, SMT DEF Parsing, Stages
<1>7. CASE ParseCommand
  <2>1. /\ stage = "extra" /\ stage' = stage /\ cursor' = cursor + 1 /\ Left(1)
        /\ UNCHANGED <<video, wire, tracks>>
    BY <1>7 DEF ParseCommand
  <2>2. PICK x : read' = [read EXCEPT !.command = x]
    BY <1>7 DEF ParseCommand
  <2>3. DOMAIN read' = DOMAIN read /\ read'.consumed = read.consumed /\ read'.fourcc = read.fourcc
    BY <2>2, Facts, FieldNames, SMT
  <2>4. cursor' \in cursor .. Len(wire)
    BY <2>1, Facts, SMT DEF Left
  <2> QED
    BY <2>1, <2>3, <2>4, Facts, MovingOn, SMT DEF Parsing, Stages
<1>8. CASE EndHeader
  <2>1. /\ stage = "extra" /\ cursor' = cursor
        /\ stage' = IF read.layout = None THEN "done" ELSE "tracks"
        /\ read' = [read EXCEPT !.consumed = cursor]
        /\ UNCHANGED <<video, wire, tracks>>
    BY <1>8 DEF EndHeader
  <2>2. /\ DOMAIN read' = DOMAIN read /\ read'.consumed = cursor
        /\ read'.fourcc = read.fourcc /\ read'.layout = read.layout
    BY <2>1, Facts, FieldNames, SMT
  <2>3. Held /\ tracks = <<>>
    BY <2>1, SMT DEF IInv, Splits
  <2>4. Held'
    BY <2>1, <2>2, <2>3, Facts, SMT DEF Held, Stages
  <2> QED
    BY <2>1, <2>2, <2>3, <2>4, WithoutTracks, SMT
<1>9. CASE ParseFails
  <2>1. /\ stage \in {"modex", "fourcc", "extra"} /\ stage' = "invalid"
        /\ UNCHANGED <<video, wire, cursor, read, tracks>>
    BY <1>9 DEF ParseFails, IsSingle
  <2> QED
    BY <2>1, Facts, MovingOn, SMT DEF Parsing, Stages
<1> QED
  BY <1>1, <1>2, <1>3, <1>4, <1>5, <1>6, <1>7, <1>8, <1>9 DEF Parse

(***************************************************************************)
(* split_tracks.                                                           *)
(***************************************************************************)
\* A track that fits begins where the one before ended and ends in the body.
LEMMA TrackInside ==
  ASSUME IInv, stage = "tracks", TrackFits
  PROVE  /\ PayloadAt \in Nat /\ PayloadEnd \in Nat
         /\ cursor < PayloadAt /\ PayloadAt <= PayloadEnd /\ PayloadEnd <= Len(wire)
         /\ wire[IdAt + 1] \in Byte
         /\ SubSeq(wire, cursor + 1, cursor + 4) \in Seq(Byte) \/ read.layout # ManyCodecs
         /\ PayloadAt - (IF read.layout = ManyCodecs THEN 8 ELSE IF read.layout = OneTrack THEN 1 ELSE 4)
              = cursor
<1>1. /\ read.layout \in {OneTrack, ManyTracks, ManyCodecs}
      /\ PayloadAt <= Len(wire) /\ PayloadEnd <= Len(wire)
  BY DEF TrackFits
<1>2. cursor \in Nat /\ Len(wire) \in Nat /\ wire \in Seq(Byte)
  BY Facts, SMT
<1>3. CASE read.layout = OneTrack
  <2>1. IdAt = cursor /\ PayloadAt = cursor + 1 /\ PayloadEnd = Len(wire)
    BY <1>3 DEF IdAt, PayloadAt, PayloadEnd, OneTrack, ManyCodecs
  <2>2. cursor + 1 \in 1 .. Len(wire)
    BY <1>1, <1>2, <2>1, SMT
  <2>3. wire[IdAt + 1] \in Byte
    BY <2>1, <2>2, Facts
  <2> QED
    BY <1>1, <1>2, <1>3, <2>1, <2>3, SMT DEF OneTrack, ManyCodecs
<1>4. CASE read.layout # OneTrack
  <2>1. PayloadAt = IdAt + 4 /\ PayloadEnd = PayloadAt + Number24(wire, IdAt + 1)
    BY <1>4 DEF PayloadAt, PayloadEnd
  <2>2. IdAt \in Nat /\ cursor <= IdAt
    BY <1>2, SMT DEF IdAt
  <2>3. /\ IdAt + 1 \in 1 .. Len(wire) /\ IdAt + 1 + 1 \in 1 .. Len(wire)
        /\ IdAt + 1 + 2 \in 1 .. Len(wire) /\ IdAt + 1 + 3 \in 1 .. Len(wire)
    BY <1>1, <1>2, <2>1, <2>2, SMT
  <2>4. /\ wire[IdAt + 1] \in Byte /\ wire[IdAt + 1 + 1] \in Nat
        /\ wire[IdAt + 1 + 2] \in Nat /\ wire[IdAt + 1 + 3] \in Nat
    <3>1. \A n \in Byte : n \in Nat
      BY SMT DEF Byte
    <3> QED
      BY <2>3, <3>1, Facts
  <2>5. Number24(wire, IdAt + 1) \in Nat
    BY <2>4, Number24IsNat
  <2>6. /\ PayloadAt \in Nat /\ PayloadEnd \in Nat
        /\ cursor < PayloadAt /\ PayloadAt <= PayloadEnd
    BY <1>2, <2>1, <2>2, <2>5, SMT
  <2>7. CASE read.layout = ManyCodecs
    <3>1. PayloadAt = cursor + 8
      BY <1>2, <2>1, <2>7, SMT DEF IdAt
    <3>2. SubSeq(wire, cursor + 1, cursor + 4) \in Seq(Byte)
      BY <1>1, <1>2, <3>1, SMT
    <3>3. PayloadAt - 8 = cursor
      BY <1>2, <3>1, SMT
    <3> QED
      BY <1>1, <2>4, <2>6, <2>7, <3>2, <3>3
  <2>8. CASE read.layout # ManyCodecs
    <3>1. PayloadAt = cursor + 4
      BY <2>1, <2>8 DEF IdAt
    <3>2. PayloadAt - 4 = cursor
      BY <1>2, <3>1, SMT
    <3> QED
      BY <1>1, <1>4, <2>4, <2>6, <2>8, <3>2
  <2> QED
    BY <2>7, <2>8
<1> QED
  BY <1>3, <1>4

\* The ends of a track are numbers.
LEMMA TrackEnds ==
  ASSUME Held, NEW i \in 1 .. Len(tracks)
  PROVE  tracks[i].from \in Nat /\ tracks[i].to \in Nat
<1>1. tracks \in Seq(Track)
  BY DEF Held
<1>2. tracks[i] \in Track
  BY <1>1, ElementOfSeq
<1> QED
  BY <1>2 DEF Track

\* A track that is split off keeps IInv.
LEMMA SplittingKeeps ==
  ASSUME IInv, SplitTrack
  PROVE  IInv'
<1> DEFINE t == [id |-> wire[IdAt + 1],
                 fourcc |-> IF read.layout = ManyCodecs THEN SubSeq(wire, cursor + 1, cursor + 4)
                                                        ELSE read.fourcc,
                 from |-> PayloadAt, to |-> PayloadEnd]
<1>1. /\ stage = "tracks" /\ TrackFits
      /\ tracks' = Append(tracks, t)
      /\ cursor' = PayloadEnd
      /\ stage' = IF PayloadEnd = Len(wire) THEN "done" ELSE "tracks"
      /\ UNCHANGED <<video, wire, read>>
  BY DEF SplitTrack
<1>2. Held /\ Splits /\ TracksTile
  BY DEF IInv
<1>3. /\ PayloadAt \in Nat /\ PayloadEnd \in Nat
      /\ cursor < PayloadAt /\ PayloadAt <= PayloadEnd /\ PayloadEnd <= Len(wire)
  BY <1>1, TrackInside
<1>4. t \in Track /\ t.from = PayloadAt /\ t.to = PayloadEnd
  <2>1. wire[IdAt + 1] \in Byte
    BY <1>1, TrackInside
  <2>2. (IF read.layout = ManyCodecs THEN SubSeq(wire, cursor + 1, cursor + 4) ELSE read.fourcc)
          \in Seq(Byte)
    BY <1>1, TrackInside, Facts
  <2> QED
    BY <1>3, <2>1, <2>2 DEF Track
<1> HIDE DEF t
<1>5. /\ tracks \in Seq(Track) /\ Len(tracks) \in Nat
      /\ tracks' \in Seq(Track) /\ Len(tracks') = Len(tracks) + 1
      /\ tracks'[Len(tracks) + 1] = t
      /\ \A i \in 1 .. Len(tracks) : tracks'[i] = tracks[i]
  BY <1>1, <1>2, <1>4, AppendProperties, LenProperties DEF Held
<1>6. cursor \in Nat /\ Len(wire) \in Nat
  BY Facts, SMT
<1>7. Held'
  <2>1. cursor' \in 0 .. Len(wire) /\ stage' \in Stages
    BY <1>1, <1>3, <1>6, SMT DEF Stages
  <2>2. read'.consumed \in 0 .. cursor'
    BY <1>1, <1>2, <1>3, <1>6, SMT DEF Held
  <2> QED
    BY <1>1, <1>2, <1>5, <2>1, <2>2 DEF Held
<1>8. Splits'
  <2>1. stage' \in {"tracks", "done"} /\ read.layout # None
    <3>1. read.layout \in {0, 1, 2}
      BY <1>1 DEF TrackFits, OneTrack, ManyTracks, ManyCodecs
    <3>2. None \notin {0, 1, 2}
      BY NoneAssumption, SMT
    <3> QED
      BY <1>1, <3>1, <3>2
  <2>2. ASSUME NEW i \in 1 .. Len(tracks')
        PROVE  tracks'[i].from <= tracks'[i].to /\ tracks'[i].to <= cursor'
    <3>1. CASE i = Len(tracks) + 1
      BY <1>1, <1>3, <1>4, <1>5, <3>1, SMT
    <3>2. CASE i # Len(tracks) + 1
      <4>1. i \in 1 .. Len(tracks)
        BY <1>5, <3>2, SMT
      <4>2. tracks[i].from <= tracks[i].to /\ tracks[i].to <= cursor
        BY <1>2, <4>1 DEF Splits
      <4>3. tracks[i].to \in Nat
        BY <1>2, <4>1, TrackEnds
      <4>4. tracks'[i] = tracks[i]
        BY <1>5, <4>1
      <4>5. tracks[i].to <= PayloadEnd
        BY <1>3, <1>6, <4>2, <4>3, SMT
      <4> QED
        BY <1>1, <4>2, <4>4, <4>5
    <3> QED
      BY <3>1, <3>2
  <2> QED
    BY <1>1, <2>1, <2>2 DEF Splits
<1>9. TracksTile'
  <2> DEFINE width == IF read.layout = ManyCodecs THEN 8 ELSE IF read.layout = OneTrack THEN 1 ELSE 4
  <2>1. PayloadAt - width = cursor
    BY <1>1, TrackInside
  <2>2. cursor = IF tracks = <<>> THEN read.consumed ELSE tracks[Len(tracks)].to
    BY <1>1, <1>2 DEF TracksTile
  <2>3. tracks = <<>> <=> Len(tracks) = 0
    BY <1>5, EmptySeq
  <2>4. ASSUME NEW i \in 1 .. Len(tracks')
        PROVE  tracks'[i].from - width = IF i = 1 THEN read.consumed ELSE tracks'[i - 1].to
    <3>1. CASE i = Len(tracks) + 1
      <4>1. tracks'[i].from - width = cursor
        BY <1>4, <1>5, <2>1, <3>1
      <4>2. CASE i = 1
        BY <1>5, <2>2, <2>3, <3>1, <4>1, <4>2, SMT
      <4>3. CASE i # 1
        <5>1. i - 1 = Len(tracks) /\ i - 1 \in 1 .. Len(tracks) /\ Len(tracks) # 0
          BY <1>5, <3>1, <4>3, SMT
        <5> QED
          BY <1>5, <2>2, <2>3, <4>1, <4>3, <5>1
      <4> QED
        BY <4>2, <4>3
    <3>2. CASE i # Len(tracks) + 1
      <4>1. i \in 1 .. Len(tracks) /\ (i # 1 => i - 1 \in 1 .. Len(tracks))
        BY <1>5, <3>2, SMT
      <4>2. tracks[i].from - width = IF i = 1 THEN read.consumed ELSE tracks[i - 1].to
        BY <1>2, <4>1 DEF TracksTile, Starts
      <4> QED
        BY <1>5, <4>1, <4>2
    <3> QED
      BY <3>1, <3>2
  <2>5. tracks' # <<>> /\ tracks'[Len(tracks')].to = cursor'
    <3>1. Len(tracks') # 0
      BY <1>5, SMT
    <3> QED
      BY <1>1, <1>4, <1>5, <3>1, EmptySeq
  <2>6. stage' = "done" => cursor' = Len(wire)
    BY <1>1
  <2> QED
    BY <1>1, <2>4, <2>5, <2>6 DEF TracksTile, Starts
<1> QED
  BY <1>7, <1>8, <1>9 DEF IInv

\* split_tracks gives up and hands out nothing.
LEMMA GivingUpKeeps ==
  ASSUME IInv, SplitFails
  PROVE  IInv'
<1>1. /\ stage = "tracks" /\ tracks' = <<>> /\ stage' = "unsplit"
      /\ UNCHANGED <<video, wire, cursor, read>>
  BY DEF SplitFails
<1>2. Held'
  <2>1. <<>> \in Seq(Track)
    BY SMT
  <2> QED
    BY <1>1, <2>1 DEF IInv, Held, Stages
<1> QED
  BY <1>1, <1>2, WithoutTracks

\* IInv is inductive.
LEMMA StepKeeps == IInv /\ [Next]_vars => IInv'
<1> SUFFICES ASSUME IInv, [Next]_vars PROVE IInv'
  OBVIOUS
<1>1. CASE UNCHANGED vars
  BY <1>1 DEF vars, IInv, Held, Splits, TracksTile, Starts
<1> QED
  BY <1>1, WritingKeeps, CuttingKeeps, ParsingKeeps, SplittingKeeps, GivingUpKeeps DEF Next

\* IInv holds in every reachable state.
LEMMA ReaderInvariant == Spec => []IInv
  BY IInvStarts, StepKeeps, PTL DEF Spec

(***************************************************************************)
(* For every body, whoever wrote it: neither parse nor split_tracks takes  *)
(* a byte behind its end, and every payload they hand out lies in it.      *)
(***************************************************************************)
THEOREM ReaderStaysInside == Spec => []TypeOK
<1>1. IInv => TypeOK
  <2> SUFFICES ASSUME IInv PROVE TypeOK
    OBVIOUS
  <2>1. Held /\ Splits
    BY DEF IInv
  <2>2. cursor \in Nat
    BY Facts, SMT
  <2>3. ASSUME NEW i \in 1 .. Len(tracks)
        PROVE  tracks[i].from \in 0 .. tracks[i].to /\ tracks[i].to \in 0 .. cursor
    <3>1. tracks[i].from \in Nat /\ tracks[i].to \in Nat
      BY <2>1, TrackEnds
    <3>2. tracks[i].from <= tracks[i].to /\ tracks[i].to <= cursor
      BY <2>1 DEF Splits
    <3> QED
      BY <2>2, <3>1, <3>2, SMT
  <2> QED
    BY <2>1, <2>3 DEF TypeOK, Held
<1> QED
  BY <1>1, ReaderInvariant, PTL

(***************************************************************************)
(* For every body and any number of tracks: each track begins where the    *)
(* one before it ended, and split_tracks is done at the end of the body,   *)
(* so no byte is skipped and none is given to two tracks.                  *)
(***************************************************************************)
THEOREM TracksTileBodies == Spec => []TracksTile
<1>1. IInv => TracksTile
  BY DEF IInv
<1> QED
  BY <1>1, ReaderInvariant, PTL

(***************************************************************************)
(* What the reader meets in a body that was cut off.                       *)
(***************************************************************************)
\* As far as w goes, s stands in it behind the first c bytes.
Shown(s, w, c) == \A i \in 1 .. Len(s) : c + i <= Len(w) => w[c + i] = s[i]

\* What is shown and fits, stands.
LEMMA WholeStands ==
  ASSUME NEW S, NEW s \in Seq(S), NEW w \in Seq(S), NEW c \in Nat,
         Shown(s, w, c), c + Len(s) <= Len(w)
  PROVE  /\ Stands(s, w, c)
         /\ SubSeq(w, c + 1, c + Len(s)) = s
<1>1. Len(s) \in Nat /\ Len(w) \in Nat
  BY LenProperties
<1>2. \A i \in 1 .. Len(s) : c + i <= Len(w) /\ c + i \in 1 .. Len(w)
  BY <1>1, SMT
<1>3. \A i \in 1 .. Len(s) : w[c + i] = s[i]
  BY <1>2 DEF Shown
<1> DEFINE t == SubSeq(w, c + 1, c + Len(s))
<1>4. c + 1 \in Int /\ c + Len(s) \in Int /\ \A i \in c + 1 .. c + Len(s) : i \in 1 .. Len(w)
  BY <1>1, SMT
<1>5. \A i \in c + 1 .. c + Len(s) : w[i] \in S
  BY <1>4, ElementOfSeq
<1>6. /\ t \in Seq(S)
      /\ Len(t) = IF c + 1 <= c + Len(s) THEN (c + Len(s)) - (c + 1) + 1 ELSE 0
      /\ \A i \in 1 .. (c + Len(s)) - (c + 1) + 1 : t[i] = w[(c + 1) + i - 1]
  BY <1>4, <1>5, SubSeqProperties
<1> HIDE DEF t
<1>7. Len(t) = Len(s)
  BY <1>1, <1>6, SMT
<1>8. ASSUME NEW i \in 1 .. Len(t) PROVE t[i] = s[i]
  <2>1. i \in 1 .. (c + Len(s)) - (c + 1) + 1 /\ (c + 1) + i - 1 = c + i /\ i \in 1 .. Len(s)
    BY <1>1, <1>7, SMT
  <2> QED
    BY <1>3, <1>6, <2>1
<1>9. t = s
  BY <1>6, <1>7, <1>8, SeqEqual
<1> QED
  BY <1>3, <1>9 DEF Stands, t

\* As far as a body goes, of two sequences each one is shown for itself.
LEMMA ShownInParts ==
  ASSUME NEW S, NEW s \in Seq(S), NEW t \in Seq(S), NEW w, NEW c \in Nat, Shown(s \o t, w, c)
  PROVE  Shown(s, w, c) /\ Shown(t, w, c + Len(s))
<1>1. /\ Len(s) \in Nat /\ Len(t) \in Nat /\ Len(s \o t) = Len(s) + Len(t)
      /\ \A i \in 1 .. Len(s) + Len(t) : (s \o t)[i] = IF i <= Len(s) THEN s[i] ELSE t[i - Len(s)]
  BY ConcatProperties, LenProperties
<1>2. \A i \in 1 .. Len(s) + Len(t) :
        c + i <= Len(w) => w[c + i] = IF i <= Len(s) THEN s[i] ELSE t[i - Len(s)]
  BY <1>1 DEF Shown
<1>3. ASSUME NEW i \in 1 .. Len(s), c + i <= Len(w) PROVE w[c + i] = s[i]
  <2>1. i \in 1 .. Len(s) + Len(t) /\ i <= Len(s)
    BY <1>1, SMT
  <2> QED
    BY <1>2, <1>3, <2>1
<1>4. ASSUME NEW i \in 1 .. Len(t), (c + Len(s)) + i <= Len(w) PROVE w[(c + Len(s)) + i] = t[i]
  <2>1. /\ Len(s) + i \in 1 .. Len(s) + Len(t) /\ ~(Len(s) + i <= Len(s))
        /\ (Len(s) + i) - Len(s) = i /\ c + (Len(s) + i) = (c + Len(s)) + i
    BY <1>1, SMT
  <2>2. c + (Len(s) + i) <= Len(w)
    BY <1>4, <2>1
  <2> QED
    BY <1>2, <2>1, <2>2
<1> QED
  BY <1>3, <1>4 DEF Shown

\* w is the front of a body that begins with what to_bytes left of h, all of it
\* if h was refused.
Carries(h, w) ==
  /\ w \in Seq(Byte)
  /\ Shown(HeaderBytes(h), w, 0)
  /\ ~Accepted(h) => Len(w) = Len(HeaderBytes(h))

\* The reader goes on behind the i-th step only if that was passed; if it was,
\* what it appended is there; if it was not, the body ends.
LEMMA StepIsShown ==
  ASSUME NEW h \in Headers, NEW w, Carries(h, w), NEW i \in 1 .. Size(h) + 6
  PROVE  /\ Size(h) \in Nat /\ Mark(h, i - 1) \in Nat /\ Mark(h, i) \in Nat /\ Len(w) \in Nat
         /\ Passed(h, i) =>
              /\ Passed(h, i - 1) /\ Steps(h)[i].ok
              /\ Steps(h)[i].bytes \in Seq(Byte)
              /\ Mark(h, i) = Mark(h, i - 1) + Len(Steps(h)[i].bytes)
              /\ Shown(Steps(h)[i].bytes, w, Mark(h, i - 1))
         /\ ~Passed(h, i) =>
              Mark(h, i - 1) = Len(w) /\ Mark(h, i) = Len(w)
<1> DEFINE b == HeaderBytes(h)
           c == Mark(h, i - 1)
<1>1. Size(h) \in Nat
  BY HeaderFields, StepsAre
<1>2. i - 1 \in 0 .. Size(h) + 6 /\ i \in 0 .. Size(h) + 6 /\ i \in 1 .. Size(h) + 6
  BY <1>1, SMT
<1>3. c \in Nat /\ Mark(h, i) \in Nat /\ Mark(h, i) <= Len(b)
  BY <1>2, MarksAre
<1>4. Len(w) \in Nat
  BY LenProperties DEF Carries
<1>5. ASSUME Passed(h, i)
      PROVE  /\ Passed(h, i - 1) /\ Steps(h)[i].ok
             /\ Steps(h)[i].bytes \in Seq(Byte)
             /\ Mark(h, i) = c + Len(Steps(h)[i].bytes)
             /\ Shown(Steps(h)[i].bytes, w, c)
  <2> DEFINE s == Steps(h)[i].bytes
  <2>1. s \in Seq(Byte) /\ Mark(h, i) = c + Len(s) /\ Stands(s, b, c)
    BY <1>5, MarksAre
  <2>2. Len(s) \in Nat
    BY <2>1, LenProperties
  <2> HIDE DEF s, b, c
  <2>3. ASSUME NEW j \in 1 .. Len(s), c + j <= Len(w) PROVE w[c + j] = s[j]
    <3>1. c + j \in 1 .. Len(b) /\ 0 + (c + j) = c + j
      <4>1. \A p, q, m, k, l \in Nat : m = p + l /\ m <= q /\ 1 <= k /\ k <= l =>
              p + k \in 1 .. q /\ 0 + (p + k) = p + k
        BY SMT
      <4>2. j \in Nat /\ 1 <= j /\ j <= Len(s)
        BY <2>2, SMT
      <4>3. Len(b) \in Nat
        BY MarksAre DEF b
      <4> QED
        BY <1>3, <2>1, <2>2, <4>1, <4>2, <4>3
    <3>2. w[c + j] = b[c + j]
      BY <2>3, <3>1 DEF Carries, Shown, b
    <3> QED
      BY <2>1, <3>2 DEF Stands
  <2>4. Passed(h, i - 1) /\ Steps(h)[i].ok
    BY <1>5, PassedIs
  <2> QED
    BY <2>1, <2>3, <2>4 DEF Shown, s
<1>6. ASSUME ~Passed(h, i) PROVE c = Len(w) /\ Mark(h, i) = Len(w)
  <2>1. c = Len(b) /\ Mark(h, i) = Len(b)
    BY <1>6, MarksAre
  <2>2. ~Accepted(h)
    <3>1. Size(h) + 6 \in 1 .. Size(h) + 6 /\ i \in 0 .. Size(h) + 6
      BY <1>1, SMT
    <3>2. Passed(h, Size(h) + 6) => Passed(h, i)
      BY <3>1, PassedIs
    <3> QED
      BY <1>6, <3>2, AcceptedIs
  <2> QED
    BY <2>1, <2>2 DEF Carries
<1> QED
  BY <1>1, <1>3, <1>4, <1>5, <1>6

(***************************************************************************)
(* One turn of the walk.                                                   *)
(***************************************************************************)
FitsAt(w, c) ==
  /\ c + 1 <= Len(w) /\ c + SizeWidth(w, c) <= Len(w)
  /\ LET data == c + SizeWidth(w, c)
         size == DecodeSize(w, c)
     IN /\ data + size + 1 <= Len(w)
        /\ High(w[data + size + 1]) = 0 => size >= 3

\* The first byte of a size tells how many bytes it takes.
LEMMA WidthIs ==
  ASSUME NEW n \in Nat, 1 <= n, n <= 65536
  PROVE  /\ 1 <= Len(EncodeSize(n)) /\ Len(EncodeSize(n)) \in Nat
         /\ Len(EncodeSize(n)) = IF EncodeSize(n)[1] = 255 THEN 3 ELSE 1
<1>1. CASE n <= 255
  <2>1. EncodeSize(n) = <<n - 1>>
    BY <1>1, SMT DEF EncodeSize
  <2>2. Len(EncodeSize(n)) = 1 /\ EncodeSize(n)[1] = n - 1
    BY <2>1, SMT
  <2>3. n - 1 # 255
    BY <1>1, SMT
  <2> QED
    BY <2>2, <2>3, SMT
<1>2. CASE n > 255
  <2> DEFINE m == n - 1
             x == m \div 256
             y == m % 256
  <2>1. x \in Int /\ y \in Int
    BY SMT
  <2>2. EncodeSize(n) = <<255>> \o <<x, y>>
    BY <1>2, SMT DEF EncodeSize, UI16
  <2> HIDE DEF x, y
  <2>3. Len(EncodeSize(n)) = 3 /\ EncodeSize(n)[1] = 255
    <3> DEFINE s == EncodeSize(n)
    <3>1. 255 \in Int /\ s = <<255>> \o <<x, y>>
      BY <2>2, SMT
    <3> HIDE DEF s
    <3>2. Len(s) = 3 /\ s[1] = 255
      BY <2>1, <3>1, Escaped
    <3> QED
      BY <3>2 DEF s
  <2> QED
    BY <2>3, SMT
<1> QED
  BY <1>1, <1>2, SMT

\* The turn that begins behind c bytes reads this entry, and what follows it.
IsReadAs(e, next, w, c) ==
  LET data == c + SizeWidth(w, c)
      end == data + DecodeSize(w, c)
  IN /\ end + 1 = c + Len(EmitEntry(e, next))
     /\ SubSeq(w, data + 1, end) = e.raw
     /\ High(w[end + 1]) = e.subtype /\ Low(w[end + 1]) = next
     /\ e.subtype = 0 => Number24(w, data) = e.nano

\* An entry that was written is read as it was, and goes as far: it fits if all
\* of it is there, and only then.
LEMMA EntryIsRead ==
  ASSUME NEW e \in Entry, EntryIsValid(e), e.nano = None <=> e.subtype # 0,
         NEW next \in 0 .. 15, NEW w \in Seq(Byte), NEW c \in Nat, Shown(EmitEntry(e, next), w, c)
  PROVE  /\ Len(EmitEntry(e, next)) \in Nat
         /\ c + Len(EmitEntry(e, next)) <= Len(w) => FitsAt(w, c)
         /\ FitsAt(w, c) => IsReadAs(e, next, w, c)
<1> DEFINE l == EncodeSize(Len(e.raw))
           r == e.raw
           pack == Pack(e.subtype, next)
           p == <<pack>>
           emit == EmitEntry(e, next)
<1>1. /\ r \in Seq(Byte) /\ e.subtype \in 0 .. 15
      /\ Len(r) \in Nat /\ 1 <= Len(r) /\ Len(r) <= 65536
      /\ e.subtype = 0 => e.nano = Number24(r, 0) /\ Len(r) >= 3
  <2>1. r \in Seq(Byte) /\ e.subtype \in 0 .. 15
    BY DEF Entry, EntryIsValid
  <2>2. Len(r) \in Nat
    BY <2>1, LenProperties
  <2>3. 1 <= Len(r) /\ Len(r) <= 65536
    BY DEF EntryIsValid
  <2>4. e.subtype = 0 => e.nano = Number24(r, 0) /\ Len(r) >= 3
    BY DEF EntryIsValid
  <2> QED
    BY <2>1, <2>2, <2>3, <2>4
<1> HIDE DEF r
<1>2. l \in Seq(Byte) /\ Len(l) \in Nat /\ 1 <= Len(l) /\ Len(l) = IF l[1] = 255 THEN 3 ELSE 1
  <2> DEFINE n == Len(e.raw)
  <2>1. n \in Nat /\ 1 <= n /\ n <= 65536
    BY <1>1 DEF r
  <2> HIDE DEF n
  <2>2. EncodeSize(n) \in Seq(Byte)
    BY <2>1, SizesAreBytes
  <2>3. /\ 1 <= Len(EncodeSize(n)) /\ Len(EncodeSize(n)) \in Nat
        /\ Len(EncodeSize(n)) = IF EncodeSize(n)[1] = 255 THEN 3 ELSE 1
    BY <2>1, WidthIs
  <2> QED
    BY <2>2, <2>3, Zenon DEF n
<1> HIDE DEF l
<1>3. pack \in Byte /\ High(pack) = e.subtype /\ Low(pack) = next
  <2>1. e.subtype \in 0 .. 15
    BY <1>1
  <2> QED
    BY <2>1, NibblesFit
<1>4. p \in Seq(Byte) /\ Len(p) = 1 /\ p[1] = pack
  BY <1>3
<1>5. emit = (l \o r) \o p
  BY DEF EmitEntry, l, r
<1> HIDE DEF p, pack, emit
<1>6. l \o r \in Seq(Byte) /\ Len(l \o r) = Len(l) + Len(r)
  <2>1. l \in Seq(Byte) /\ r \in Seq(Byte)
    BY <1>1, <1>2
  <2> QED
    BY <2>1, ConcatProperties
<1>7. Len(emit) = (Len(l) + Len(r)) + 1 /\ Len(emit) \in Nat
  <2>1. Len((l \o r) \o p) = Len(l \o r) + Len(p)
    BY <1>4, <1>6, ConcatProperties
  <2>2. Len(emit) = (Len(l) + Len(r)) + 1
    BY <1>4, <1>5, <1>6, <2>1
  <2> QED
    BY <1>1, <1>2, <2>2, SMT
<1>8. Shown(l \o r, w, c) /\ Shown(p, w, c + (Len(l) + Len(r)))
  <2>1. Shown((l \o r) \o p, w, c)
    BY <1>5 DEF emit
  <2> QED
    BY <1>4, <1>6, <2>1, ShownInParts
<1>9. Shown(l, w, c) /\ Shown(r, w, c + Len(l))
  <2>1. l \in Seq(Byte) /\ r \in Seq(Byte)
    BY <1>1, <1>2
  <2> QED
    BY <1>8, <2>1, ShownInParts
<1>10. Len(w) \in Nat
  BY LenProperties
<1>11. ASSUME c + 1 <= Len(w), c + SizeWidth(w, c) <= Len(w)
       PROVE  SizeWidth(w, c) = Len(l) /\ DecodeSize(w, c) = Len(r)
  <2>1. 1 \in 1 .. Len(l)
    BY <1>2, SMT
  <2>2. w[c + 1] = l[1]
    BY <1>9, <1>11, <2>1 DEF Shown
  <2>3. SizeWidth(w, c) = Len(l)
    BY <1>2, <2>2 DEF SizeWidth
  <2>4. Stands(l, w, c)
    BY <1>2, <1>9, <1>11, <2>3, WholeStands
  <2>5. Len(e.raw) \in Nat /\ Len(e.raw) >= 1 /\ Len(e.raw) <= 65536
    BY <1>1, SMT DEF r
  <2>6. DecodeSize(w, c) = Len(e.raw)
    BY <2>4, <2>5, SizesComeBack DEF l
  <2> QED
    BY <2>3, <2>6 DEF r
<1>12. ASSUME c + Len(emit) <= Len(w)
       PROVE  c + 1 <= Len(w) /\ c + SizeWidth(w, c) <= Len(w)
  <2>0. /\ c + 1 <= Len(w) /\ c + Len(l) <= Len(w)
    BY <1>1, <1>2, <1>7, <1>10, <1>12, SMT
  <2>1. 1 \in 1 .. Len(l)
    BY <1>2, SMT
  <2>2. w[c + 1] = l[1]
    BY <1>9, <2>0, <2>1 DEF Shown
  <2>3. SizeWidth(w, c) = Len(l)
    BY <1>2, <2>2 DEF SizeWidth
  <2> QED
    BY <2>0, <2>3
<1> DEFINE data == c + Len(l)
           end == data + Len(r)
<1>13. /\ data \in Nat /\ end \in Nat /\ end = c + (Len(l) + Len(r)) /\ end + 1 = c + Len(emit)
  BY <1>1, <1>2, <1>7, SMT
<1>14. ASSUME end + 1 <= Len(w)
       PROVE  /\ SubSeq(w, data + 1, end) = r
              /\ w[end + 1] = pack
              /\ e.subtype = 0 => Number24(w, data) = e.nano
  <2>1. end <= Len(w)
    BY <1>10, <1>13, <1>14, SMT
  <2>2. Stands(r, w, data) /\ SubSeq(w, data + 1, end) = r
    BY <1>1, <1>9, <1>13, <2>1, WholeStands
  <2>3. w[end + 1] = pack
    <3>1. 1 \in 1 .. Len(p)
      BY <1>4, SMT
    <3>2. w[(c + (Len(l) + Len(r))) + 1] = p[1]
      BY <1>8, <1>13, <1>14, <3>1 DEF Shown
    <3> QED
      BY <1>4, <1>13, <3>2
  <2>4. ASSUME e.subtype = 0 PROVE Number24(w, data) = e.nano
    <3>1. 1 \in 1 .. Len(r) /\ 2 \in 1 .. Len(r) /\ 3 \in 1 .. Len(r) /\ 0 + 1 = 1 /\ 0 + 2 = 2 /\ 0 + 3 = 3
      BY <1>1, <2>4, SMT
    <3>2. w[data + 1] = r[1] /\ w[data + 2] = r[2] /\ w[data + 3] = r[3]
      BY <2>2, <3>1 DEF Stands
    <3>3. Number24(w, data) = Number24(r, 0)
      BY <3>1, <3>2 DEF Number24
    <3> QED
      BY <1>1, <2>4, <3>3
  <2> QED
    BY <2>2, <2>3, <2>4
<1>15. ASSUME c + Len(emit) <= Len(w) PROVE FitsAt(w, c)
  <2>1. c + 1 <= Len(w) /\ c + SizeWidth(w, c) <= Len(w)
    BY <1>12, <1>15
  <2>2. SizeWidth(w, c) = Len(l) /\ DecodeSize(w, c) = Len(r)
    BY <1>11, <2>1
  <2>3. end + 1 <= Len(w)
    BY <1>13, <1>15
  <2>4. High(w[end + 1]) = 0 => Len(r) >= 3
    BY <1>1, <1>3, <1>14, <2>3
  <2> QED
    BY <2>1, <2>2, <2>3, <2>4 DEF FitsAt
<1>16. ASSUME FitsAt(w, c)
       PROVE  /\ end + 1 <= Len(w)
              /\ SizeWidth(w, c) = Len(l) /\ DecodeSize(w, c) = Len(r)
  <2>1. c + 1 <= Len(w) /\ c + SizeWidth(w, c) <= Len(w)
    BY <1>16 DEF FitsAt
  <2>2. SizeWidth(w, c) = Len(l) /\ DecodeSize(w, c) = Len(r)
    BY <1>11, <2>1
  <2>3. (c + SizeWidth(w, c)) + DecodeSize(w, c) + 1 <= Len(w)
    BY <1>16 DEF FitsAt
  <2> QED
    BY <2>2, <2>3
<1>17. ASSUME FitsAt(w, c)
       PROVE  IsReadAs(e, next, w, c)
  <2>1. end + 1 <= Len(w) /\ SizeWidth(w, c) = Len(l) /\ DecodeSize(w, c) = Len(r)
    BY <1>16, <1>17
  <2>2. SubSeq(w, data + 1, end) = r /\ w[end + 1] = pack /\ (e.subtype = 0 => Number24(w, data) = e.nano)
    BY <1>14, <2>1
  <2>3. High(w[end + 1]) = e.subtype /\ Low(w[end + 1]) = next
    BY <1>3, <2>2, Zenon
  <2>4. end + 1 = c + Len(emit)
    BY <1>13
  <2>5. c + SizeWidth(w, c) = data /\ data + DecodeSize(w, c) = end
    BY <2>1
  <2> HIDE DEF data, end
  <2> QED
    BY <2>2, <2>3, <2>4, <2>5, Zenon DEF IsReadAs, emit, r
<1> QED
  BY <1>7, <1>15, <1>17 DEF emit, r

(***************************************************************************)
(* One track.                                                              *)
(***************************************************************************)
Layouts == {OneTrack, ManyTracks, ManyCodecs}

\* What agrees with a sequence as far as it goes is a prefix of it.
LEMMA PrefixIs ==
  ASSUME NEW S, NEW s \in Seq(S), NEW t \in Seq(S), Len(s) <= Len(t),
         \A i \in 1 .. Len(s) : s[i] = t[i]
  PROVE  IsPrefix(s, t)
<1>1. Len(s) \in Nat /\ Len(t) \in Nat
  BY LenProperties
<1>2. \A i \in 1 .. Len(s) : i \in 1 .. Len(t)
  BY <1>1, SMT
<1>3. \A i \in 1 .. Len(s) : s[i] \in S /\ t[i] \in S
  BY <1>2, ElementOfSeq
<1> DEFINE n == Len(s)
           u == SubSeq(s, 1, n)
           v == SubSeq(t, 1, n)
<1>4. /\ u \in Seq(S) /\ Len(u) = (IF 1 <= n THEN n - 1 + 1 ELSE 0)
      /\ \A i \in 1 .. n - 1 + 1 : u[i] = s[1 + i - 1]
  BY <1>1, <1>3, SubSeqProperties
<1>5. /\ v \in Seq(S) /\ Len(v) = (IF 1 <= n THEN n - 1 + 1 ELSE 0)
      /\ \A i \in 1 .. n - 1 + 1 : v[i] = t[1 + i - 1]
  BY <1>1, <1>3, SubSeqProperties
<1>6. n \in Nat /\ \A i \in 1 .. n : s[i] = t[i]
  BY <1>1
<1> HIDE DEF n, u, v
<1>7. Len(u) = n /\ Len(v) = n
  BY <1>4, <1>5, <1>6, SMT
<1>8. ASSUME NEW i \in 1 .. Len(u) PROVE u[i] = v[i]
  <2>1. i \in 1 .. n - 1 + 1 /\ 1 + i - 1 = i /\ i \in 1 .. n
    BY <1>6, <1>7, SMT
  <2> QED
    BY <1>4, <1>5, <1>6, <2>1
<1>9. u = v
  BY <1>4, <1>5, <1>7, <1>8, SeqEqual
<1> QED
  BY <1>9 DEF IsPrefix, n, u, v

\* Where the id and the payload of a track are that begins behind c bytes.
IdOf(layout, c) == IF layout = ManyCodecs THEN c + 4 ELSE c

FromOf(layout, c) == IF layout = OneTrack THEN IdOf(layout, c) + 1 ELSE IdOf(layout, c) + 4

ToOf(layout, w, c) ==
  IF layout = OneTrack THEN Len(w) ELSE FromOf(layout, c) + Number24(w, IdOf(layout, c) + 1)

\* A track that was joined is split off as it was, if it is there.
LEMMA TrackIsRead ==
  ASSUME NEW layout \in Layouts, NEW t, t.id \in Byte, t.fourcc \in FourCc,
         t.payload \in Seq(Byte), layout = OneTrack \/ Len(t.payload) <= MaxTrackPayload,
         NEW w \in Seq(Byte), NEW f, \A i \in 1 .. Len(w) : w[i] = f[i],
         NEW c \in Nat, Stands(JoinTrack(layout, t), f, c)
  PROVE  LET from == FromOf(layout, c)
             to == ToOf(layout, w, c)
             n == Len(JoinTrack(layout, t))
         IN /\ n \in Nat /\ n > 0
            /\ c + n <= Len(w) => from <= Len(w) /\ to <= Len(w)
            /\ from <= Len(w) /\ to <= Len(w) =>
                 /\ w[IdOf(layout, c) + 1] = t.id
                 /\ layout = ManyCodecs => SubSeq(w, c + 1, c + 4) = t.fourcc
                 /\ layout # OneTrack => to = c + n /\ SubSeq(w, from + 1, to) = t.payload
                 /\ layout = OneTrack /\ Len(w) <= c + n =>
                      IsPrefix(SubSeq(w, from + 1, to), t.payload)
                 /\ layout = OneTrack /\ Len(w) = c + n => SubSeq(w, from + 1, to) = t.payload
<1> DEFINE at == IdOf(layout, c)
           from == FromOf(layout, c)
           to == ToOf(layout, w, c)
           n == Len(JoinTrack(layout, t))
           p == t.payload
<1>1. Len(p) \in Nat /\ Len(w) \in Nat /\ p \in Seq(Byte)
  BY LenProperties
<1>2. n = (IF layout = ManyCodecs THEN 8 ELSE IF layout = OneTrack THEN 1 ELSE 4) + Len(p)
  BY <1>1, RecordIs
<1>3. /\ f[at + 1] = t.id
      /\ layout = ManyCodecs => Stands(t.fourcc, f, c)
      /\ layout # OneTrack => Number24(f, at + 1) = Len(p)
      /\ Stands(p, f, from)
  BY <1>1, RecordIs DEF IdOf, FromOf
<1>4. ManyCodecs # OneTrack
  BY SMT DEF ManyCodecs, OneTrack
<1>5. /\ at = (IF layout = ManyCodecs THEN c + 4 ELSE c) /\ at \in Nat /\ from \in Nat
      /\ from = IF layout = ManyCodecs THEN c + 8 ELSE IF layout = OneTrack THEN c + 1 ELSE c + 4
      /\ at + 1 <= from /\ (layout # OneTrack => at + 4 = from)
  <2>1. CASE layout = ManyCodecs
    BY <1>4, <2>1, SMT DEF IdOf, FromOf
  <2>2. CASE layout = OneTrack
    BY <1>4, <2>2, SMT DEF IdOf, FromOf
  <2>3. CASE layout # ManyCodecs /\ layout # OneTrack
    BY <2>3, SMT DEF IdOf, FromOf
  <2> QED
    BY <2>1, <2>2, <2>3
<1>7. /\ layout = OneTrack => to = Len(w)
      /\ layout # OneTrack => to = from + Number24(w, at + 1)
  BY DEF ToOf
<1> DEFINE m == Len(p)
<1> HIDE DEF at, from, to, n, p, m
<1>2a. n = (IF layout = ManyCodecs THEN 8 ELSE IF layout = OneTrack THEN 1 ELSE 4) + m
  BY <1>2 DEF m
<1>2b. m \in Nat
  BY <1>1 DEF m
<1>6. from + Len(p) = c + n /\ n \in Nat /\ n > 0
  <2>1. CASE layout = ManyCodecs
    <3>1. n = 8 + m /\ from = c + 8
      BY <1>2a, <1>5, <2>1
    <3> QED
      BY <1>2b, <3>1, SMT DEF m
  <2>2. CASE layout = OneTrack
    <3>1. n = 1 + m /\ from = c + 1
      BY <1>2a, <1>4, <1>5, <2>2
    <3> QED
      BY <1>2b, <3>1, SMT DEF m
  <2>3. CASE layout # ManyCodecs /\ layout # OneTrack
    <3>1. n = 4 + m /\ from = c + 4
      BY <1>2a, <1>5, <2>3
    <3> QED
      BY <1>2b, <3>1, SMT DEF m
  <2> QED
    BY <2>1, <2>2, <2>3
<1>5a. Len(p) \in Nat /\ Len(w) \in Nat /\ from \in Nat
  BY <1>1, <1>5
<1>8. ASSUME layout # OneTrack, from <= Len(w)
      PROVE  to = c + n
  <2>1. /\ at + 1 + 1 \in 1 .. Len(w) /\ at + 1 + 2 \in 1 .. Len(w) /\ at + 1 + 3 \in 1 .. Len(w)
    BY <1>1, <1>5, <1>8, SMT
  <2>2. Number24(w, at + 1) = Number24(f, at + 1)
    BY <2>1 DEF Number24
  <2> QED
    BY <1>3, <1>6, <1>7, <1>8, <2>2
<1>9. ASSUME c + n <= Len(w) PROVE from <= Len(w) /\ to <= Len(w)
  <2>1. from <= Len(w)
    BY <1>5a, <1>6, <1>9, SMT
  <2>2. CASE layout = OneTrack
    BY <1>1, <1>7, <2>1, <2>2, SMT
  <2>3. CASE layout # OneTrack
    BY <1>8, <1>9, <2>1, <2>3
  <2> QED
    BY <2>1, <2>2, <2>3
<1>10. ASSUME from <= Len(w) PROVE w[at + 1] = t.id
  <2>1. at + 1 \in 1 .. Len(w)
    BY <1>1, <1>5, <1>10, SMT
  <2> QED
    BY <1>3, <2>1
<1>11. ASSUME from <= Len(w), layout = ManyCodecs PROVE SubSeq(w, c + 1, c + 4) = t.fourcc
  <2>1. t.fourcc \in Seq(Byte) /\ Len(t.fourcc) = 4
    BY FourCcIsSeq
  <2>2. Shown(t.fourcc, w, c)
    <3>1. ASSUME NEW i \in 1 .. Len(t.fourcc), c + i <= Len(w) PROVE c + i \in 1 .. Len(w)
      BY <1>1, <2>1, <3>1, SMT
    <3> QED
      BY <1>3, <1>11, <3>1 DEF Shown, Stands
  <2>3. c + 4 <= Len(w)
    BY <1>1, <1>5, <1>11, SMT
  <2> QED
    BY <2>1, <2>2, <2>3, WholeStands
<1>12. Shown(p, w, from)
  <2>1. ASSUME NEW i \in 1 .. Len(p), from + i <= Len(w) PROVE from + i \in 1 .. Len(w)
    BY <1>1, <1>5, <2>1, SMT
  <2> QED
    BY <1>3, <2>1 DEF Shown, Stands
<1>13. ASSUME c + n <= Len(w) PROVE SubSeq(w, from + 1, c + n) = p
  <2>1. from + Len(p) <= Len(w)
    BY <1>6, <1>13
  <2>2. SubSeq(w, from + 1, from + Len(p)) = p
    BY <1>1, <1>5a, <1>12, <2>1, WholeStands
  <2> QED
    BY <1>6, <2>2
<1>14. ASSUME from <= Len(w), Len(w) <= c + n
       PROVE  IsPrefix(SubSeq(w, from + 1, Len(w)), p)
  <2> DEFINE s == SubSeq(w, from + 1, Len(w))
  <2>1. from + 1 \in Int /\ Len(w) \in Int /\ \A i \in from + 1 .. Len(w) : i \in 1 .. Len(w)
    BY <1>1, <1>5, SMT
  <2>2. \A i \in from + 1 .. Len(w) : w[i] \in Byte
    BY <2>1, ElementOfSeq
  <2>3. /\ s \in Seq(Byte)
        /\ Len(s) = (IF from + 1 <= Len(w) THEN Len(w) - (from + 1) + 1 ELSE 0)
        /\ \A i \in 1 .. Len(w) - (from + 1) + 1 : s[i] = w[(from + 1) + i - 1]
    BY <2>1, <2>2, SubSeqProperties
  <2> HIDE DEF s
  <2>4. Len(s) = Len(w) - from /\ Len(s) <= Len(p)
    <3>1. Len(s) = IF from + 1 <= Len(w) THEN Len(w) - (from + 1) + 1 ELSE 0
      BY <2>3
    <3> QED
      BY <1>5a, <1>6, <1>14, <3>1, SMT
  <2>5. ASSUME NEW i \in 1 .. Len(s) PROVE s[i] = p[i]
    <3>1. /\ i \in 1 .. Len(w) - (from + 1) + 1 /\ (from + 1) + i - 1 = from + i
          /\ i \in 1 .. Len(p) /\ from + i <= Len(w)
      BY <1>5a, <2>4, SMT
    <3> QED
      BY <1>12, <2>3, <3>1 DEF Shown
  <2>6. IsPrefix(s, p)
    BY <1>1, <2>3, <2>4, <2>5, PrefixIs
  <2> QED
    BY <2>6 DEF s
<1>15. /\ n \in Nat /\ n > 0
       /\ c + n <= Len(w) => from <= Len(w) /\ to <= Len(w)
       /\ from <= Len(w) /\ to <= Len(w) =>
            /\ w[at + 1] = t.id
            /\ layout = ManyCodecs => SubSeq(w, c + 1, c + 4) = t.fourcc
            /\ layout # OneTrack => to = c + n /\ SubSeq(w, from + 1, to) = p
            /\ layout = OneTrack /\ Len(w) <= c + n => IsPrefix(SubSeq(w, from + 1, to), p)
            /\ layout = OneTrack /\ Len(w) = c + n => SubSeq(w, from + 1, to) = p
  <2>1. ASSUME from <= Len(w), to <= Len(w), layout # OneTrack
        PROVE  to = c + n /\ SubSeq(w, from + 1, to) = p
    BY <1>8, <1>13, <2>1
  <2>2. ASSUME from <= Len(w), layout = OneTrack, Len(w) = c + n
        PROVE  SubSeq(w, from + 1, to) = p
    <3>1. c + n <= Len(w)
      BY <1>1, <2>2, SMT
    <3> QED
      BY <1>7, <1>13, <2>2, <3>1
  <2>3. ASSUME from <= Len(w), layout = OneTrack, Len(w) <= c + n
        PROVE  IsPrefix(SubSeq(w, from + 1, to), p)
    BY <1>7, <1>14, <2>3
  <2> QED
    BY <1>6, <1>9, <1>10, <1>11, <2>1, <2>2, <2>3
<1> QED
  BY <1>15 DEF at, from, to, n, p

(***************************************************************************)
(* Headers, field by field.                                                *)
(***************************************************************************)
Make(v, f, t, c, l, es, n, o, k, b) ==
  [video |-> v, frame |-> f, type |-> t, fourcc |-> c, layout |-> l, entries |-> es,
   nanos |-> n, cto |-> o, command |-> k, consumed |-> b]

\* What Make makes.
LEMMA MakeFields ==
  ASSUME NEW v, NEW f, NEW t, NEW c, NEW l, NEW es, NEW n, NEW o, NEW k, NEW b,
         NEW r, r = Make(v, f, t, c, l, es, n, o, k, b)
  PROVE  /\ r.video = v /\ r.frame = f /\ r.type = t /\ r.fourcc = c /\ r.layout = l
         /\ r.entries = es /\ r.nanos = n /\ r.cto = o /\ r.command = k /\ r.consumed = b
  BY DEF Make

\* Blank and every header are made from their fields.
LEMMA BlankIsMade ==
  ASSUME NEW v
  PROVE  Blank(v) = Make(v, 0, 0, <<>>, None, <<>>, 0, None, None, 0)
  BY DEF Blank, Make

LEMMA SentIsMade ==
  ASSUME NEW h \in Headers
  PROVE  h = Make(h.video, h.frame, h.type, h.fourcc, h.layout, h.entries, h.nanos, h.cto,
                  h.command, 0)
  BY HeaderFields DEF Make

(***************************************************************************)
(* What was sent, and what of it arrives.                                  *)
(***************************************************************************)
SentHeader == sent.header

\* All that was written, before the tag was cut off.
File == HeaderBytes(SentHeader) \o JoinTracks(SentHeader.layout, sent.batch) \o sent.payload

RecordEnds == Ends(Records(SentHeader.layout, sent.batch))

\* What the body is.
Given ==
  /\ SentHeader \in Headers /\ SentHeader.video = video
  /\ sent.payload \in Seq(Byte)
  /\ sent.batch \in Batches \cup {<<>>}
  /\ sent.batch = <<>> \/ Joinable(SentHeader.layout, sent.batch)
  /\ Accepted(SentHeader) /\ SentHeader.layout \in Layouts =>
       Joinable(SentHeader.layout, sent.batch) /\ sent.payload = <<>>
  /\ ~Accepted(SentHeader) =>
       sent.batch = <<>> /\ sent.payload = <<>> /\ Len(wire) = Len(File)
  /\ sent.length = IF Accepted(SentHeader) THEN Len(File) ELSE Refused
  /\ Len(wire) <= Len(File) /\ Stands(wire, File, 0)

\* All of the body is there.
Complete == Len(wire) = sent.length

\* The parts of the file and where they lie.
LEMMA FileIs ==
  ASSUME SentHeader \in Headers, sent.payload \in Seq(Byte), sent.batch \in Batches \cup {<<>>},
         sent.batch = <<>> \/ Joinable(SentHeader.layout, sent.batch)
  PROVE  LET b == HeaderBytes(SentHeader)
             n == Len(sent.batch)
         IN /\ File \in Seq(Byte) /\ Len(File) \in Nat
            /\ b \in Seq(Byte) /\ Len(b) \in Nat /\ n \in Nat
            /\ RecordEnds[0] = 0
            /\ \A i \in 0 .. n : RecordEnds[i] \in Nat /\ RecordEnds[i] <= RecordEnds[n]
            /\ Len(sent.payload) \in Nat
            /\ Len(File) = (Len(b) + RecordEnds[n]) + Len(sent.payload)
            /\ Stands(b, File, 0)
            /\ \A i \in 1 .. n :
                 /\ RecordEnds[i] =
                      RecordEnds[i - 1] + Len(JoinTrack(SentHeader.layout, sent.batch[i]))
                 /\ Stands(JoinTrack(SentHeader.layout, sent.batch[i]), File,
                           Len(b) + RecordEnds[i - 1])
            /\ Stands(sent.payload, File, Len(b) + RecordEnds[n])
<1> DEFINE b == HeaderBytes(SentHeader)
           n == Len(sent.batch)
           j == JoinTracks(SentHeader.layout, sent.batch)
           p == sent.payload
           t(i) == JoinTrack(SentHeader.layout, sent.batch[i])
<1>1. b \in Seq(Byte) /\ Len(b) \in Nat
  BY MarksAre
<1>2. /\ j \in Seq(Byte) /\ Len(j) = RecordEnds[n] /\ n \in Nat
      /\ RecordEnds[0] = 0
      /\ \A i \in 0 .. n : RecordEnds[i] \in Nat /\ RecordEnds[i] <= RecordEnds[n]
      /\ \A i \in 1 .. n :
           /\ RecordEnds[i] = RecordEnds[i - 1] + Len(t(i))
           /\ Stands(t(i), j, RecordEnds[i - 1])
  BY JoinedIs DEF RecordEnds
<1>3. p \in Seq(Byte) /\ Len(p) \in Nat
  BY LenProperties
<1>4. File = (b \o j) \o p
  BY DEF File
<1>t. \A i \in 1 .. n : t(i) \in Seq(Byte) /\ Len(t(i)) \in Nat
  <2>1. ASSUME NEW i \in 1 .. n PROVE t(i) \in Seq(Byte)
    <3>1. /\ sent.batch[i].id \in Byte /\ sent.batch[i].fourcc \in FourCc
          /\ sent.batch[i].payload \in Seq(Byte) /\ Len(sent.batch[i].payload) \in Nat
      BY BatchFields
    <3>2. Len(sent.batch[i].payload) <= MaxTrackPayload \/ SentHeader.layout = OneTrack
      BY JoinedIs
    <3> QED
      BY <3>1, <3>2, RecordIs
  <2> QED
    BY <2>1, LenProperties
<1> HIDE DEF b, n, j, p, t
<1>5. /\ b \o j \in Seq(Byte) /\ Len(b \o j) = Len(b) + Len(j)
      /\ \A i \in 1 .. Len(b) + Len(j) : (b \o j)[i] = IF i <= Len(b) THEN b[i] ELSE j[i - Len(b)]
  <2>1. b \in Seq(Byte) /\ j \in Seq(Byte)
    BY <1>1, <1>2
  <2> QED
    BY <2>1, ConcatProperties
<1> DEFINE q == b \o j
<1> HIDE DEF q
<1>6. /\ q \o p \in Seq(Byte) /\ Len(q \o p) = Len(q) + Len(p)
      /\ \A i \in 1 .. Len(q) + Len(p) : (q \o p)[i] = IF i <= Len(q) THEN q[i] ELSE p[i - Len(q)]
  BY <1>3, <1>5, ConcatProperties DEF q
<1>7. File = q \o p
  BY <1>4 DEF q
<1>8. /\ File \in Seq(Byte) /\ Len(File) \in Nat
      /\ Len(File) = (Len(b) + Len(j)) + Len(p)
      /\ \A i \in 1 .. (Len(b) + Len(j)) + Len(p) :
           File[i] = IF i <= Len(b) + Len(j) THEN q[i] ELSE p[i - (Len(b) + Len(j))]
  <2>1. Len(q) = Len(b) + Len(j)
    BY <1>5 DEF q
  <2> QED
    BY <1>6, <1>7, <2>1, LenProperties
<1>9. \A i \in 1 .. Len(b) + Len(j) : q[i] = IF i <= Len(b) THEN b[i] ELSE j[i - Len(b)]
  BY <1>5 DEF q
<1> HIDE DEF File
<1>10. Len(b) \in Nat /\ Len(j) \in Nat /\ Len(p) \in Nat
  BY <1>1, <1>2, <1>3, LenProperties
<1>11. \A i \in 1 .. Len(b) : File[i] = b[i]
  <2>1. ASSUME NEW i \in 1 .. Len(b)
        PROVE  i \in 1 .. (Len(b) + Len(j)) + Len(p) /\ i <= Len(b) + Len(j) /\ i <= Len(b)
               /\ i \in 1 .. Len(b) + Len(j)
    BY <1>10, SMT
  <2> QED
    BY <1>8, <1>9, <2>1
<1>12. \A i \in 1 .. Len(j) : File[Len(b) + i] = j[i]
  <2>1. ASSUME NEW i \in 1 .. Len(j)
        PROVE  /\ Len(b) + i \in 1 .. (Len(b) + Len(j)) + Len(p) /\ Len(b) + i <= Len(b) + Len(j)
               /\ ~(Len(b) + i <= Len(b)) /\ Len(b) + i \in 1 .. Len(b) + Len(j)
               /\ (Len(b) + i) - Len(b) = i
    BY <1>10, SMT
  <2> QED
    BY <1>8, <1>9, <2>1
<1>13. \A i \in 1 .. Len(p) : File[(Len(b) + Len(j)) + i] = p[i]
  <2>1. ASSUME NEW i \in 1 .. Len(p)
        PROVE  /\ (Len(b) + Len(j)) + i \in 1 .. (Len(b) + Len(j)) + Len(p)
               /\ ~((Len(b) + Len(j)) + i <= Len(b) + Len(j))
               /\ ((Len(b) + Len(j)) + i) - (Len(b) + Len(j)) = i
    BY <1>10, SMT
  <2> QED
    BY <1>8, <2>1
<1>14. ASSUME NEW i \in 1 .. n
       PROVE  Stands(t(i), File, Len(b) + RecordEnds[i - 1])
  <2> SUFFICES ASSUME NEW k \in 1 .. Len(t(i))
               PROVE  File[(Len(b) + RecordEnds[i - 1]) + k] = t(i)[k]
    BY DEF Stands
  <2>1. i - 1 \in 0 .. n /\ i \in 0 .. n
    BY <1>2, SMT
  <2>2. /\ RecordEnds[i - 1] \in Nat /\ RecordEnds[i] \in Nat /\ RecordEnds[i] <= Len(j)
        /\ RecordEnds[i] = RecordEnds[i - 1] + Len(t(i)) /\ Len(t(i)) \in Nat
    BY <1>2, <1>t, <2>1
  <2>3. \A x, y, z, l \in Nat : y = x + l /\ y <= z /\ k <= l /\ k >= 1 /\ k \in Nat => x + k \in 1 .. z
    BY SMT
  <2>4. k <= Len(t(i)) /\ k >= 1 /\ k \in Nat
    BY <2>2, SMT
  <2>5. RecordEnds[i - 1] + k \in 1 .. Len(j)
    BY <1>10, <2>2, <2>3, <2>4
  <2>6. File[Len(b) + (RecordEnds[i - 1] + k)] = j[RecordEnds[i - 1] + k]
    BY <1>12, <2>5
  <2>7. j[RecordEnds[i - 1] + k] = t(i)[k]
    BY <1>2 DEF Stands
  <2>8. \A x, y \in Nat : (x + y) + k = x + (y + k)
    BY <2>4, SMT
  <2> QED
    BY <1>1, <2>2, <2>6, <2>7, <2>8
<1>15. Stands(b, File, 0)
  <2>1. \A i \in 1 .. Len(b) : 0 + i = i
    BY <1>10, SMT
  <2> QED
    BY <1>11, <2>1 DEF Stands
<1>16. Stands(p, File, Len(b) + RecordEnds[n])
  BY <1>2, <1>13 DEF Stands
<1> QED
  BY <1>1, <1>2, <1>3, <1>8, <1>14, <1>15, <1>16 DEF b, n, j, p, t

\* The body is the front of the file, all of it when it is complete or was refused.
LEMMA GivenCarries ==
  ASSUME Given, wire \in Seq(Byte)
  PROVE  /\ Carries(SentHeader, wire)
         /\ Len(wire) \in Nat /\ Len(wire) <= Len(File)
         /\ \A i \in 1 .. Len(wire) : wire[i] = File[i]
         /\ ~Accepted(SentHeader) =>
              Len(wire) = Len(HeaderBytes(SentHeader)) /\ Len(wire) = Len(File)
         /\ Complete <=> Accepted(SentHeader) /\ Len(wire) = Len(File)
<1> DEFINE h == SentHeader
           b == HeaderBytes(h)
<1>1. Len(wire) \in Nat
  BY LenProperties
<1>2. /\ File \in Seq(Byte) /\ Len(File) \in Nat /\ b \in Seq(Byte) /\ Len(b) \in Nat
      /\ Len(File) = (Len(b) + RecordEnds[Len(sent.batch)]) + Len(sent.payload)
      /\ RecordEnds[0] = 0 /\ Stands(b, File, 0)
  BY FileIs DEF Given
<1>3. Len(wire) <= Len(File) /\ \A i \in 1 .. Len(wire) : wire[i] = File[i]
  <2>1. \A i \in 1 .. Len(wire) : 0 + i = i
    BY <1>1, SMT
  <2> QED
    BY <2>1 DEF Given, Stands
<1>4. ASSUME ~Accepted(h)
      PROVE  Len(wire) = Len(b) /\ Len(wire) = Len(File)
  <2>1. sent.batch = <<>> /\ sent.payload = <<>> /\ Len(wire) = Len(File)
    BY <1>4 DEF Given
  <2>2. Len(<<>>) = 0
    BY SMT
  <2>3. Len(File) = (Len(b) + 0) + 0
    BY <1>2, <2>1, <2>2
  <2> QED
    BY <1>2, <2>1, <2>3, SMT
<1>5. Shown(b, wire, 0)
  <2> SUFFICES ASSUME NEW i \in 1 .. Len(b), 0 + i <= Len(wire) PROVE wire[0 + i] = b[i]
    BY DEF Shown
  <2>1. 0 + i \in 1 .. Len(wire)
    BY <1>1, <1>2, SMT
  <2> QED
    BY <1>2, <1>3, <2>1 DEF Stands
<1>6. Complete <=> Accepted(h) /\ Len(wire) = Len(File)
  <2>1. Accepted(h) => sent.length = Len(File)
    BY DEF Given
  <2>2. ~Accepted(h) => sent.length = Refused
    BY DEF Given
  <2>3. Len(wire) # Refused
    BY <1>1, SMT DEF Refused
  <2> QED
    BY <2>1, <2>2, <2>3 DEF Complete
<1>7. Carries(h, wire)
  BY <1>4, <1>5 DEF Carries
<1> QED
  BY <1>1, <1>3, <1>4, <1>6, <1>7

(***************************************************************************)
(* The walk, on what was written.                                          *)
(***************************************************************************)
LEMMA CompleteIs ==
  ASSUME Given, wire \in Seq(Byte), Complete, NEW i \in 0 .. Size(SentHeader) + 6
  PROVE  Passed(SentHeader, i) /\ Mark(SentHeader, i) <= Len(wire)
<1> DEFINE h == SentHeader
           b == HeaderBytes(h)
<1>1. Accepted(h) /\ Len(wire) = Len(File) /\ h \in Headers
  BY GivenCarries DEF Given
<1>2. Size(h) \in Nat
  BY <1>1, HeaderFields, StepsAre
<1>3. Passed(h, i)
  <2>1. Size(h) + 6 \in 1 .. Size(h) + 6
    BY <1>2, SMT
  <2> QED
    BY <1>1, <2>1, AcceptedIs, PassedIs
<1>4. Mark(h, i) \in Nat /\ Mark(h, i) <= Len(b)
  BY <1>1, MarksAre
<1>5. /\ Len(b) \in Nat /\ RecordEnds[Len(sent.batch)] \in Nat /\ Len(sent.payload) \in Nat
      /\ Len(File) = (Len(b) + RecordEnds[Len(sent.batch)]) + Len(sent.payload)
  <2>1. Len(sent.batch) \in Nat
    BY BatchFields DEF Given
  <2>2. Len(sent.batch) \in 0 .. Len(sent.batch)
    BY <2>1, SMT
  <2> QED
    BY <2>2, FileIs DEF Given
<1>6. Len(b) <= Len(File)
  BY <1>5, SMT
<1>7. Mark(h, i) <= Len(wire)
  BY <1>1, <1>4, <1>5, <1>6, SMT
<1> QED
  BY <1>3, <1>7

\* In a consistent header only an entry announces a ModEx entry, and only the
\* last a multitrack byte.
LEMMA FollowsIs ==
  ASSUME NEW h \in Headers, Consistent(h), NEW k \in 0 .. Size(h)
  PROVE  /\ Follows(h, k) = ModEx <=> k < Size(h)
         /\ Follows(h, k) = Multitrack(h.video) <=> k = Size(h) /\ h.layout # None
         /\ k = Size(h) /\ h.layout = None => Follows(h, k) = h.type
<1>1. ModEx # Multitrack(h.video)
  BY SMT DEF ModEx, Multitrack
<1>2. Size(h) \in Nat
  BY HeaderFields, StepsAre
<1>3. CASE k = Size(h)
  <2>1. Follows(h, k) = (IF h.layout = None THEN h.type ELSE Multitrack(h.video)) /\ ~(k < Size(h))
    BY <1>2, <1>3, SMT DEF Follows, Resolved
  <2>2. h.layout = None => h.type # ModEx /\ h.type # Multitrack(h.video)
    BY DEF Consistent
  <2> QED
    BY <1>1, <1>3, <2>1, <2>2
<1>4. CASE k # Size(h)
  <2>1. k < Size(h)
    BY <1>2, <1>4, SMT
  <2>2. Follows(h, k) = ModEx
    BY <1>4 DEF Follows
  <2> QED
    BY <1>1, <1>4, <2>1, <2>2
<1> QED
  BY <1>3, <1>4

\* One turn of the walk on what was written.
LEMMA Turn ==
  ASSUME NEW h \in Headers, Consistent(h), NEW w, Carries(h, w),
         NEW k \in 0 .. Size(h), Follows(h, k) = ModEx, NEW c, c = Mark(h, k + 2)
  PROVE  /\ k + 1 \in 1 .. Size(h)
         /\ Passed(h, k + 3) /\ Mark(h, k + 3) <= Len(w) => FitsAt(w, c)
         /\ FitsAt(w, c) =>
              LET data == c + SizeWidth(w, c)
                  end == data + DecodeSize(w, c)
                  e == h.entries[k + 1]
              IN /\ Passed(h, k + 3)
                 /\ end + 1 = Mark(h, k + 3)
                 /\ SubSeq(w, data + 1, end) = e.raw
                 /\ High(w[end + 1]) = e.subtype /\ Low(w[end + 1]) = Follows(h, k + 1)
                 /\ e.nano = IF e.subtype = 0 THEN Number24(w, data) ELSE None
<1> DEFINE e == h.entries[k + 1]
           next == Follows(h, k + 1)
           s == Steps(h)[k + 3]
<1>1. Size(h) \in Nat /\ k < Size(h)
  BY HeaderFields, StepsAre, FollowsIs
<1>2. k + 1 \in 1 .. Size(h) /\ k + 3 \in 1 .. Size(h) + 6 /\ (k + 3) - 1 = k + 2 /\ (k + 1) + 2 = k + 3
  BY <1>1, SMT
<1>3. e \in Entry /\ next \in 0 .. 15
  BY <1>2, EntryFields, ResolvedIsNibble
<1>a. h.entries \in Seq(Entry)
  BY HeaderFields
<1>4. s.ok <=> EntryIsValid(e)
  BY <1>2, <1>a, StepFacts
<1>5. s.bytes = EmitEntry(e, next)
  BY <1>2, <1>a, StepFacts
<1>6. e.nano = None <=> e.subtype # 0
  <2>1. \A i \in 1 .. Len(h.entries) : h.entries[i].nano = None <=> h.entries[i].subtype # 0
    BY DEF Consistent
  <2> QED
    BY <1>2, <2>1 DEF Size
<1>7. /\ c \in Nat /\ Len(w) \in Nat
      /\ Passed(h, k + 3) => s.ok /\ Mark(h, k + 3) = c + Len(s.bytes) /\ Shown(s.bytes, w, c)
      /\ ~Passed(h, k + 3) => c = Len(w)
  BY <1>2, StepIsShown
<1>8. w \in Seq(Byte)
  BY DEF Carries
<1> HIDE DEF e, next, s
<1>9. ASSUME Passed(h, k + 3)
      PROVE  /\ Mark(h, k + 3) <= Len(w) => FitsAt(w, c)
             /\ FitsAt(w, c) =>
                  IsReadAs(e, next, w, c) /\ Mark(h, k + 3) = c + Len(EmitEntry(e, next))
  <2>1. EntryIsValid(e) /\ Shown(EmitEntry(e, next), w, c) /\ Mark(h, k + 3) = c + Len(EmitEntry(e, next))
    BY <1>4, <1>5, <1>7, <1>9
  <2>2. /\ c + Len(EmitEntry(e, next)) <= Len(w) => FitsAt(w, c)
        /\ FitsAt(w, c) => IsReadAs(e, next, w, c)
    <3>1. /\ e \in Entry /\ next \in 0 .. 15 /\ w \in Seq(Byte) /\ c \in Nat
          /\ EntryIsValid(e) /\ (e.nano = None <=> e.subtype # 0)
          /\ Shown(EmitEntry(e, next), w, c)
      BY <1>3, <1>6, <1>7, <1>8, <2>1
    <3> QED
      BY <3>1, EntryIsRead, Zenon
  <2> QED
    BY <2>1, <2>2
<1>10. FitsAt(w, c) => Passed(h, k + 3)
  <2>1. FitsAt(w, c) => c + 1 <= Len(w)
    BY DEF FitsAt
  <2> QED
    BY <1>7, <2>1, SMT
<1>11. ASSUME FitsAt(w, c)
       PROVE  LET data == c + SizeWidth(w, c)
                  end == data + DecodeSize(w, c)
              IN /\ Passed(h, k + 3)
                 /\ end + 1 = Mark(h, k + 3)
                 /\ SubSeq(w, data + 1, end) = e.raw
                 /\ High(w[end + 1]) = e.subtype /\ Low(w[end + 1]) = next
                 /\ e.nano = IF e.subtype = 0 THEN Number24(w, data) ELSE None
  BY <1>6, <1>9, <1>10, <1>11 DEF IsReadAs
<1> QED
  BY <1>2, <1>9, <1>11 DEF e, next

(***************************************************************************)
(* Writer and reader in step.                                              *)
(***************************************************************************)
\* In the walk: the entries that were read are the first k of those written.
WalkingAt(k) ==
  /\ cursor = Mark(SentHeader, k + 2)
  /\ read = Make(video, SentHeader.frame, 0, <<>>, None, SubSeq(SentHeader.entries, 1, k),
                 Sums(SentHeader.entries)[k], None, None, 0)
  /\ pending = Follows(SentHeader, k)
  /\ k = Size(SentHeader) => Passed(SentHeader, k + 2)

Walking == \E k \in 0 .. Size(SentHeader) : WalkingAt(k)

\* What was sent, as far as the three optional fields were read.
Heard(c, o, k) ==
  Make(video, SentHeader.frame, SentHeader.type, c, SentHeader.layout, SentHeader.entries,
       SentHeader.nanos, o, k, 0)

\* Behind the multitrack byte.
AtFourCc ==
  /\ SentHeader.layout \notin {None, ManyCodecs}
  /\ Passed(SentHeader, Size(SentHeader) + 3)
  /\ cursor = Mark(SentHeader, Size(SentHeader) + 3)
  /\ read = Heard(<<>>, None, None)

\* Behind the FourCC, whatever was read of the three optional fields is what was sent.
ExtraAt(c, o, k) ==
  /\ read = Heard(c, o, k)
  /\ c = <<>> <=> SentHeader.layout = ManyCodecs
  /\ c # SentHeader.fourcc => ~Passed(SentHeader, Size(SentHeader) + 4)
  /\ \/ /\ o = None /\ k = None
        /\ cursor = Mark(SentHeader, Size(SentHeader) + 4)
     \/ /\ Passed(SentHeader, Size(SentHeader) + 5) /\ HasCto(SentHeader)
        /\ o = SentHeader.cto /\ k = None
        /\ cursor = Mark(SentHeader, Size(SentHeader) + 5)
     \/ /\ Accepted(SentHeader) /\ HasCommand(SentHeader)
        /\ o = SentHeader.cto /\ k = SentHeader.command
        /\ cursor = Mark(SentHeader, Size(SentHeader) + 6)

AtExtra ==
  /\ Passed(SentHeader, Size(SentHeader) + 3)
  /\ \E c \in {<<>>, SentHeader.fourcc}, o \in {None, SentHeader.cto},
        k \in {None, SentHeader.command} : ExtraAt(c, o, k)

\* The tracks that were split off are the first of those joined.
IsFirst(t, sentTrack) ==
  /\ IsTrack(t, sentTrack)
  /\ IF SentHeader.layout = OneTrack /\ ~Complete
     THEN IsPrefix(Bytes(t), sentTrack.payload)
     ELSE Bytes(t) = sentTrack.payload

Splitting ==
  /\ Len(tracks) <= Len(sent.batch)
  /\ \A i \in 1 .. Len(tracks) : IsFirst(tracks[i], sent.batch[i])
  /\ stage = "tracks" =>
       /\ SentHeader.layout \in Layouts => Len(tracks) < Len(sent.batch)
       /\ cursor = Len(HeaderBytes(SentHeader)) + RecordEnds[Len(tracks)]
  /\ stage = "done" /\ Complete =>
       /\ Len(tracks) = Len(sent.batch)
       /\ SentHeader.layout = None => SubSeq(wire, cursor + 1, Len(wire)) = sent.payload
  /\ stage = "unsplit" => tracks = <<>> /\ (Complete => SentHeader.layout \notin Layouts)

\* Behind the header.
Behind ==
  /\ Accepted(SentHeader) => ReadsAs(SentHeader) /\ Splitting
  /\ ~Accepted(SentHeader) => IsFrontOfRefused /\ (stage = "tracks" => cursor = Len(wire))

\* Where the reader is, by what it does next.
AtStage ==
  /\ stage \in {"legacy", "invalid"} => ~Complete
  /\ stage = "modex" => Walking
  /\ stage = "fourcc" => AtFourCc
  /\ stage = "extra" => AtExtra
  /\ stage \in {"tracks", "done", "unsplit"} => Behind

\* The inductive invariant: what was sent is what there is, and the reader is at
\* a mark of the writer and holds what was written up to it.
InStep ==
  /\ stage = "writing" => sent = Nothing
  /\ stage \in {"writing", "lead"} => read = Blank(video)
  /\ IsSent => Given
  /\ IsSent /\ Consistent(SentHeader) => AtStage

\* A step of the reader leaves alone what was sent.
LEMMA OnTheWay ==
  ASSUME InStep, UNCHANGED <<sent, video, wire>>, stage' \notin {"writing", "lead"},
         IsSent /\ Given /\ Consistent(SentHeader) /\ AtStage => AtStage'
  PROVE  InStep'
<1>1. sent' = sent /\ video' = video /\ wire' = wire
  OBVIOUS
<1>2. /\ IsSent' <=> IsSent
      /\ Given' <=> Given
      /\ Consistent(SentHeader)' <=> Consistent(SentHeader)
  BY <1>1 DEF IsSent, Given, SentHeader, File, Consistent
<1> QED
  BY <1>2 DEF InStep

\* What the lemmas on the steps of the reader take from what was sent.
LEMMA Sent ==
  ASSUME IInv, Given
  PROVE  /\ SentHeader \in Headers /\ SentHeader.video = video
         /\ wire \in Seq(Byte) /\ Len(wire) \in Nat
         /\ Carries(SentHeader, wire)
         /\ Size(SentHeader) \in Nat
         /\ cursor \in Nat /\ cursor <= Len(wire)
         /\ SentHeader.entries \in Seq(Entry)
<1>1. wire \in Seq(Byte) /\ Len(wire) \in Nat /\ cursor \in 0 .. Len(wire)
  BY Facts
<1>2. cursor \in Nat /\ cursor <= Len(wire)
  BY <1>1, SMT
<1>3. SentHeader \in Headers /\ SentHeader.video = video
  BY DEF Given
<1>4. SentHeader.entries \in Seq(Entry) /\ Size(SentHeader) \in Nat
  BY <1>3, HeaderFields, StepsAre
<1> QED
  BY <1>1, <1>2, <1>3, <1>4, GivenCarries

\* The first byte.
LEMMA FirstByte ==
  ASSUME IInv, Given
  PROVE  /\ Mark(SentHeader, 1) = Mark(SentHeader, 2)
         /\ wire # <<>> =>
              /\ Passed(SentHeader, 1) /\ Mark(SentHeader, 1) = 1
              /\ wire[1] = Lead(SentHeader)
         /\ Complete => wire # <<>>
         /\ Size(SentHeader) = 0 /\ wire # <<>> => Passed(SentHeader, 2)
<1> DEFINE h == SentHeader
<1>1. /\ h \in Headers /\ wire \in Seq(Byte) /\ Len(wire) \in Nat /\ Carries(h, wire)
      /\ Size(h) \in Nat /\ h.entries \in Seq(Entry)
  BY Sent
<1>2. 1 \in 1 .. Size(h) + 6 /\ 2 \in 1 .. Size(h) + 6 /\ 1 - 1 = 0 /\ 2 - 1 = 1 /\ 1 \in 0 .. Size(h) + 6
  BY <1>1, SMT
<1>3. /\ Mark(h, 0) = 0
      /\ Mark(h, 1) \in Nat /\ Mark(h, 2) \in Nat
      /\ Passed(h, 1) =>
           Mark(h, 1) = Mark(h, 0) + Len(Steps(h)[1].bytes) /\ Shown(Steps(h)[1].bytes, wire, Mark(h, 0))
      /\ ~Passed(h, 1) => Mark(h, 0) = Len(wire)
  <2>1. Mark(h, 0) = 0
    BY <1>1, MarksAre
  <2>2. /\ Mark(h, 1) \in Nat
        /\ Passed(h, 1) =>
             Mark(h, 1) = Mark(h, 0) + Len(Steps(h)[1].bytes) /\ Shown(Steps(h)[1].bytes, wire, Mark(h, 0))
        /\ ~Passed(h, 1) => Mark(h, 0) = Len(wire)
    BY <1>1, <1>2, StepIsShown
  <2>3. Mark(h, 2) \in Nat
    BY <1>1, <1>2, StepIsShown
  <2> QED
    BY <2>1, <2>2, <2>3
<1>4. /\ Passed(h, 2) => Mark(h, 2) = Mark(h, 1) + Len(Steps(h)[2].bytes)
      /\ ~Passed(h, 2) => Mark(h, 1) = Len(wire) /\ Mark(h, 2) = Len(wire)
  BY <1>1, <1>2, StepIsShown
<1>5. /\ Steps(h)[1].bytes = <<Lead(h)>>
      /\ Steps(h)[2].bytes = <<>>
      /\ Steps(h)[2].ok <=> (h.entries # <<>> => Resolved(h) # ModEx)
  BY <1>1, StepFacts
<1>6. Mark(h, 1) = Mark(h, 2)
  <2>1. Len(<<>>) = 0
    BY SMT
  <2>2. Passed(h, 2) => Mark(h, 2) = Mark(h, 1) + 0
    BY <1>4, <1>5, <2>1
  <2> QED
    BY <1>3, <1>4, <2>2, SMT
<1>7. wire # <<>> <=> Len(wire) # 0
  BY <1>1, EmptySeq
<1>8. ASSUME wire # <<>>
      PROVE  Passed(h, 1) /\ Mark(h, 1) = 1 /\ wire[1] = Lead(h)
  <2>1. Passed(h, 1)
    BY <1>3, <1>7, <1>8
  <2> DEFINE x == Lead(h)
  <2>2. Len(<<x>>) = 1 /\ <<x>>[1] = x
    OBVIOUS
  <2>3. Mark(h, 1) = 0 + 1 /\ Shown(<<x>>, wire, 0)
    BY <1>3, <1>5, <2>1, <2>2
  <2>4. 1 \in 1 .. Len(<<x>>) /\ 0 + 1 = 1 /\ 1 <= Len(wire)
    BY <1>1, <1>7, <1>8, <2>2, SMT
  <2>5. wire[1] = x
    BY <2>2, <2>3, <2>4 DEF Shown
  <2> QED
    BY <2>1, <2>3, <2>4, <2>5
<1>9. Complete => wire # <<>>
  <2> SUFFICES ASSUME Complete PROVE wire # <<>>
    OBVIOUS
  <2>1. Passed(h, 1) /\ Mark(h, 1) <= Len(wire)
    BY <1>1, <1>2, CompleteIs
  <2>2. Mark(h, 1) = 0 + Len(<<Lead(h)>>)
    BY <1>3, <1>5, <2>1
  <2>3. Len(<<Lead(h)>>) = 1
    OBVIOUS
  <2>4. 1 <= Len(wire)
    BY <2>1, <2>2, <2>3, SMT
  <2> QED
    BY <1>1, <1>7, <2>4, SMT
<1>10. ASSUME Size(h) = 0, wire # <<>> PROVE Passed(h, 2)
  <2>1. h.entries = <<>>
    BY <1>1, <1>10, EmptySeq DEF Size
  <2>2. Steps(h)[2].ok
    BY <1>5, <2>1
  <2> QED
    BY <1>1, <1>2, <1>8, <1>10, <2>2, PassedIs
<1> QED
  BY <1>6, <1>8, <1>9, <1>10

(***************************************************************************)
(* The steps of the reader, one by one: first the walk.                    *)
(***************************************************************************)
LEMMA LegacyInStep ==
  ASSUME IInv, InStep, ParseLegacy
  PROVE  InStep'
<1>1. /\ stage = "lead" /\ stage' = "legacy" /\ ~IsEx
      /\ UNCHANGED <<sent, video, wire>>
  BY DEF ParseLegacy
<1>2. ASSUME Given PROVE ~Complete
  <2> SUFFICES ASSUME Complete PROVE FALSE
    OBVIOUS
  <2> DEFINE x == Lead(SentHeader)
  <2>1. SentHeader \in Headers /\ SentHeader.video = video
    BY <1>2, Sent
  <2>2. wire # <<>> /\ wire[1] = x
    BY <1>2, FirstByte
  <2>3. x \in Byte /\ High(x) = IF video THEN 8 + SentHeader.frame ELSE 9
    BY <2>1, LeadIsByte
  <2>4. video => x >= 128
    <3>1. SentHeader.frame \in Nat /\ x \in Nat
      BY <2>1, <2>3, HeaderFields, BytesAre, SMT
    <3>2. \A y, f \in Nat : y \div 16 = 8 + f => y >= 128
      BY SMT
    <3> HIDE DEF x
    <3> QED
      BY <2>3, <3>1, <3>2 DEF High
  <2> HIDE DEF x
  <2>5. IsEx
    BY <2>2, <2>3, <2>4 DEF IsEx
  <2> QED
    BY <1>1, <2>5
<1>3. Given => Given' /\ (Complete' <=> Complete)
  BY <1>1 DEF Given, Complete, SentHeader, File
<1>4. stage' \notin {"writing", "lead"} /\ stage' \notin {"modex", "fourcc", "extra", "tracks", "done", "unsplit"}
  BY <1>1
<1>5. Given => AtStage'
  BY <1>2, <1>3, <1>4 DEF AtStage
<1> QED
  BY <1>1, <1>4, <1>5, OnTheWay

\* The first entries, and what their nanoseconds add up to.
LEMMA SentEntries ==
  ASSUME NEW h \in Headers
  PROVE  /\ SubSeq(h.entries, 1, 0) = <<>>
         /\ SubSeq(h.entries, 1, Size(h)) = h.entries
         /\ \A k \in 0 .. Size(h) - 1 :
              Append(SubSeq(h.entries, 1, k), h.entries[k + 1]) = SubSeq(h.entries, 1, k + 1)
         /\ Sums(h.entries)[0] = 0
         /\ \A k \in 0 .. Size(h) - 1 :
              Sums(h.entries)[k + 1] =
                IF h.entries[k + 1].nano = None THEN Sums(h.entries)[k]
                ELSE Saturating(Sums(h.entries)[k], h.entries[k + 1].nano)
<1> DEFINE es == h.entries
           n == Size(h)
<1>1. es \in Seq(Entry) /\ n \in Nat /\ n = Len(es)
  BY HeaderFields, StepsAre DEF Size
<1> HIDE DEF es, n
<1>2. SubSeq(es, 1, 0) = <<>>
  <2>1. 0 \in Int /\ 1 \in Int /\ 0 < 1
    BY SMT
  <2> QED
    BY <2>1, SubSeqEmpty
<1>3. SubSeq(es, 1, n) = es
  BY <1>1, SubSeqFull
<1>4. ASSUME NEW k \in 0 .. n - 1
      PROVE  Append(SubSeq(es, 1, k), es[k + 1]) = SubSeq(es, 1, k + 1)
  <2>1. /\ k \in Int /\ k \in Nat /\ k + 1 \in 1 .. n /\ k + 1 \in Int /\ 1 \in Int /\ 1 <= k + 1
        /\ \A i \in 1 .. k : i \in 1 .. Len(es)
        /\ \A i \in 1 .. k + 1 : i \in 1 .. Len(es)
    BY <1>1, SMT
  <2>2. (\A i \in 1 .. k : es[i] \in Entry) /\ (\A i \in 1 .. k + 1 : es[i] \in Entry) /\ es[k + 1] \in Entry
    BY <1>1, <2>1, ElementOfSeq
  <2> DEFINE s == SubSeq(es, 1, k)
             t == SubSeq(es, 1, k + 1)
             x == es[k + 1]
  <2>3. /\ s \in Seq(Entry) /\ Len(s) = (IF 1 <= k THEN k - 1 + 1 ELSE 0)
        /\ \A i \in 1 .. k - 1 + 1 : s[i] = es[1 + i - 1]
    BY <2>1, <2>2, SubSeqProperties
  <2>4. /\ t \in Seq(Entry) /\ Len(t) = (IF 1 <= k + 1 THEN (k + 1) - 1 + 1 ELSE 0)
        /\ \A i \in 1 .. (k + 1) - 1 + 1 : t[i] = es[1 + i - 1]
    BY <2>1, <2>2, SubSeqProperties
  <2>5. x \in Entry
    BY <2>2
  <2> DEFINE a == Append(s, x)
  <2> HIDE DEF s, t
  <2>6. /\ a \in Seq(Entry) /\ Len(a) = Len(s) + 1
        /\ \A i \in 1 .. Len(s) : a[i] = s[i]
        /\ a[Len(s) + 1] = x
    BY <2>3, <2>5, AppendProperties
  <2> HIDE DEF a
  <2>7. Len(s) = k /\ Len(t) = k + 1
    BY <2>1, <2>3, <2>4, SMT
  <2>8. ASSUME NEW i \in 1 .. Len(a) PROVE a[i] = t[i]
    <3>1. /\ i \in 1 .. (k + 1) - 1 + 1 /\ 1 + i - 1 = i
          /\ i \in 1 .. k \/ i = k + 1
          /\ \A j \in 1 .. k : j \in 1 .. k - 1 + 1 /\ 1 + j - 1 = j
      BY <2>1, <2>6, <2>7, SMT
    <3> QED
      BY <2>3, <2>4, <2>6, <2>7, <3>1
  <2>9. a = t
    BY <2>4, <2>6, <2>7, <2>8, SeqEqual
  <2> QED
    BY <2>9 DEF a, s, t
<1>5. /\ Sums(es)[0] = 0
      /\ \A i \in 1 .. Len(es) :
              Sums(es)[i] = IF es[i].nano = None THEN Sums(es)[i - 1]
                                                 ELSE Saturating(Sums(es)[i - 1], es[i].nano)
  BY <1>1, SumsAre DEF Entry
<1>6. ASSUME NEW k \in 0 .. n - 1
      PROVE  Sums(es)[k + 1] = IF es[k + 1].nano = None THEN Sums(es)[k]
                               ELSE Saturating(Sums(es)[k], es[k + 1].nano)
  <2>1. k + 1 \in 1 .. Len(es) /\ (k + 1) - 1 = k
    BY <1>1, SMT
  <2> QED
    BY <1>5, <2>1
<1> QED
  BY <1>2, <1>3, <1>4, <1>5, <1>6 DEF es, n

\* The first byte starts the walk.
LEMMA LeadInStep ==
  ASSUME IInv, InStep, ParseLead
  PROVE  InStep'
<1>1. /\ stage = "lead" /\ stage' = "modex" /\ cursor' = 1 /\ wire # <<>>
      /\ pending' = Low(Next1)
      /\ read' = [read EXCEPT !.frame = IF video THEN High(Next1) % 8 ELSE 0]
      /\ UNCHANGED <<sent, video, wire>>
  BY DEF ParseLead, IsEx
<1>2. read = Blank(video) /\ cursor = 0
  BY <1>1, SMT DEF InStep, IInv, Splits
<1>3. ASSUME Given PROVE Walking'
  <2> DEFINE h == SentHeader
             x == Lead(h)
  <2>1. h \in Headers /\ h.video = video /\ Size(h) \in Nat
    BY <1>3, Sent
  <2>2. Next1 = x
    <3>1. 0 + 1 = 1
      BY SMT
    <3> QED
      BY <1>1, <1>2, <1>3, <3>1, FirstByte DEF Next1
  <2>3. High(x) = (IF video THEN 8 + h.frame ELSE 9) /\ Low(x) = Follows(h, 0)
    BY <2>1, LeadIsByte
  <2>4. (IF video THEN High(x) % 8 ELSE 0) = h.frame
    <3>1. CASE video
      <4>1. h.frame \in Nat /\ h.frame < 8
        BY <2>1, HeaderFields, SMT
      <4>2. \A f \in Nat : f < 8 => (8 + f) % 8 = f
        BY SMT
      <4> QED
        BY <2>3, <3>1, <4>1, <4>2
    <3>2. CASE ~video
      BY <2>1, <3>2, HeaderFields
    <3> QED
      BY <3>1, <3>2
  <2> HIDE DEF x
  <2>5. read' = [read EXCEPT !.frame = h.frame]
    BY <1>1, <2>2, <2>4
  <2>6. read = Make(video, 0, 0, <<>>, None, <<>>, 0, None, None, 0)
    BY <1>2, BlankIsMade
  <2>7. read' = Make(video, h.frame, 0, <<>>, None, <<>>, 0, None, None, 0)
    BY <2>5, <2>6, SMT DEF Make
  <2>8. SubSeq(h.entries, 1, 0) = <<>> /\ Sums(h.entries)[0] = 0
    BY <2>1, SentEntries
  <2>9. Mark(h, 2) = 1 /\ (Size(h) = 0 => Passed(h, 2))
    BY <1>1, <1>3, FirstByte
  <2>10. 0 \in 0 .. Size(h) /\ 0 + 2 = 2
    BY <2>1, SMT
  <2>11. SentHeader' = SentHeader
    BY <1>1 DEF SentHeader
  <2>12. WalkingAt(0)'
    BY <1>1, <2>2, <2>3, <2>7, <2>8, <2>9, <2>10, <2>11 DEF WalkingAt
  <2> QED
    BY <2>10, <2>11, <2>12 DEF Walking
<1>4. stage' \notin {"writing", "lead", "legacy", "invalid", "fourcc", "extra", "tracks", "done", "unsplit"}
  BY <1>1
<1>5. Given => AtStage'
  BY <1>3, <1>4 DEF AtStage
<1> QED
  BY <1>1, <1>4, <1>5, OnTheWay

\* EntryFits, at the cursor.
LEMMA FitsHere ==
  ASSUME IInv
  PROVE  EntryFits <=> FitsAt(wire, cursor)
  BY DEF EntryFits, FitsAt, Left

\* In the walk, where the reader is.
LEMMA WalkingIs ==
  ASSUME IInv, Given, Consistent(SentHeader), NEW k \in 0 .. Size(SentHeader), WalkingAt(k)
  PROVE  /\ pending = ModEx => k < Size(SentHeader)
         /\ pending = Multitrack(video) => k = Size(SentHeader) /\ SentHeader.layout # None
         /\ pending \notin {ModEx, Multitrack(video)} =>
              k = Size(SentHeader) /\ SentHeader.layout = None /\ pending = SentHeader.type
         /\ k = Size(SentHeader) =>
              /\ Passed(SentHeader, Size(SentHeader) + 2)
              /\ cursor = Mark(SentHeader, Size(SentHeader) + 2)
              /\ read = Make(video, SentHeader.frame, 0, <<>>, None, SentHeader.entries,
                             SentHeader.nanos, None, None, 0)
<1> DEFINE h == SentHeader
<1>1. h \in Headers /\ h.video = video /\ Size(h) \in Nat
  BY Sent
<1>2. pending = Follows(h, k) /\ cursor = Mark(h, k + 2)
  BY DEF WalkingAt
<1>3. /\ Follows(h, k) = ModEx <=> k < Size(h)
      /\ Follows(h, k) = Multitrack(h.video) <=> k = Size(h) /\ h.layout # None
      /\ k = Size(h) /\ h.layout = None => Follows(h, k) = h.type
  BY <1>1, FollowsIs
<1>4. k < Size(h) \/ k = Size(h)
  BY <1>1, SMT
<1>5. ASSUME k = Size(h)
      PROVE  /\ Passed(h, Size(h) + 2) /\ cursor = Mark(h, Size(h) + 2)
             /\ read = Make(video, h.frame, 0, <<>>, None, h.entries, h.nanos, None, None, 0)
  <2>1. Sums(h.entries)[Size(h)] = h.nanos
    BY DEF Consistent, Total, Size
  <2>2. SubSeq(h.entries, 1, Size(h)) = h.entries
    BY <1>1, SentEntries
  <2>3. read = Make(video, h.frame, 0, <<>>, None, SubSeq(h.entries, 1, k),
                    Sums(h.entries)[k], None, None, 0)
    BY DEF WalkingAt
  <2>4. Passed(h, k + 2)
    BY <1>5 DEF WalkingAt
  <2> QED
    BY <1>2, <1>5, <2>1, <2>2, <2>3, <2>4
<1> QED
  BY <1>1, <1>2, <1>3, <1>4, <1>5

\* A turn of the walk reads the entry that was written.
LEMMA WalkInStep ==
  ASSUME IInv, InStep, WalkEntry
  PROVE  InStep'
<1> DEFINE data == cursor + SizeWidth(wire, cursor)
           end == data + DecodeSize(wire, cursor)
           subtype == High(wire[end + 1])
           nano == IF subtype = 0 THEN Number24(wire, data) ELSE None
           e == [subtype |-> subtype, nano |-> nano, raw |-> SubSeq(wire, data + 1, end)]
           xs == Append(read.entries, e)
           ns == IF subtype = 0 THEN Saturating(read.nanos, nano) ELSE read.nanos
<1>1. /\ stage = "modex" /\ stage' = stage /\ pending = ModEx /\ EntryFits
      /\ pending' = Low(wire[end + 1])
      /\ cursor' = end + 1
      /\ UNCHANGED <<sent, video, wire>>
  BY DEF WalkEntry
<1>2. read' = [read EXCEPT !.entries = xs, !.nanos = ns]
  BY DEF WalkEntry
<1> HIDE DEF xs, ns
<1>3. ASSUME Given, Consistent(SentHeader), Walking PROVE Walking'
  <2> DEFINE h == SentHeader
  <2>1. /\ h \in Headers /\ h.video = video /\ Size(h) \in Nat /\ h.entries \in Seq(Entry)
        /\ Carries(h, wire)
    BY <1>3, Sent
  <2>2. PICK k \in 0 .. Size(h) : WalkingAt(k)
    BY <1>3 DEF Walking
  <2>3. /\ pending = Follows(h, k) /\ cursor = Mark(h, k + 2)
        /\ read = Make(video, h.frame, 0, <<>>, None, SubSeq(h.entries, 1, k),
                       Sums(h.entries)[k], None, None, 0)
    BY <2>2 DEF WalkingAt
  <2>4. FitsAt(wire, cursor) /\ Follows(h, k) = ModEx
    BY <1>1, <2>3, FitsHere
  <2> DEFINE sentE == h.entries[k + 1]
  <2>5. /\ k + 1 \in 1 .. Size(h)
        /\ Passed(h, k + 3)
        /\ end + 1 = Mark(h, k + 3)
        /\ SubSeq(wire, data + 1, end) = sentE.raw
        /\ High(wire[end + 1]) = sentE.subtype /\ Low(wire[end + 1]) = Follows(h, k + 1)
        /\ sentE.nano = IF sentE.subtype = 0 THEN Number24(wire, data) ELSE None
    BY <1>3, <2>1, <2>2, <2>3, <2>4, Turn
  <2>6. sentE \in Entry
    BY <2>1, <2>5, EntryFields
  <2>7. sentE = [subtype |-> sentE.subtype, nano |-> sentE.nano, raw |-> sentE.raw]
    BY <2>6 DEF Entry
  <2>8. e = sentE /\ subtype = sentE.subtype /\ nano = sentE.nano
    <3>1. subtype = sentE.subtype
      BY <2>5
    <3>2. nano = sentE.nano
      BY <2>5, <3>1
    <3> QED
      BY <2>5, <2>7, <3>1, <3>2
  <2>9. sentE.nano = None <=> sentE.subtype # 0
    <3>1. \A i \in 1 .. Len(h.entries) : h.entries[i].nano = None <=> h.entries[i].subtype # 0
      BY <1>3 DEF Consistent
    <3> QED
      BY <2>5, <3>1 DEF Size
  <2>10. k \in 0 .. Size(h) - 1 /\ (k + 1) + 2 = k + 3 /\ k + 1 \in 0 .. Size(h)
    BY <2>1, <2>5, SMT
  <2>11. read.entries = SubSeq(h.entries, 1, k) /\ read.nanos = Sums(h.entries)[k]
    BY <2>3 DEF Make
  <2> HIDE DEF data, end, subtype, nano, e, sentE
  <2>12. xs = SubSeq(h.entries, 1, k + 1)
    <3>1. Append(SubSeq(h.entries, 1, k), sentE) = SubSeq(h.entries, 1, k + 1)
      BY <2>1, <2>10, SentEntries DEF sentE
    <3> QED
      BY <2>8, <2>11, <3>1 DEF xs
  <2>13. ns = Sums(h.entries)[k + 1]
    <3>1. Sums(h.entries)[k + 1] =
            IF sentE.nano = None THEN Sums(h.entries)[k]
            ELSE Saturating(Sums(h.entries)[k], sentE.nano)
      BY <2>1, <2>10, SentEntries DEF sentE
    <3> QED
      BY <2>8, <2>9, <2>11, <3>1 DEF ns
  <2>14. read' = Make(video, h.frame, 0, <<>>, None, xs, ns, None, None, 0)
    <3> DEFINE q == [read EXCEPT !.entries = xs]
    <3>1. read' = [q EXCEPT !.nanos = ns]
      BY <1>2, SMT
    <3>2. q = Make(video, h.frame, 0, <<>>, None, xs, Sums(h.entries)[k], None, None, 0)
      BY <2>3, SMT DEF Make
    <3> HIDE DEF q
    <3> QED
      BY <3>1, <3>2, SMT DEF Make
  <2>15. SentHeader' = SentHeader
    BY <1>1 DEF SentHeader
  <2>16. WalkingAt(k + 1)'
    <3>1. cursor' = Mark(h, (k + 1) + 2)
      BY <1>1, <2>5, <2>10
    <3>2. pending' = Follows(h, k + 1)
      BY <1>1, <2>5
    <3>3. Passed(h, (k + 1) + 2)
      BY <2>5, <2>10
    <3>4. read' = Make(video, h.frame, 0, <<>>, None, SubSeq(h.entries, 1, k + 1),
                       Sums(h.entries)[k + 1], None, None, 0)
      BY <2>12, <2>13, <2>14
    <3> QED
      BY <1>1, <2>15, <3>1, <3>2, <3>3, <3>4 DEF WalkingAt
  <2> QED
    BY <2>10, <2>15, <2>16 DEF Walking
<1>4. stage' \notin {"writing", "lead", "legacy", "invalid", "fourcc", "extra", "tracks", "done", "unsplit"}
  BY <1>1
<1>5. Given /\ Consistent(SentHeader) /\ AtStage => AtStage'
  BY <1>1, <1>3, <1>4 DEF AtStage
<1> QED
  BY <1>1, <1>4, <1>5, OnTheWay

(***************************************************************************)
(* The four steps behind the walk, as the reader meets them.               *)
(***************************************************************************)
LEMMA LayoutStep ==
  ASSUME NEW h \in Headers, NEW w, Carries(h, w), NEW n, n = Size(h)
  PROVE  /\ Mark(h, n + 2) < Len(w) => Passed(h, n + 3)
         /\ h.layout = None => Mark(h, n + 3) = Mark(h, n + 2)
         /\ h.layout # None /\ Passed(h, n + 3) =>
              /\ h.type # Multitrack(h.video)
              /\ Mark(h, n + 3) = Mark(h, n + 2) + 1
              /\ Mark(h, n + 3) <= Len(w) => w[Mark(h, n + 2) + 1] = Pack(h.layout, h.type)
<1> DEFINE s == Steps(h)[n + 3]
           c == Mark(h, n + 2)
           d == Mark(h, n + 3)
           p == Passed(h, n + 3)
<1>0. h.entries \in Seq(Entry) /\ Size(h) \in Nat
  BY HeaderFields, StepsAre
<1>1. n \in Nat /\ n + 3 \in 1 .. Size(h) + 6 /\ (n + 3) - 1 = n + 2
  BY <1>0, SMT
<1>2. /\ c \in Nat /\ d \in Nat /\ Len(w) \in Nat
      /\ p => s.ok /\ d = c + Len(s.bytes) /\ Shown(s.bytes, w, c)
      /\ ~p => c = Len(w) /\ d = Len(w)
  BY <1>1, StepIsShown
<1>3. /\ s.ok <=> (h.layout # None => h.type # Multitrack(h.video))
      /\ s.bytes = Optional(h.layout # None, <<Pack(h.layout, h.type)>>)
  BY <1>0, <1>1, StepFacts
<1> HIDE DEF s, c, d, p
<1>4. CASE h.layout = None
  <2>1. s.bytes = <<>> /\ Len(<<>>) = 0
    BY <1>3, <1>4, SMT DEF Optional
  <2>2. p => d = c + 0
    BY <1>2, <2>1
  <2>3. d = c
    BY <1>2, <2>2, SMT
  <2>4. c < Len(w) => p
    BY <1>2, SMT
  <2> QED
    BY <1>4, <2>3, <2>4 DEF c, d, p
<1>5. CASE h.layout # None
  <2> DEFINE x == Pack(h.layout, h.type)
  <2>1. s.bytes = <<x>>
    BY <1>3, <1>5 DEF Optional
  <2> HIDE DEF x
  <2>2. Len(<<x>>) = 1 /\ <<x>>[1] = x /\ 1 \in 1 .. Len(<<x>>)
    BY SMT
  <2>3. p => d = c + 1 /\ Shown(<<x>>, w, c)
    BY <1>2, <2>1, <2>2
  <2>4. p /\ d <= Len(w) => w[c + 1] = x
    BY <2>2, <2>3 DEF Shown
  <2>5. c < Len(w) => p
    BY <1>2, SMT
  <2>6. p => h.type # Multitrack(h.video)
    BY <1>2, <1>3, <1>5
  <2> QED
    BY <1>5, <2>3, <2>4, <2>5, <2>6 DEF c, d, p, x
<1> QED
  BY <1>4, <1>5

\* The FourCC.
LEMMA FourCcStep ==
  ASSUME NEW h \in Headers, NEW w, Carries(h, w), NEW n, n = Size(h)
  PROVE  /\ Mark(h, n + 3) < Len(w) => Passed(h, n + 4)
         /\ h.fourcc = <<>> \/ ~Passed(h, n + 4) => Mark(h, n + 4) = Mark(h, n + 3)
         /\ Passed(h, n + 4) => (h.fourcc = <<>> <=> h.layout = ManyCodecs)
         /\ Passed(h, n + 4) /\ h.fourcc # <<>> =>
              /\ Mark(h, n + 4) = Mark(h, n + 3) + 4
              /\ Mark(h, n + 4) <= Len(w) =>
                   SubSeq(w, Mark(h, n + 3) + 1, Mark(h, n + 3) + 4) = h.fourcc
<1> DEFINE s == Steps(h)[n + 4]
           c == Mark(h, n + 3)
           d == Mark(h, n + 4)
           p == Passed(h, n + 4)
<1>0. h.entries \in Seq(Entry) /\ Size(h) \in Nat
  BY HeaderFields, StepsAre
<1>1. n \in Nat /\ n + 4 \in 1 .. Size(h) + 6 /\ (n + 4) - 1 = n + 3
  BY <1>0, SMT
<1>2. /\ c \in Nat /\ d \in Nat /\ Len(w) \in Nat
      /\ p => s.ok /\ d = c + Len(s.bytes) /\ Shown(s.bytes, w, c)
      /\ ~p => c = Len(w) /\ d = Len(w)
  BY <1>1, StepIsShown
<1>3. /\ s.ok <=> (h.fourcc = <<>> <=> h.layout = ManyCodecs)
      /\ s.bytes = h.fourcc
  BY <1>0, <1>1, StepFacts
<1> HIDE DEF s, c, d, p
<1>4. c < Len(w) => p
  BY <1>2, SMT
<1>5. h.fourcc = <<>> \/ ~p => d = c
  <2>1. Len(<<>>) = 0
    BY SMT
  <2>2. p /\ h.fourcc = <<>> => d = c + 0
    BY <1>2, <1>3, <2>1
  <2> QED
    BY <1>2, <2>2, SMT
<1>6. ASSUME p, h.fourcc # <<>>
      PROVE  d = c + 4 /\ (d <= Len(w) => SubSeq(w, c + 1, c + 4) = h.fourcc)
  <2>1. h.fourcc \in Seq(Byte) /\ Len(h.fourcc) = 4
    BY <1>6, HeaderFields, FourCcIsSeq
  <2>2. w \in Seq(Byte)
    BY DEF Carries
  <2>3. d = c + 4 /\ Shown(h.fourcc, w, c)
    BY <1>2, <1>3, <1>6, <2>1
  <2>4. ASSUME d <= Len(w) PROVE SubSeq(w, c + 1, c + 4) = h.fourcc
    <3>1. c \in Nat /\ c + Len(h.fourcc) <= Len(w)
      BY <1>2, <2>1, <2>3, <2>4
    <3>2. SubSeq(w, c + 1, c + Len(h.fourcc)) = h.fourcc
      BY <2>1, <2>2, <2>3, <3>1, WholeStands
    <3> QED
      BY <2>1, <3>2
  <2> QED
    BY <2>3, <2>4
<1>7. p => (h.fourcc = <<>> <=> h.layout = ManyCodecs)
  BY <1>2, <1>3
<1> QED
  BY <1>4, <1>5, <1>6, <1>7 DEF c, d, p

\* The offset.
LEMMA CtoStep ==
  ASSUME NEW h \in Headers, NEW w, Carries(h, w), NEW n, n = Size(h)
  PROVE  /\ Mark(h, n + 4) < Len(w) => Passed(h, n + 5)
         /\ Passed(h, n + 5) =>
              Passed(h, n + 4) /\ (h.cto # None <=> HasCto(h)) /\ (h.cto # None => FitsSI24(h.cto))
         /\ ~HasCto(h) \/ ~Passed(h, n + 5) => Mark(h, n + 5) = Mark(h, n + 4)
         /\ Passed(h, n + 5) /\ HasCto(h) =>
              /\ Mark(h, n + 5) = Mark(h, n + 4) + 3
              /\ Mark(h, n + 5) <= Len(w) => Signed24(w, Mark(h, n + 4)) = h.cto
<1> DEFINE s == Steps(h)[n + 5]
           c == Mark(h, n + 4)
           d == Mark(h, n + 5)
           p == Passed(h, n + 5)
<1>0. h.entries \in Seq(Entry) /\ Size(h) \in Nat
  BY HeaderFields, StepsAre
<1>1. n \in Nat /\ n + 5 \in 1 .. Size(h) + 6 /\ (n + 5) - 1 = n + 4
  BY <1>0, SMT
<1>2. /\ c \in Nat /\ d \in Nat /\ Len(w) \in Nat
      /\ p => Passed(h, n + 4) /\ s.ok /\ d = c + Len(s.bytes) /\ Shown(s.bytes, w, c)
      /\ ~p => c = Len(w) /\ d = Len(w)
  BY <1>1, StepIsShown
<1>3. s.ok <=> (h.cto # None <=> HasCto(h)) /\ (h.cto # None => FitsSI24(h.cto))
  BY <1>0, <1>1, StepFacts, Zenon
<1>3b. s.bytes = IF h.cto = None THEN <<>> ELSE SI24(h.cto)
  BY <1>0, <1>1, StepFacts, Zenon
<1> HIDE DEF s, c, d, p
<1>4. c < Len(w) => p
  BY <1>2, SMT
<1>5. p => (h.cto # None <=> HasCto(h)) /\ (h.cto # None => FitsSI24(h.cto))
  BY <1>2, <1>3, Zenon
<1>6. ~HasCto(h) \/ ~p => d = c
  <2>1. Len(<<>>) = 0
    BY SMT
  <2>2. p /\ ~HasCto(h) => s.bytes = <<>>
    BY <1>3b, <1>5
  <2>3. p /\ ~HasCto(h) => d = c + 0
    BY <1>2, <2>1, <2>2
  <2> QED
    BY <1>2, <2>3, SMT
<1>7. ASSUME p, HasCto(h)
      PROVE  d = c + 3 /\ (d <= Len(w) => Signed24(w, c) = h.cto)
  <2> DEFINE x == h.cto
  <2>1. x \in Int /\ FitsSI24(x) /\ s.bytes = SI24(x)
    <3>1. x # None /\ FitsSI24(x)
      BY <1>5, <1>7
    <3>2. x \in Int
      BY <3>1, HeaderFields, Zenon
    <3> QED
      BY <1>3b, <3>1, <3>2, Zenon
  <2> HIDE DEF x
  <2>2. SI24(x) \in Seq(Byte) /\ Len(SI24(x)) = 3
    BY <2>1, OffsetsAreBytes
  <2>3. d = c + 3 /\ Shown(SI24(x), w, c)
    BY <1>2, <1>7, <2>1, <2>2
  <2>4. ASSUME d <= Len(w) PROVE Signed24(w, c) = x
    <3>1. w \in Seq(Byte)
      BY DEF Carries
    <3>2. Stands(SI24(x), w, c)
      BY <1>2, <2>2, <2>3, <2>4, <3>1, WholeStands
    <3>3. -8388608 <= x /\ x < 8388608
      BY <2>1 DEF FitsSI24
    <3>4. c \in Nat /\ x \in Int
      BY <1>2, <2>1
    <3> QED
      BY <3>2, <3>3, <3>4, OffsetsComeBack, SMT
  <2> QED
    BY <2>3, <2>4 DEF x
<1>8. p => Passed(h, n + 4)
  BY <1>2
<1> QED
  BY <1>4, <1>5, <1>6, <1>7, <1>8 DEF c, d, p

\* The command.
LEMMA CommandStep ==
  ASSUME NEW h \in Headers, NEW w, Carries(h, w), NEW n, n = Size(h)
  PROVE  /\ Mark(h, n + 5) < Len(w) => Passed(h, n + 6)
         /\ Passed(h, n + 6) => Passed(h, n + 5) /\ (h.command # None <=> HasCommand(h))
         /\ ~HasCommand(h) \/ ~Passed(h, n + 6) => Mark(h, n + 6) = Mark(h, n + 5)
         /\ Passed(h, n + 6) /\ HasCommand(h) =>
              /\ Mark(h, n + 6) = Mark(h, n + 5) + 1
              /\ Mark(h, n + 6) <= Len(w) => w[Mark(h, n + 5) + 1] = h.command
<1> DEFINE s == Steps(h)[n + 6]
           c == Mark(h, n + 5)
           d == Mark(h, n + 6)
           p == Passed(h, n + 6)
<1>0. h.entries \in Seq(Entry) /\ Size(h) \in Nat
  BY HeaderFields, StepsAre
<1>1. n \in Nat /\ n + 6 \in 1 .. Size(h) + 6 /\ (n + 6) - 1 = n + 5
  BY <1>0, SMT
<1>2. /\ c \in Nat /\ d \in Nat /\ Len(w) \in Nat
      /\ p => Passed(h, n + 5) /\ s.ok /\ d = c + Len(s.bytes) /\ Shown(s.bytes, w, c)
      /\ ~p => c = Len(w) /\ d = Len(w)
  BY <1>1, StepIsShown
<1>3. /\ s.ok <=> (h.command # None <=> HasCommand(h))
      /\ s.bytes = Optional(h.command # None, <<h.command>>)
  BY <1>0, <1>1, StepFacts, Zenon
<1> HIDE DEF s, c, d, p
<1>4. c < Len(w) => p
  BY <1>2, SMT
<1>5. p => Passed(h, n + 5) /\ (h.command # None <=> HasCommand(h))
  BY <1>2, <1>3, Zenon
<1>6. ~HasCommand(h) \/ ~p => d = c
  <2>1. Len(<<>>) = 0
    BY SMT
  <2>2. p /\ ~HasCommand(h) => s.bytes = <<>>
    BY <1>3, <1>5 DEF Optional
  <2>3. p /\ ~HasCommand(h) => d = c + 0
    BY <1>2, <2>1, <2>2
  <2> QED
    BY <1>2, <2>3, SMT
<1>7. ASSUME p, HasCommand(h)
      PROVE  d = c + 1 /\ (d <= Len(w) => w[c + 1] = h.command)
  <2> DEFINE x == h.command
  <2>1. s.bytes = <<x>>
    BY <1>3, <1>5, <1>7 DEF Optional
  <2> HIDE DEF x
  <2>2. Len(<<x>>) = 1 /\ <<x>>[1] = x /\ 1 \in 1 .. Len(<<x>>)
    BY SMT
  <2>3. d = c + 1 /\ Shown(<<x>>, w, c)
    BY <1>2, <1>7, <2>1, <2>2
  <2>4. d <= Len(w) => w[c + 1] = x
    BY <2>2, <2>3 DEF Shown
  <2> QED
    BY <2>3, <2>4 DEF x
<1> QED
  BY <1>4, <1>5, <1>6, <1>7 DEF c, d, p

(***************************************************************************)
(* Where the reader is when it has left the walk.                          *)
(***************************************************************************)
LEMMA HeardFields ==
  ASSUME NEW c, NEW o, NEW k, NEW r, r = Heard(c, o, k), SentHeader.video = video
  PROVE  /\ r.fourcc = c /\ r.cto = o /\ r.command = k /\ r.layout = SentHeader.layout
         /\ r.type = SentHeader.type /\ r.video = SentHeader.video
         /\ c = SentHeader.fourcc => (HasCto(r) <=> HasCto(SentHeader))
         /\ HasCommand(r) <=> HasCommand(SentHeader)
<1>1. /\ r.fourcc = c /\ r.cto = o /\ r.command = k /\ r.layout = SentHeader.layout
      /\ r.type = SentHeader.type /\ r.video = SentHeader.video /\ r.frame = SentHeader.frame
  BY MakeFields DEF Heard
<1> QED
  BY <1>1 DEF HasCto, HasCommand

\* At the multitrack byte.
LEMMA AtLayout ==
  ASSUME IInv, Given, Consistent(SentHeader), Walking, pending = Multitrack(video),
         NEW n, n = Size(SentHeader)
  PROVE  /\ n \in Nat
         /\ SentHeader.layout \in 0 .. 15
         /\ cursor = Mark(SentHeader, n + 2)
         /\ read = Make(video, SentHeader.frame, 0, <<>>, None, SentHeader.entries,
                        SentHeader.nanos, None, None, 0)
         /\ Left(1) => Passed(SentHeader, n + 3)
         /\ Passed(SentHeader, n + 3) =>
              /\ Mark(SentHeader, n + 3) = cursor + 1
              /\ Left(1) => /\ High(Next1) = SentHeader.layout /\ Low(Next1) = SentHeader.type
                            /\ Low(Next1) # Multitrack(video)
<1> DEFINE h == SentHeader
<1>1. /\ h \in Headers /\ h.video = video /\ wire \in Seq(Byte) /\ Len(wire) \in Nat
      /\ Carries(h, wire) /\ Size(h) \in Nat /\ cursor \in Nat /\ cursor <= Len(wire)
  BY Sent
<1>2. PICK k \in 0 .. Size(h) : WalkingAt(k)
  BY DEF Walking
<1>3. /\ k = n /\ h.layout # None
      /\ cursor = Mark(h, n + 2)
      /\ read = Make(video, h.frame, 0, <<>>, None, h.entries, h.nanos, None, None, 0)
  BY <1>2, WalkingIs
<1>4. h.layout \in 0 .. 15 /\ h.type \in 0 .. 15
  BY <1>1, <1>3, HeaderFields
<1>5. /\ Mark(h, n + 2) < Len(wire) => Passed(h, n + 3)
      /\ h.layout # None /\ Passed(h, n + 3) =>
              /\ h.type # Multitrack(h.video)
              /\ Mark(h, n + 3) = Mark(h, n + 2) + 1
              /\ Mark(h, n + 3) <= Len(wire) => wire[Mark(h, n + 2) + 1] = Pack(h.layout, h.type)
  BY <1>1, LayoutStep
<1>6. Left(1) => Passed(h, n + 3)
  <2>1. Left(1) => cursor < Len(wire)
    BY <1>1, SMT DEF Left
  <2> QED
    BY <1>3, <1>5, <2>1
<1>7. ASSUME Passed(h, n + 3), Left(1)
      PROVE  High(Next1) = h.layout /\ Low(Next1) = h.type /\ Low(Next1) # Multitrack(video)
  <2>1. Next1 = Pack(h.layout, h.type)
    BY <1>3, <1>5, <1>7 DEF Left, Next1
  <2>2. High(Pack(h.layout, h.type)) = h.layout /\ Low(Pack(h.layout, h.type)) = h.type
    BY <1>4, NibblesFit
  <2> QED
    BY <1>1, <1>3, <1>5, <1>7, <2>1, <2>2
<1> QED
  BY <1>1, <1>3, <1>4, <1>5, <1>6, <1>7

\* At a FourCC of the header.
LEMMA AtCode ==
  ASSUME IInv, Given, Consistent(SentHeader), AtStage, stage = "fourcc" \/ IsSingle,
         NEW n, n = Size(SentHeader)
  PROVE  /\ n \in Nat
         /\ cursor = Mark(SentHeader, n + 3)
         /\ read = Make(video, SentHeader.frame, read.type, <<>>, SentHeader.layout,
                        SentHeader.entries, SentHeader.nanos, None, None, 0)
         /\ (IF IsSingle THEN pending ELSE read.type) = SentHeader.type
         /\ SentHeader.layout # ManyCodecs
         /\ Left(4) => Passed(SentHeader, n + 3) /\ Passed(SentHeader, n + 4)
         /\ Passed(SentHeader, n + 4) =>
              /\ Mark(SentHeader, n + 4) = cursor + 4
              /\ Left(4) => SubSeq(wire, cursor + 1, cursor + 4) = SentHeader.fourcc
<1> DEFINE h == SentHeader
<1>1. /\ h \in Headers /\ h.video = video /\ wire \in Seq(Byte) /\ Len(wire) \in Nat
      /\ Carries(h, wire) /\ Size(h) \in Nat /\ cursor \in Nat /\ cursor <= Len(wire)
  BY Sent
<1>2. /\ cursor = Mark(h, n + 3)
      /\ read = Make(video, h.frame, read.type, <<>>, h.layout, h.entries, h.nanos, None, None, 0)
      /\ (IF IsSingle THEN pending ELSE read.type) = h.type
      /\ h.layout # ManyCodecs
      /\ cursor < Len(wire) => Passed(h, n + 3)
  <2>1. CASE stage = "fourcc"
    <3>1. ~IsSingle
      BY <2>1 DEF IsSingle
    <3>2. AtFourCc
      BY <2>1 DEF AtStage
    <3>3. read = Make(video, h.frame, h.type, <<>>, h.layout, h.entries, h.nanos, None, None, 0)
      BY <3>2 DEF AtFourCc, Heard
    <3>4. read.type = h.type
      BY <3>3, MakeFields
    <3> QED
      BY <3>1, <3>2, <3>3, <3>4 DEF AtFourCc
  <2>2. CASE IsSingle
    <3>1. Walking /\ pending \notin {ModEx, Multitrack(video)}
      BY <2>2 DEF IsSingle, AtStage
    <3>2. PICK k \in 0 .. Size(h) : WalkingAt(k)
      BY <3>1 DEF Walking
    <3>3. /\ k = n /\ h.layout = None /\ pending = h.type
          /\ cursor = Mark(h, n + 2)
          /\ read = Make(video, h.frame, 0, <<>>, None, h.entries, h.nanos, None, None, 0)
      BY <3>1, <3>2, WalkingIs
    <3>4. read.type = 0
      BY <3>3, MakeFields
    <3>5. /\ Mark(h, n + 2) < Len(wire) => Passed(h, n + 3)
          /\ h.layout = None => Mark(h, n + 3) = Mark(h, n + 2)
      BY <1>1, LayoutStep
    <3>6. None # ManyCodecs
      BY NoneAssumption, SMT DEF ManyCodecs
    <3> QED
      BY <2>2, <3>3, <3>4, <3>5, <3>6
  <2> QED
    BY <2>1, <2>2
<1>3. /\ Mark(h, n + 3) < Len(wire) => Passed(h, n + 4)
      /\ Passed(h, n + 4) => (h.fourcc = <<>> <=> h.layout = ManyCodecs)
      /\ Passed(h, n + 4) /\ h.fourcc # <<>> =>
              /\ Mark(h, n + 4) = Mark(h, n + 3) + 4
              /\ Mark(h, n + 4) <= Len(wire) =>
                   SubSeq(wire, Mark(h, n + 3) + 1, Mark(h, n + 3) + 4) = h.fourcc
  BY <1>1, FourCcStep
<1>4. Left(4) => cursor < Len(wire)
  BY <1>1, SMT DEF Left
<1>5. Passed(h, n + 4) =>
        /\ Mark(h, n + 4) = cursor + 4
        /\ Left(4) => SubSeq(wire, cursor + 1, cursor + 4) = h.fourcc
  BY <1>2, <1>3 DEF Left
<1> QED
  BY <1>1, <1>2, <1>3, <1>4, <1>5

\* At the offset.
LEMMA AtCto ==
  ASSUME IInv, Given, NEW c, NEW o, NEW k, ExtraAt(c, o, k), NeedsCto,
         NEW n, n = Size(SentHeader)
  PROVE  /\ n \in Nat /\ o = None /\ k = None
         /\ cursor = Mark(SentHeader, n + 4)
         /\ Left(3) => Passed(SentHeader, n + 5)
         /\ Passed(SentHeader, n + 5) =>
              /\ HasCto(SentHeader)
              /\ Mark(SentHeader, n + 5) = cursor + 3
              /\ Left(3) => Signed24(wire, cursor) = SentHeader.cto
<1> DEFINE h == SentHeader
<1>1. /\ h \in Headers /\ h.video = video /\ wire \in Seq(Byte) /\ Len(wire) \in Nat
      /\ Carries(h, wire) /\ Size(h) \in Nat /\ cursor \in Nat /\ cursor <= Len(wire)
  BY Sent
<1>2. /\ read = Heard(c, o, k)
      /\ c # h.fourcc => ~Passed(h, n + 4)
      /\ \/ o = None /\ k = None /\ cursor = Mark(h, n + 4)
         \/ Passed(h, n + 5) /\ o = h.cto
         \/ Accepted(h) /\ o = h.cto
  BY DEF ExtraAt
<1>3. read.cto = o /\ HasCto(read) /\ (c = h.fourcc => (HasCto(read) <=> HasCto(h))) /\ o = None
  BY <1>1, <1>2, HeardFields DEF NeedsCto
<1>4. /\ Mark(h, n + 4) < Len(wire) => Passed(h, n + 5)
      /\ Passed(h, n + 5) => Passed(h, n + 4) /\ (h.cto # None <=> HasCto(h))
      /\ Passed(h, n + 5) /\ HasCto(h) =>
           /\ Mark(h, n + 5) = Mark(h, n + 4) + 3
           /\ Mark(h, n + 5) <= Len(wire) => Signed24(wire, Mark(h, n + 4)) = h.cto
  BY <1>1, CtoStep
<1>5. Passed(h, n + 5) => HasCto(h)
  BY <1>2, <1>3, <1>4
<1>6. Accepted(h) => Passed(h, n + 5)
  <2>1. n + 6 \in 1 .. n + 6 /\ n + 5 \in 0 .. n + 6
    BY <1>1, SMT
  <2> QED
    BY <1>1, <2>1, AcceptedIs, PassedIs
<1>7. o = None /\ k = None /\ cursor = Mark(h, n + 4)
  BY <1>2, <1>3, <1>4, <1>5, <1>6
<1>8. Left(3) => cursor < Len(wire)
  BY <1>1, SMT DEF Left
<1>9. Passed(h, n + 5) => Mark(h, n + 5) = cursor + 3 /\ (Left(3) => Signed24(wire, cursor) = h.cto)
  BY <1>4, <1>5, <1>7 DEF Left
<1> QED
  BY <1>1, <1>4, <1>5, <1>7, <1>8, <1>9

\* At the command, or behind it.
LEMMA AtCommand ==
  ASSUME IInv, Given, NEW c, NEW o, NEW k, ExtraAt(c, o, k), ~NeedsCto, ~Accepted(SentHeader) \/ k = None,
         NEW n, n = Size(SentHeader)
  PROVE  /\ n \in Nat /\ k = None
         /\ cursor = Mark(SentHeader, n + 5)
         /\ Passed(SentHeader, n + 5) => c = SentHeader.fourcc /\ o = SentHeader.cto
<1> DEFINE h == SentHeader
<1>1. /\ h \in Headers /\ h.video = video /\ wire \in Seq(Byte) /\ Carries(h, wire) /\ Size(h) \in Nat
  BY Sent
<1>2. /\ read = Heard(c, o, k)
      /\ c # h.fourcc => ~Passed(h, n + 4)
      /\ \/ o = None /\ k = None /\ cursor = Mark(h, n + 4)
         \/ Passed(h, n + 5) /\ o = h.cto /\ k = None /\ cursor = Mark(h, n + 5)
         \/ Accepted(h) /\ HasCommand(h) /\ k = h.command
  BY DEF ExtraAt
<1>3. read.cto = o /\ (c = h.fourcc => (HasCto(read) <=> HasCto(h)))
  BY <1>1, <1>2, HeardFields
<1>4. /\ Passed(h, n + 5) => Passed(h, n + 4) /\ (h.cto # None <=> HasCto(h))
      /\ ~HasCto(h) \/ ~Passed(h, n + 5) => Mark(h, n + 5) = Mark(h, n + 4)
  BY <1>1, CtoStep
<1>5. Accepted(h) => Passed(h, n + 6)
  BY <1>1, AcceptedIs
<1>6. Passed(h, n + 6) => (h.command # None <=> HasCommand(h))
  BY <1>1, CommandStep
<1>7. \/ o = None /\ k = None /\ cursor = Mark(h, n + 4)
      \/ Passed(h, n + 5) /\ o = h.cto /\ k = None /\ cursor = Mark(h, n + 5)
  BY <1>2, <1>5, <1>6
<1>8. o = None /\ Passed(h, n + 5) => ~HasCto(h)
  BY <1>2, <1>3, <1>4 DEF NeedsCto
<1> QED
  BY <1>1, <1>2, <1>4, <1>7, <1>8

(***************************************************************************)
(* The fields behind the walk.                                             *)
(***************************************************************************)
LEMMA MultitrackInStep ==
  ASSUME IInv, InStep, ParseMultitrack
  PROVE  InStep'
<1> DEFINE h == SentHeader
           n == Size(h)
<1>1. /\ stage = "modex" /\ pending = Multitrack(video) /\ Left(1)
      /\ cursor' = cursor + 1
      /\ stage' = IF High(Next1) = ManyCodecs THEN "extra" ELSE "fourcc"
      /\ UNCHANGED <<sent, video, wire>>
  BY DEF ParseMultitrack
<1>2. read' = [read EXCEPT !.layout = High(Next1), !.type = Low(Next1)]
  BY DEF ParseMultitrack
<1>3. ASSUME Given, Consistent(h), AtStage PROVE AtStage'
  <2>1. Walking
    BY <1>1, <1>3 DEF AtStage
  <2>2. /\ n \in Nat /\ h.layout \in 0 .. 15
        /\ read = Make(video, h.frame, 0, <<>>, None, h.entries, h.nanos, None, None, 0)
        /\ Passed(h, n + 3) /\ Mark(h, n + 3) = cursor + 1
        /\ High(Next1) = h.layout /\ Low(Next1) = h.type
    BY <1>1, <1>3, <2>1, AtLayout
  <2>3. read' = Heard(<<>>, None, None)
    <3> DEFINE x == h.layout
               y == h.type
               q == [read EXCEPT !.layout = x]
    <3>1. read' = [read EXCEPT !.layout = x, !.type = y]
      BY <1>2, <2>2
    <3> HIDE DEF x, y
    <3>2. read' = [q EXCEPT !.type = y]
      BY <3>1, SMT
    <3>3. q = Make(video, h.frame, 0, <<>>, x, h.entries, h.nanos, None, None, 0)
      BY <2>2, SMT DEF Make
    <3> HIDE DEF q
    <3>4. read' = Make(video, h.frame, y, <<>>, x, h.entries, h.nanos, None, None, 0)
      BY <3>2, <3>3, SMT DEF Make
    <3> QED
      BY <3>4 DEF Heard, x, y
  <2>4. SentHeader' = SentHeader
    BY <1>1 DEF SentHeader
  <2>5. Heard(<<>>, None, None)' = Heard(<<>>, None, None)
    BY <1>1, <2>4 DEF Heard
  <2>6. h.layout # None
    BY <2>2, NoneAssumption, SMT
  <2>7. CASE h.layout # ManyCodecs
    <3>1. stage' = "fourcc"
      BY <1>1, <2>2, <2>7
    <3>2. AtFourCc'
      BY <1>1, <2>2, <2>3, <2>4, <2>5, <2>6, <2>7 DEF AtFourCc
    <3> QED
      BY <3>1, <3>2 DEF AtStage
  <2>8. CASE h.layout = ManyCodecs
    <3>1. stage' = "extra"
      BY <1>1, <2>2, <2>8
    <3>2. h \in Headers /\ Carries(h, wire)
      BY <1>3, Sent
    <3>3. /\ h.fourcc = <<>> \/ ~Passed(h, n + 4) => Mark(h, n + 4) = Mark(h, n + 3)
          /\ Passed(h, n + 4) => (h.fourcc = <<>> <=> h.layout = ManyCodecs)
      BY <3>2, FourCcStep
    <3>4. cursor' = Mark(h, n + 4) /\ (<<>> # h.fourcc => ~Passed(h, n + 4))
      BY <1>1, <2>2, <2>8, <3>3
    <3>5. ExtraAt(<<>>, None, None)'
      BY <1>1, <2>3, <2>4, <2>5, <2>8, <3>4 DEF ExtraAt
    <3>6. AtExtra'
      BY <2>2, <2>4, <3>5 DEF AtExtra
    <3> QED
      BY <3>1, <3>6 DEF AtStage
  <2> QED
    BY <2>7, <2>8
<1>4. stage' \notin {"writing", "lead"}
  BY <1>1
<1> QED
  BY <1>1, <1>3, <1>4, OnTheWay

\* The FourCC is read as it was written.
LEMMA FourCcInStep ==
  ASSUME IInv, InStep, ParseFourCc
  PROVE  InStep'
<1> DEFINE h == SentHeader
           n == Size(h)
           t == IF IsSingle THEN pending ELSE read.type
<1>1. /\ stage = "fourcc" \/ IsSingle
      /\ Left(4) /\ cursor' = cursor + 4 /\ stage' = "extra"
      /\ UNCHANGED <<sent, video, wire>>
  BY DEF ParseFourCc
<1>2. read' = [read EXCEPT !.type = t, !.fourcc = SubSeq(wire, cursor + 1, cursor + 4)]
  BY DEF ParseFourCc
<1>3. ASSUME Given, Consistent(h), AtStage PROVE AtStage'
  <2>1. /\ n \in Nat /\ h.layout # ManyCodecs
        /\ read = Make(video, h.frame, read.type, <<>>, h.layout, h.entries, h.nanos, None, None, 0)
        /\ t = h.type
        /\ Passed(h, n + 3) /\ Passed(h, n + 4)
        /\ Mark(h, n + 4) = cursor + 4
        /\ SubSeq(wire, cursor + 1, cursor + 4) = h.fourcc
    BY <1>1, <1>3, AtCode
  <2>2. read' = Heard(h.fourcc, None, None)
    <3> DEFINE x == h.fourcc
               y == h.type
               q == [read EXCEPT !.type = y]
    <3>1. read' = [read EXCEPT !.type = y, !.fourcc = x]
      BY <1>2, <2>1
    <3> HIDE DEF x, y, t
    <3>2. read' = [q EXCEPT !.fourcc = x]
      BY <3>1, SMT
    <3>3. q = Make(video, h.frame, y, <<>>, h.layout, h.entries, h.nanos, None, None, 0)
      BY <2>1, SMT DEF Make
    <3> HIDE DEF q
    <3>4. read' = Make(video, h.frame, y, x, h.layout, h.entries, h.nanos, None, None, 0)
      BY <3>2, <3>3, SMT DEF Make
    <3> QED
      BY <3>4 DEF Heard, x, y
  <2>3. SentHeader' = SentHeader
    BY <1>1 DEF SentHeader
  <2>4. Heard(h.fourcc, None, None)' = Heard(h.fourcc, None, None)
    BY <1>1, <2>3 DEF Heard
  <2>5. h.fourcc = <<>> <=> h.layout = ManyCodecs
    <3>1. h \in Headers /\ Carries(h, wire)
      BY <1>3, Sent
    <3> QED
      BY <2>1, <3>1, FourCcStep
  <2>6. ExtraAt(h.fourcc, None, None)'
    BY <1>1, <2>1, <2>2, <2>3, <2>4, <2>5 DEF ExtraAt
  <2>7. AtExtra'
    BY <2>1, <2>3, <2>6 DEF AtExtra
  <2> QED
    BY <1>1, <2>7 DEF AtStage
<1>4. stage' \notin {"writing", "lead"}
  BY <1>1
<1> QED
  BY <1>1, <1>3, <1>4, OnTheWay

\* The offset is read as it was written.
LEMMA CtoInStep ==
  ASSUME IInv, InStep, ParseCto
  PROVE  InStep'
<1> DEFINE h == SentHeader
           n == Size(h)
<1>1. /\ stage = "extra" /\ NeedsCto /\ Left(3) /\ cursor' = cursor + 3 /\ stage' = stage
      /\ UNCHANGED <<sent, video, wire>>
  BY DEF ParseCto
<1>2. read' = [read EXCEPT !.cto = Signed24(wire, cursor)]
  BY DEF ParseCto
<1>3. ASSUME Given, Consistent(h), AtStage PROVE AtStage'
  <2>1. Passed(h, n + 3) /\ \E c \in {<<>>, h.fourcc}, o \in {None, h.cto}, k \in {None, h.command} : ExtraAt(c, o, k)
    BY <1>1, <1>3 DEF AtStage, AtExtra
  <2>2. PICK c \in {<<>>, h.fourcc}, o \in {None, h.cto}, k \in {None, h.command} : ExtraAt(c, o, k)
    BY <2>1
  <2>3. /\ n \in Nat /\ o = None /\ k = None
        /\ Passed(h, n + 5) /\ HasCto(h)
        /\ Mark(h, n + 5) = cursor + 3
        /\ Signed24(wire, cursor) = h.cto
    BY <1>1, <1>3, <2>2, AtCto
  <2>4. /\ read = Heard(c, o, k)
        /\ c = <<>> <=> h.layout = ManyCodecs
        /\ c # h.fourcc => ~Passed(h, n + 4)
    BY <2>2 DEF ExtraAt
  <2>5. read' = Heard(c, h.cto, None)
    <3> DEFINE x == h.cto
    <3>1. read' = [read EXCEPT !.cto = x]
      BY <1>2, <2>3
    <3>2. read = Make(video, h.frame, h.type, c, h.layout, h.entries, h.nanos, None, None, 0)
      BY <2>3, <2>4 DEF Heard
    <3> HIDE DEF x
    <3>3. read' = Make(video, h.frame, h.type, c, h.layout, h.entries, h.nanos, x, None, 0)
      BY <3>1, <3>2, SMT DEF Make
    <3> QED
      BY <3>3 DEF Heard, x
  <2>6. SentHeader' = SentHeader
    BY <1>1 DEF SentHeader
  <2>7. Heard(c, h.cto, None)' = Heard(c, h.cto, None)
    BY <1>1, <2>6 DEF Heard
  <2>8. ExtraAt(c, h.cto, None)'
    BY <1>1, <2>3, <2>4, <2>5, <2>6, <2>7 DEF ExtraAt
  <2>9. AtExtra'
    BY <2>1, <2>6, <2>8 DEF AtExtra
  <2> QED
    BY <1>1, <2>9 DEF AtStage
<1>4. stage' \notin {"writing", "lead"}
  BY <1>1
<1> QED
  BY <1>1, <1>3, <1>4, OnTheWay

\* The command is read as it was written.
LEMMA CommandInStep ==
  ASSUME IInv, InStep, ParseCommand
  PROVE  InStep'
<1> DEFINE h == SentHeader
           n == Size(h)
<1>1. /\ stage = "extra" /\ NeedsCommand /\ Left(1) /\ cursor' = cursor + 1 /\ stage' = stage
      /\ UNCHANGED <<sent, video, wire>>
  BY DEF ParseCommand
<1>2. read' = [read EXCEPT !.command = Next1]
  BY DEF ParseCommand
<1>3. ASSUME Given, Consistent(h), AtStage PROVE AtStage'
  <2>1. Passed(h, n + 3) /\ \E c \in {<<>>, h.fourcc}, o \in {None, h.cto}, k \in {None, h.command} : ExtraAt(c, o, k)
    BY <1>1, <1>3 DEF AtStage, AtExtra
  <2>2. PICK c \in {<<>>, h.fourcc}, o \in {None, h.cto}, k \in {None, h.command} : ExtraAt(c, o, k)
    BY <2>1
  <2>3. /\ read = Heard(c, o, k)
        /\ c = <<>> <=> h.layout = ManyCodecs
        /\ c # h.fourcc => ~Passed(h, n + 4)
    BY <2>2 DEF ExtraAt
  <2>4. h \in Headers /\ h.video = video /\ Carries(h, wire) /\ n \in Nat
        /\ Len(wire) \in Nat /\ cursor \in Nat
    BY <1>3, Sent
  <2>5. ~NeedsCto /\ HasCommand(h) /\ k = None
    <3>1. ~NeedsCto /\ HasCommand(read) /\ read.command = None
      BY <1>1 DEF NeedsCommand
    <3> QED
      BY <2>3, <2>4, <3>1, HeardFields
  <2>6. cursor = Mark(h, n + 5) /\ (Passed(h, n + 5) => c = h.fourcc /\ o = h.cto)
    BY <1>3, <2>2, <2>5, AtCommand
  <2>7. cursor < Len(wire)
    BY <1>1, <2>4, SMT DEF Left
  <2>8. /\ Passed(h, n + 6) /\ Passed(h, n + 5)
        /\ Mark(h, n + 6) = cursor + 1
        /\ Next1 = h.command
    BY <1>1, <2>4, <2>5, <2>6, <2>7, CommandStep DEF Left, Next1
  <2>9. read' = Heard(c, h.cto, h.command)
    <3> DEFINE x == h.command
    <3>1. read' = [read EXCEPT !.command = x]
      BY <1>2, <2>8
    <3>2. read = Make(video, h.frame, h.type, c, h.layout, h.entries, h.nanos, h.cto, None, 0)
      BY <2>3, <2>5, <2>6, <2>8 DEF Heard
    <3> HIDE DEF x
    <3>3. read' = Make(video, h.frame, h.type, c, h.layout, h.entries, h.nanos, h.cto, x, 0)
      BY <3>1, <3>2, SMT DEF Make
    <3> QED
      BY <3>3 DEF Heard, x
  <2>10. SentHeader' = SentHeader
    BY <1>1 DEF SentHeader
  <2>11. Heard(c, h.cto, h.command)' = Heard(c, h.cto, h.command)
    BY <1>1, <2>10 DEF Heard
  <2>12. Accepted(h)
    BY <2>4, <2>8, AcceptedIs
  <2>13. ExtraAt(c, h.cto, h.command)'
    BY <1>1, <2>3, <2>5, <2>8, <2>9, <2>10, <2>11, <2>12 DEF ExtraAt
  <2>14. AtExtra'
    BY <2>1, <2>10, <2>13 DEF AtExtra
  <2> QED
    BY <1>1, <2>14 DEF AtStage
<1>4. stage' \notin {"writing", "lead"}
  BY <1>1
<1> QED
  BY <1>1, <1>3, <1>4, OnTheWay

\* parse does not fail on a body that is complete.
LEMMA FailureInStep ==
  ASSUME IInv, InStep, ParseFails
  PROVE  InStep'
<1> DEFINE h == SentHeader
           n == Size(h)
<1>1. stage' = "invalid" /\ UNCHANGED <<sent, video, wire>>
  BY DEF ParseFails
<1>2. ASSUME Given, Consistent(h), AtStage PROVE ~Complete
  <2> SUFFICES ASSUME Complete PROVE FALSE
    OBVIOUS
  <2>1. /\ h \in Headers /\ h.video = video /\ wire \in Seq(Byte) /\ Len(wire) \in Nat
        /\ Carries(h, wire) /\ n \in Nat /\ cursor \in Nat
    BY <1>2, Sent
  <2>2. \A i \in 0 .. n + 6 : Passed(h, i) /\ Mark(h, i) <= Len(wire)
    BY <1>2, <2>1, CompleteIs
  <2>3. n + 3 \in 0 .. n + 6 /\ n + 4 \in 0 .. n + 6 /\ n + 5 \in 0 .. n + 6 /\ n + 6 \in 0 .. n + 6
    BY <2>1, SMT
  <2>4. ~(stage = "modex" /\ pending = ModEx /\ ~EntryFits)
    <3> SUFFICES ASSUME stage = "modex", pending = ModEx PROVE EntryFits
      OBVIOUS
    <3>1. Walking
      BY <1>2 DEF AtStage
    <3>2. PICK k \in 0 .. n : WalkingAt(k)
      BY <3>1 DEF Walking
    <3>3. Follows(h, k) = ModEx /\ cursor = Mark(h, k + 2)
      BY <3>2 DEF WalkingAt
    <3>4. /\ k + 1 \in 1 .. n
          /\ Passed(h, k + 3) /\ Mark(h, k + 3) <= Len(wire) => FitsAt(wire, cursor)
      BY <1>2, <2>1, <3>3, Turn
    <3>5. k + 3 \in 0 .. n + 6
      BY <2>1, SMT
    <3> QED
      BY <2>2, <3>4, <3>5, FitsHere
  <2>5. ~(stage = "modex" /\ pending = Multitrack(video) /\ ~(Left(1) /\ Low(Next1) # Multitrack(video)))
    <3> SUFFICES ASSUME stage = "modex", pending = Multitrack(video)
                 PROVE  Left(1) /\ Low(Next1) # Multitrack(video)
      OBVIOUS
    <3>1. Walking
      BY <1>2 DEF AtStage
    <3>2. /\ Passed(h, n + 3) =>
              /\ Mark(h, n + 3) = cursor + 1
              /\ Left(1) => Low(Next1) # Multitrack(video)
      BY <1>2, <3>1, AtLayout
    <3> QED
      BY <2>2, <2>3, <3>2 DEF Left
  <2>6. ~((stage = "fourcc" \/ IsSingle) /\ ~Left(4))
    <3> SUFFICES ASSUME stage = "fourcc" \/ IsSingle PROVE Left(4)
      OBVIOUS
    <3>1. Passed(h, n + 4) => Mark(h, n + 4) = cursor + 4
      BY <1>2, AtCode
    <3> QED
      BY <2>2, <2>3, <3>1 DEF Left
  <2>7. ~(stage = "extra" /\ NeedsCto /\ ~Left(3))
    <3> SUFFICES ASSUME stage = "extra", NeedsCto PROVE Left(3)
      OBVIOUS
    <3>1. PICK c \in {<<>>, h.fourcc}, o \in {None, h.cto}, k \in {None, h.command} : ExtraAt(c, o, k)
      BY <1>2 DEF AtStage, AtExtra
    <3>2. Passed(h, n + 5) => Mark(h, n + 5) = cursor + 3
      BY <1>2, <3>1, AtCto
    <3> QED
      BY <2>2, <2>3, <3>2 DEF Left
  <2>8. ~(stage = "extra" /\ NeedsCommand /\ ~Left(1))
    <3> SUFFICES ASSUME stage = "extra", NeedsCommand PROVE Left(1)
      OBVIOUS
    <3>1. PICK c \in {<<>>, h.fourcc}, o \in {None, h.cto}, k \in {None, h.command} : ExtraAt(c, o, k)
      BY <1>2 DEF AtStage, AtExtra
    <3>2. ~NeedsCto /\ HasCommand(h) /\ k = None
      <4>1. ~NeedsCto /\ HasCommand(read) /\ read.command = None /\ read = Heard(c, o, k)
        BY <3>1 DEF NeedsCommand, ExtraAt
      <4> QED
        BY <2>1, <4>1, HeardFields
    <3>3. cursor = Mark(h, n + 5)
      BY <1>2, <3>1, <3>2, AtCommand
    <3>4. Passed(h, n + 6) /\ HasCommand(h) => Mark(h, n + 6) = Mark(h, n + 5) + 1
      BY <2>1, CommandStep
    <3> QED
      BY <2>2, <2>3, <3>2, <3>3, <3>4 DEF Left
  <2> QED
    BY <2>4, <2>5, <2>6, <2>7, <2>8 DEF ParseFails
<1>3. Given => Given' /\ (Complete' <=> Complete)
  BY <1>1 DEF Given, Complete, SentHeader, File
<1>4. stage' \notin {"writing", "lead", "modex", "fourcc", "extra", "tracks", "done", "unsplit"}
  BY <1>1
<1>5. Given /\ Consistent(h) /\ AtStage => AtStage'
  BY <1>2, <1>3, <1>4 DEF AtStage
<1> QED
  BY <1>1, <1>4, <1>5, OnTheWay

(***************************************************************************)
(* The end of the header.                                                  *)
(***************************************************************************)
\* A header that was accepted has been read to its end.
LEMMA WholeHeader ==
  ASSUME IInv, Given, NEW c, NEW o, NEW k, ExtraAt(c, o, k), ~NeedsCto, ~NeedsCommand,
         Accepted(SentHeader)
  PROVE  read = SentHeader /\ cursor = Len(HeaderBytes(SentHeader))
<1> DEFINE h == SentHeader
           n == Size(h)
<1>1. h \in Headers /\ h.video = video /\ Carries(h, wire) /\ n \in Nat
  BY Sent
<1>2. n + 4 \in 0 .. n + 6 /\ n + 5 \in 0 .. n + 6 /\ n + 6 \in 1 .. n + 6
  BY <1>1, SMT
<1>3. Passed(h, n + 4) /\ Passed(h, n + 5) /\ Passed(h, n + 6)
  BY <1>1, <1>2, AcceptedIs, PassedIs
<1>4. /\ read = Heard(c, o, k) /\ c = h.fourcc
      /\ \/ o = None /\ k = None
         \/ o = h.cto /\ k = None
         \/ o = h.cto /\ k = h.command /\ cursor = Mark(h, n + 6)
  BY <1>3 DEF ExtraAt
<1>5. o = h.cto /\ k = h.command /\ cursor = Mark(h, n + 6)
  <2>1. CASE k = None
    <3>1. cursor = Mark(h, n + 5) /\ o = h.cto
      BY <1>1, <1>3, <2>1, AtCommand
    <3>2. ~HasCommand(h)
      <4>1. ~HasCommand(read)
        BY <1>1, <1>4, <2>1, HeardFields DEF NeedsCommand
      <4> QED
        BY <1>1, <1>4, <4>1, HeardFields
    <3> QED
      BY <1>1, <1>3, <2>1, <3>1, <3>2, CommandStep
  <2>2. CASE k # None
    BY <1>4, <2>2
  <2> QED
    BY <2>1, <2>2
<1>6. read = h
  BY <1>1, <1>4, <1>5, SentIsMade DEF Heard
<1> QED
  BY <1>1, <1>5, <1>6, MarksAre

\* Of a header that was refused something is missing, and what is left was accepted.
LEMMA RestOfHeader ==
  ASSUME IInv, Given, NEW c, NEW o, NEW k, ExtraAt(c, o, k), ~NeedsCto, ~NeedsCommand,
         Passed(SentHeader, Size(SentHeader) + 3), ~Accepted(SentHeader),
         NEW r, r = Make(video, SentHeader.frame, SentHeader.type, c, SentHeader.layout,
                         SentHeader.entries, SentHeader.nanos, o, k, cursor)
  PROVE  k = None /\ cursor = Len(wire) /\ Accepted(r)
<1> DEFINE h == SentHeader
           n == Size(h)
<1>1. /\ h \in Headers /\ h.video = video /\ Carries(h, wire) /\ n \in Nat
      /\ h.entries \in Seq(Entry) /\ n = Len(h.entries)
  BY Sent DEF Size
<1>2. k = None /\ cursor = Mark(h, n + 5) /\ (Passed(h, n + 5) => c = h.fourcc /\ o = h.cto)
  BY AtCommand
<1>3. cursor = Len(wire)
  <2>1. ~Passed(h, n + 6)
    BY <1>1, AcceptedIs
  <2>2. n + 6 \in 1 .. n + 6 /\ (n + 6) - 1 = n + 5
    BY <1>1, SMT
  <2> QED
    BY <1>1, <1>2, <2>1, <2>2, StepIsShown
<1>4. /\ r.video = video /\ r.frame = h.frame /\ r.type = h.type /\ r.fourcc = c
      /\ r.layout = h.layout /\ r.entries = h.entries /\ r.nanos = h.nanos /\ r.cto = o
      /\ r.command = k
  BY MakeFields
<1>5. read = Heard(c, o, k) /\ (c = <<>> <=> h.layout = ManyCodecs)
      /\ (o # None => Passed(h, n + 5) /\ HasCto(h) /\ o = h.cto)
  <2>1. Accepted(h) \/ o = None \/ (Passed(h, n + 5) /\ HasCto(h) /\ o = h.cto)
    BY DEF ExtraAt
  <2> QED
    BY <2>1 DEF ExtraAt
<1>6. (HasCto(read) <=> HasCto(r)) /\ (HasCommand(read) <=> HasCommand(r))
  <2>1. /\ read.video = r.video /\ read.layout = r.layout /\ read.type = r.type
        /\ read.fourcc = r.fourcc /\ read.frame = r.frame
    BY <1>1, <1>4, <1>5, MakeFields DEF Heard
  <2> QED
    BY <2>1 DEF HasCto, HasCommand
<1>7. o # None <=> HasCto(r)
  <2>1. HasCto(r) => o # None
    BY <1>1, <1>5, <1>6, HeardFields DEF NeedsCto
  <2>2. o # None => HasCto(r)
    BY <1>1, <1>2, <1>5, <1>6, HeardFields
  <2> QED
    BY <2>1, <2>2
<1>8. o # None => FitsSI24(o)
  BY <1>1, <1>5, CtoStep
<1>9. ~HasCommand(r)
  BY <1>1, <1>2, <1>5, <1>6, HeardFields DEF NeedsCommand
<1>10. /\ Resolved(r) = Resolved(h) /\ Size(r) = n
  BY <1>1, <1>4 DEF Resolved, Size
<1>r. r.entries \in Seq(Entry)
  BY <1>1, <1>4
<1>11. Len(Steps(r)) = n + 6
  BY <1>r, <1>10, StepFacts
<1>12. ASSUME NEW i \in 1 .. n + 6 PROVE Steps(r)[i].ok
  <2>1. /\ i = 1 \/ i = 2 \/ (i - 2 \in 1 .. n /\ (i - 2) + 2 = i) \/ i = n + 3 \/ i = n + 4
             \/ i = n + 5 \/ i = n + 6
    BY <1>1, SMT
  <2>2. i = 1 \/ i = 2 \/ i - 2 \in 1 .. n \/ i = n + 3 => Steps(h)[i].ok
    <3>1. i = 1 \/ i = 2 \/ i - 2 \in 1 .. n \/ i = n + 3 => i \in 1 .. n + 3
      BY <1>1, SMT
    <3> QED
      BY <3>1 DEF Passed
  <2>3. CASE i = 1
    <3>1. h.entries = <<>> => h.nanos = 0
      BY <1>1, <2>2, <2>3, StepFacts
    <3>2. Steps(r)[1].ok <=> (r.entries = <<>> => r.nanos = 0)
      BY <1>r, StepFacts
    <3> QED
      BY <1>4, <2>3, <3>1, <3>2
  <2>4. CASE i = 2
    <3>1. h.entries # <<>> => Resolved(h) # ModEx
      BY <1>1, <2>2, <2>4, StepFacts
    <3>2. Steps(r)[2].ok <=> (r.entries # <<>> => Resolved(r) # ModEx)
      BY <1>r, StepFacts
    <3> QED
      BY <1>4, <1>10, <2>4, <3>1, <3>2
  <2>5. CASE i - 2 \in 1 .. n /\ (i - 2) + 2 = i
    <3> DEFINE j == i - 2
    <3>1. j \in 1 .. Size(h) /\ j \in 1 .. Size(r) /\ j + 2 = i
      BY <1>10, <2>5
    <3> HIDE DEF j
    <3>2. Steps(h)[j + 2].ok
      BY <2>2, <2>5, <3>1
    <3>3. EntryIsValid(h.entries[j])
      BY <1>1, <3>1, <3>2, StepFacts
    <3>4. Steps(r)[j + 2].ok <=> EntryIsValid(r.entries[j])
      BY <1>r, <3>1, StepFacts
    <3> QED
      BY <1>4, <3>1, <3>3, <3>4
  <2>6. CASE i = n + 3
    <3>1. h.layout # None => h.type # Multitrack(h.video)
      BY <1>1, <2>2, <2>6, StepFacts
    <3> QED
      <4>1. Steps(r)[Size(r) + 3].ok <=> (r.layout # None => r.type # Multitrack(r.video))
        BY <1>r, StepFacts
      <4> QED
        BY <1>1, <1>4, <1>10, <2>6, <3>1, <4>1
  <2>7. CASE i = n + 4
    <3>1. Steps(r)[Size(r) + 4].ok <=> (r.fourcc = <<>> <=> r.layout = ManyCodecs)
      BY <1>r, StepFacts
    <3> QED
      BY <1>4, <1>5, <1>10, <2>7, <3>1
  <2>8. CASE i = n + 5
    <3>1. Steps(r)[Size(r) + 5].ok <=> (r.cto # None <=> HasCto(r)) /\ (r.cto # None => FitsSI24(r.cto))
      BY <1>r, StepFacts
    <3> QED
      BY <1>4, <1>7, <1>8, <1>10, <2>8, <3>1
  <2>9. CASE i = n + 6
    <3>1. Steps(r)[Size(r) + 6].ok <=> (r.command # None <=> HasCommand(r))
      BY <1>r, StepFacts
    <3> QED
      BY <1>2, <1>4, <1>9, <1>10, <2>9, <3>1
  <2> QED
    BY <2>1, <2>3, <2>4, <2>5, <2>6, <2>7, <2>8, <2>9
<1> QED
  BY <1>2, <1>3, <1>11, <1>12 DEF Accepted

\* Behind the header of a tag without tracks stands the payload.
LEMMA PayloadStands ==
  ASSUME IInv, Given, Complete, SentHeader.layout \notin Layouts
  PROVE  /\ sent.batch = <<>>
         /\ SubSeq(wire, Len(HeaderBytes(SentHeader)) + 1, Len(wire)) = sent.payload
<1> DEFINE b == HeaderBytes(SentHeader)
           p == sent.payload
<1>1. sent.batch = <<>>
  BY DEF Given, Joinable, Layouts
<1>2. wire \in Seq(Byte) /\ Len(wire) \in Nat
  BY Facts
<1>3. Len(wire) = Len(File) /\ \A i \in 1 .. Len(wire) : wire[i] = File[i]
  BY <1>2, GivenCarries
<1>4. /\ Len(b) \in Nat /\ Len(p) \in Nat /\ p \in Seq(Byte)
      /\ RecordEnds[0] = 0 /\ Len(sent.batch) = 0
      /\ Len(File) = (Len(b) + RecordEnds[Len(sent.batch)]) + Len(p)
      /\ Stands(p, File, Len(b) + RecordEnds[Len(sent.batch)])
  <2>1. Len(<<>>) = 0
    BY SMT
  <2> QED
    BY <1>1, <2>1, FileIs DEF Given
<1>5. Len(b) + 0 = Len(b) /\ Len(wire) = Len(b) + Len(p)
  BY <1>3, <1>4, SMT
<1>6. Stands(p, File, Len(b))
  BY <1>4, <1>5
<1>7. Shown(p, wire, Len(b))
  <2>1. \A i \in 1 .. Len(p) : Len(b) + i \in 1 .. Len(wire)
    BY <1>4, <1>5, SMT
  <2> QED
    BY <1>3, <1>6, <2>1 DEF Shown, Stands
<1>8. Len(b) + Len(p) <= Len(wire)
  BY <1>2, <1>5, SMT
<1>9. SubSeq(wire, Len(b) + 1, Len(b) + Len(p)) = p
  BY <1>2, <1>4, <1>7, <1>8, WholeStands
<1> QED
  BY <1>1, <1>5, <1>9

\* The header ends where it was written to end.
LEMMA EndInStep ==
  ASSUME IInv, InStep, EndHeader
  PROVE  InStep'
<1> DEFINE h == SentHeader
           n == Size(h)
<1>1. /\ stage = "extra" /\ ~NeedsCto /\ ~NeedsCommand
      /\ stage' = IF read.layout = None THEN "done" ELSE "tracks"
      /\ UNCHANGED <<sent, video, wire, cursor, tracks>>
  BY DEF EndHeader
<1>2. read' = [read EXCEPT !.consumed = cursor]
  BY DEF EndHeader
<1>3. tracks = <<>> /\ Len(tracks) = 0
  <2>1. Len(<<>>) = 0
    BY SMT
  <2> QED
    BY <1>1, <2>1 DEF IInv, Splits
<1>4. ASSUME Given, Consistent(h), AtStage PROVE Behind'
  <2>1. Passed(h, n + 3) /\ \E c \in {<<>>, h.fourcc}, o \in {None, h.cto}, k \in {None, h.command} : ExtraAt(c, o, k)
    BY <1>1, <1>4 DEF AtStage, AtExtra
  <2>2. PICK c \in {<<>>, h.fourcc}, o \in {None, h.cto}, k \in {None, h.command} : ExtraAt(c, o, k)
    BY <2>1
  <2>3. SentHeader' = SentHeader
    BY <1>1 DEF SentHeader
  <2>4. h \in Headers /\ h.video = video
    BY <1>4, Sent
  <2>5. ASSUME Accepted(h) PROVE ReadsAs(h)' /\ Splitting'
    <3>1. read = h /\ cursor = Len(HeaderBytes(h))
      BY <1>1, <1>4, <2>2, <2>5, WholeHeader
    <3>2. [read' EXCEPT !.consumed = 0] = h
      <4> DEFINE x == cursor
      <4>1. read = Make(h.video, h.frame, h.type, h.fourcc, h.layout, h.entries, h.nanos, h.cto, h.command, 0)
        BY <2>4, <3>1, SentIsMade
      <4>2. h = Make(h.video, h.frame, h.type, h.fourcc, h.layout, h.entries, h.nanos, h.cto, h.command, 0)
        BY <2>4, SentIsMade
      <4>3. read' = [read EXCEPT !.consumed = x]
        BY <1>2
      <4> HIDE DEF x, h
      <4>4. read' = Make(h.video, h.frame, h.type, h.fourcc, h.layout, h.entries, h.nanos, h.cto, h.command, x)
        BY <4>1, <4>3, SMT DEF Make
      <4> DEFINE y == read'
      <4>5. y = Make(h.video, h.frame, h.type, h.fourcc, h.layout, h.entries, h.nanos, h.cto, h.command, x)
        BY <4>4
      <4> HIDE DEF y
      <4>6. [y EXCEPT !.consumed = 0]
             = Make(h.video, h.frame, h.type, h.fourcc, h.layout, h.entries, h.nanos, h.cto, h.command, 0)
        BY <4>5, SMT DEF Make
      <4> QED
        BY <4>2, <4>6 DEF y
    <3>3. ReadsAs(h)'
      BY <2>3, <3>2 DEF ReadsAs
    <3>4. Len(sent.batch) \in Nat /\ (h.layout \in Layouts => Len(sent.batch) > 0)
      <4>1. sent.batch \in Seq(JoinedTrack) /\ Len(sent.batch) \in Nat
        BY <1>4, BatchFields DEF Given
      <4>2. h.layout \in Layouts => Joinable(h.layout, sent.batch)
        BY <1>4, <2>5 DEF Given
      <4>3. h.layout \in Layouts => sent.batch # <<>> \/ Len(sent.batch) = 1
        BY <4>2 DEF Joinable
      <4>4. sent.batch # <<>> => Len(sent.batch) # 0
        BY <4>1, EmptySeq
      <4>5. h.layout \in Layouts => Len(sent.batch) # 0
        <5>1. 1 # 0
          BY SMT
        <5> QED
          BY <4>3, <4>4, <5>1
      <4> DEFINE m == Len(sent.batch)
      <4>6. m \in Nat /\ (m # 0 => m > 0)
        <5>1. m \in Nat
          BY <4>1
        <5> HIDE DEF m
        <5> QED
          BY <5>1, SMT
      <4> QED
        BY <4>5, <4>6
    <3>5. None \notin Layouts
      BY NoneAssumption, SMT DEF Layouts, OneTrack, ManyTracks, ManyCodecs
    <3>6. /\ Len(tracks') <= Len(sent'.batch)
          /\ \A i \in 1 .. Len(tracks') : IsFirst(tracks[i], sent.batch[i])'
      <4>1. Len(tracks') = 0 /\ sent' = sent
        BY <1>1, <1>3
      <4>2. \A i \in 1 .. 0 : FALSE
        BY SMT
      <4>3. 0 <= Len(sent.batch)
        BY <3>4, SMT
      <4> QED
        BY <4>1, <4>2, <4>3
    <3>7. ASSUME stage' = "tracks"
          PROVE  /\ h.layout \in Layouts => Len(tracks') < Len(sent'.batch)
                 /\ cursor' = Len(HeaderBytes(h)) + RecordEnds'[Len(tracks')]
      <4>1. RecordEnds' = RecordEnds /\ RecordEnds[0] = 0
        <5>1. RecordEnds[0] = 0
          BY <1>4, FileIs DEF Given
        <5> QED
          BY <1>1, <5>1 DEF RecordEnds, SentHeader
      <4>2. Len(HeaderBytes(h)) \in Nat
        BY <2>4, MarksAre
      <4>3. cursor' = Len(HeaderBytes(h)) + 0
        BY <1>1, <3>1, <4>2, SMT
      <4>4. h.layout \in Layouts => 0 < Len(sent.batch)
        BY <3>4, SMT
      <4> QED
        BY <1>1, <1>3, <4>1, <4>3, <4>4
    <3>8. ASSUME stage' = "done", Complete'
          PROVE  /\ Len(tracks') = Len(sent'.batch)
                 /\ h.layout = None => SubSeq(wire', cursor' + 1, Len(wire')) = sent'.payload
      <4>1. h.layout = None /\ Complete
        BY <1>1, <3>1, <3>8 DEF Complete
      <4>2. /\ sent.batch = <<>>
            /\ SubSeq(wire, Len(HeaderBytes(SentHeader)) + 1, Len(wire)) = sent.payload
        BY <1>4, <3>5, <4>1, PayloadStands
      <4> QED
        BY <1>1, <1>3, <3>1, <4>2
    <3>9. stage' # "unsplit"
      BY <1>1
    <3>10. Splitting'
      BY <2>3, <3>6, <3>7, <3>8, <3>9 DEF Splitting
    <3> QED
      BY <3>3, <3>10
  <2>6. ASSUME ~Accepted(h) PROVE IsFrontOfRefused' /\ cursor' = Len(wire')
    <3> DEFINE r == Make(video, h.frame, h.type, c, h.layout, h.entries, h.nanos, o, k, cursor)
    <3>1. k = None /\ cursor = Len(wire) /\ Accepted(r)
      BY <1>1, <1>4, <2>1, <2>2, <2>6, RestOfHeader
    <3>2. read = Make(video, h.frame, h.type, c, h.layout, h.entries, h.nanos, o, k, 0)
      BY <2>2 DEF ExtraAt, Heard
    <3>3. read' = r
      <4> DEFINE x == cursor
      <4>1. read' = [read EXCEPT !.consumed = x]
        BY <1>2
      <4> HIDE DEF x
      <4>2. read' = Make(video, h.frame, h.type, c, h.layout, h.entries, h.nanos, o, k, x)
        BY <3>2, <4>1, SMT DEF Make
      <4> QED
        BY <4>2 DEF x
    <3>4. read'.fourcc = c /\ read'.cto = o /\ read'.command = k
      BY <3>3, MakeFields
    <3>5. /\ (IF c = <<>> THEN <<>> ELSE h.fourcc) = c
          /\ (IF o = None THEN None ELSE h.cto) = o
          /\ (IF k = None THEN None ELSE h.command) = k
      BY <2>2
    <3> DEFINE g == [h EXCEPT
                       !.fourcc = IF read'.fourcc = <<>> THEN <<>> ELSE @,
                       !.cto = IF read'.cto = None THEN None ELSE @,
                       !.command = IF read'.command = None THEN None ELSE @]
    <3>6. [read' EXCEPT !.consumed = 0] = g
      <4> DEFINE x == IF read'.fourcc = <<>> THEN <<>> ELSE h.fourcc
                 y == IF read'.cto = None THEN None ELSE h.cto
                 z == IF read'.command = None THEN None ELSE h.command
                 u == cursor
      <4>1. x = c /\ y = o /\ z = k
        BY <3>4, <3>5
      <4>2. g = [h EXCEPT !.fourcc = x, !.cto = y, !.command = z]
        OBVIOUS
      <4>3. h = Make(h.video, h.frame, h.type, h.fourcc, h.layout, h.entries, h.nanos, h.cto, h.command, 0)
        BY <2>4, SentIsMade
      <4>4. read' = Make(video, h.frame, h.type, c, h.layout, h.entries, h.nanos, o, k, u)
        BY <3>3
      <4> HIDE DEF x, y, z, u, g, h, r
      <4> DEFINE v == [h EXCEPT !.fourcc = x]
                 w == [v EXCEPT !.cto = y]
      <4>5. g = [w EXCEPT !.command = z]
        BY <4>2, SMT
      <4>6. v = Make(h.video, h.frame, h.type, x, h.layout, h.entries, h.nanos, h.cto, h.command, 0)
        BY <4>3, SMT DEF Make
      <4> HIDE DEF v
      <4>7. w = Make(h.video, h.frame, h.type, x, h.layout, h.entries, h.nanos, y, h.command, 0)
        BY <4>6, SMT DEF Make
      <4> HIDE DEF w
      <4>8. g = Make(h.video, h.frame, h.type, x, h.layout, h.entries, h.nanos, y, z, 0)
        BY <4>5, <4>7, SMT DEF Make
      <4>9. [read' EXCEPT !.consumed = 0]
              = Make(video, h.frame, h.type, c, h.layout, h.entries, h.nanos, o, k, 0)
        BY <4>4, SMT DEF Make
      <4> QED
        BY <2>4, <4>1, <4>8, <4>9
    <3>7. IsFrontOfRefused'
      <4>1. sent'.header = h
        BY <1>1 DEF SentHeader
      <4>2. Accepted(read')
        BY <3>1, <3>3
      <4>3. tracks' = <<>>
        BY <1>1, <1>3
      <4> QED
        BY <3>6, <4>1, <4>2, <4>3 DEF IsFrontOfRefused, ReadsAs
    <3> QED
      BY <1>1, <3>1, <3>7
  <2> QED
    BY <2>3, <2>5, <2>6 DEF Behind
<1>5. stage' \notin {"writing", "lead", "legacy", "invalid", "modex", "fourcc", "extra"}
  BY <1>1
<1>6. Given /\ Consistent(SentHeader) /\ AtStage => AtStage'
  BY <1>4, <1>5 DEF AtStage
<1> QED
  BY <1>1, <1>5, <1>6, OnTheWay

(***************************************************************************)
(* The tracks.                                                             *)
(***************************************************************************)
LEMMA ReadIs ==
  ASSUME IInv, NEW h, ReadsAs(h)
  PROVE  read.layout = h.layout /\ read.fourcc = h.fourcc
<1>1. "layout" \in DOMAIN read /\ "fourcc" \in DOMAIN read
  BY Facts, FieldNames
<1>2. h = [read EXCEPT !.consumed = 0]
  BY DEF ReadsAs
<1> QED
  BY <1>1, <1>2, SMT

\* Where split_tracks takes off the next track.
LEMMA AtTrack ==
  ASSUME IInv, Given, Behind, stage = "tracks", Accepted(SentHeader), SentHeader.layout \in Layouts,
         NEW k, k = Len(tracks),
         NEW n, n = Len(JoinTrack(SentHeader.layout, sent.batch[k + 1]))
  PROVE  /\ read.layout = SentHeader.layout /\ read.fourcc = SentHeader.fourcc
         /\ k \in Nat /\ k + 1 \in 1 .. Len(sent.batch) /\ Len(sent.batch) \in Nat
         /\ n \in Nat /\ n > 0
         /\ cursor + n = Len(HeaderBytes(SentHeader)) + RecordEnds[k + 1]
         /\ cursor + n <= Len(File)
         /\ cursor + n = Len(File) <=> k + 1 = Len(sent.batch)
         /\ SentHeader.layout = OneTrack => k + 1 = Len(sent.batch)
         /\ cursor + n <= Len(wire) => TrackFits
         /\ TrackFits =>
              /\ wire[IdAt + 1] = sent.batch[k + 1].id
              /\ SentHeader.layout = ManyCodecs =>
                   SubSeq(wire, cursor + 1, cursor + 4) = sent.batch[k + 1].fourcc
              /\ SentHeader.layout # OneTrack =>
                   /\ PayloadEnd = cursor + n
                   /\ SubSeq(wire, PayloadAt + 1, PayloadEnd) = sent.batch[k + 1].payload
              /\ SentHeader.layout = OneTrack =>
                   /\ PayloadEnd = Len(wire)
                   /\ IsPrefix(SubSeq(wire, PayloadAt + 1, PayloadEnd), sent.batch[k + 1].payload)
              /\ Complete => SubSeq(wire, PayloadAt + 1, PayloadEnd) = sent.batch[k + 1].payload
<1> DEFINE h == SentHeader
           b == HeaderBytes(h)
           N == Len(sent.batch)
           t == sent.batch[k + 1]
           ends == RecordEnds
<1>1. /\ h \in Headers /\ wire \in Seq(Byte) /\ Len(wire) \in Nat /\ cursor \in Nat
  BY Sent
<1>2. ReadsAs(h) /\ Splitting
  BY DEF Behind
<1>3. read.layout = h.layout /\ read.fourcc = h.fourcc
  BY <1>2, ReadIs
<1>4. Joinable(h.layout, sent.batch) /\ sent.payload = <<>> /\ sent.batch \in Batches \cup {<<>>}
  BY DEF Given
<1>5. N \in Nat /\ \A i \in 1 .. N :
              /\ sent.batch[i].id \in Byte /\ sent.batch[i].fourcc \in FourCc
              /\ sent.batch[i].payload \in Seq(Byte) /\ Len(sent.batch[i].payload) \in Nat
  BY <1>4, BatchFields
<1>6. k < N /\ cursor = Len(b) + ends[k]
  BY <1>2 DEF Splitting
<1>7. k \in Nat
  <2>1. tracks \in Seq(Track)
    BY DEF IInv, Held
  <2> QED
    BY <2>1, LenProperties
<1>8. /\ k + 1 \in 1 .. N /\ k \in 0 .. N /\ k + 1 \in 0 .. N /\ (k + 1) - 1 = k
      /\ k + 2 \in 1 .. N \/ k + 1 = N
      /\ (k + 2) - 1 = k + 1
  BY <1>5, <1>6, <1>7, SMT
<1>9. /\ Len(File) \in Nat /\ Len(b) \in Nat
      /\ \A i \in 0 .. N : ends[i] \in Nat /\ ends[i] <= ends[N]
      /\ Len(File) = (Len(b) + ends[N]) + Len(sent.payload)
      /\ \A i \in 1 .. N :
           /\ ends[i] = ends[i - 1] + Len(JoinTrack(h.layout, sent.batch[i]))
           /\ Stands(JoinTrack(h.layout, sent.batch[i]), File, Len(b) + ends[i - 1])
  BY FileIs DEF Given
<1>10. \A i \in 1 .. N : h.layout = OneTrack \/ Len(sent.batch[i].payload) <= MaxTrackPayload
  BY <1>4 DEF Joinable
<1>11. /\ ends[k] \in Nat /\ ends[k + 1] \in Nat /\ ends[N] \in Nat /\ ends[k + 1] <= ends[N]
       /\ ends[k + 1] = ends[k] + n
       /\ Stands(JoinTrack(h.layout, t), File, cursor)
  <2>1. N \in 0 .. N
    BY <1>5, SMT
  <2> QED
    BY <1>6, <1>8, <1>9, <2>1
<1>12. Len(File) = Len(b) + ends[N]
  <2>1. Len(<<>>) = 0
    BY SMT
  <2>2. Len(File) = (Len(b) + ends[N]) + 0
    BY <1>4, <1>9, <2>1
  <2> QED
    BY <1>9, <1>11, <2>2, SMT
<1>13. \A i \in 1 .. N : Len(JoinTrack(h.layout, sent.batch[i])) \in Nat
                         /\ Len(JoinTrack(h.layout, sent.batch[i])) > 0
  <2> SUFFICES ASSUME NEW i \in 1 .. N
               PROVE  /\ Len(JoinTrack(h.layout, sent.batch[i])) \in Nat
                      /\ Len(JoinTrack(h.layout, sent.batch[i])) > 0
    OBVIOUS
  <2>1. i - 1 \in 0 .. N
    BY <1>5, SMT
  <2> DEFINE f == [j \in 1 .. Len(wire) |-> wire[j]]
             s == sent.batch[i]
  <2>2. /\ s.id \in Byte /\ s.fourcc \in FourCc /\ s.payload \in Seq(Byte) /\ Len(s.payload) \in Nat
        /\ Len(s.payload) <= MaxTrackPayload \/ h.layout = OneTrack
    BY <1>5, <1>10
  <2>3. Len(JoinTrack(h.layout, s)) =
          (IF h.layout = ManyCodecs THEN 8 ELSE IF h.layout = OneTrack THEN 1 ELSE 4) + Len(s.payload)
    BY <2>2, RecordIs
  <2>4. \A m \in Nat : /\ 8 + m \in Nat /\ 8 + m > 0 /\ 1 + m \in Nat /\ 1 + m > 0
                       /\ 4 + m \in Nat /\ 4 + m > 0
    BY SMT
  <2> HIDE DEF s
  <2> QED
    BY <2>2, <2>3, <2>4 DEF s
<1>14. n \in Nat /\ n > 0
  BY <1>8, <1>13
<1>15. cursor + n = Len(b) + ends[k + 1]
  <2>1. Len(b) \in Nat
    BY <1>9
  <2> QED
    BY <1>6, <1>11, <1>14, <2>1, SMT
<1>16. cursor + n <= Len(File)
  <2>1. Len(b) \in Nat
    BY <1>9
  <2> QED
    BY <1>11, <1>12, <1>15, <2>1, SMT
<1>17. cursor + n = Len(File) <=> k + 1 = N
  <2>1. CASE k + 1 = N
    BY <1>12, <1>15, <2>1
  <2>2. CASE k + 1 # N
    <3> DEFINE m == Len(JoinTrack(h.layout, sent.batch[k + 2]))
    <3>1. k + 2 \in 1 .. N /\ k + 2 \in 0 .. N
      BY <1>5, <1>8, <2>2, SMT
    <3>2. ends[k + 2] = ends[k + 1] + m /\ ends[k + 2] \in Nat /\ ends[k + 2] <= ends[N] /\ m \in Nat /\ m > 0
      BY <1>8, <1>9, <1>13, <3>1
    <3>3. \A w, x, y, z, l \in Nat : y = x + l /\ l > 0 /\ y <= z => w + x # w + z
      BY SMT
    <3>a. Len(b) \in Nat /\ ends[k + 1] \in Nat /\ ends[N] \in Nat
      BY <1>9, <1>11
    <3>b. ends[k + 2] = ends[k + 1] + m /\ ends[k + 2] \in Nat /\ ends[k + 2] <= ends[N] /\ m \in Nat /\ m > 0
      BY <3>2
    <3> HIDE DEF m, b, ends, N
    <3>4. Len(b) + ends[k + 1] # Len(b) + ends[N]
      BY <3>a, <3>b, SMT
    <3> QED
      BY <1>12, <1>15, <2>2, <3>4 DEF b, ends, N
  <2> QED
    BY <2>1, <2>2
<1>18. h.layout = OneTrack => k + 1 = N
  <2>1. h.layout = OneTrack => N = 1
    BY <1>4 DEF Joinable
  <2>2. N \in Nat /\ k \in Nat /\ k < N
    BY <1>5, <1>6, <1>7
  <2> HIDE DEF N
  <2>3. N = 1 => k + 1 = N
    BY <2>2, SMT
  <2> QED
    BY <2>1, <2>3
<1>19. IdOf(h.layout, cursor) = IdAt /\ FromOf(h.layout, cursor) = PayloadAt
       /\ ToOf(h.layout, wire, cursor) = PayloadEnd
  BY <1>3 DEF IdOf, FromOf, ToOf, IdAt, PayloadAt, PayloadEnd
<1>20. /\ \A i \in 1 .. Len(wire) : wire[i] = File[i]
       /\ Len(wire) <= Len(File)
       /\ Complete <=> Len(wire) = Len(File)
  BY <1>1, GivenCarries
<1>21. /\ cursor + n <= Len(wire) => PayloadAt <= Len(wire) /\ PayloadEnd <= Len(wire)
       /\ PayloadAt <= Len(wire) /\ PayloadEnd <= Len(wire) =>
            /\ wire[IdAt + 1] = t.id
            /\ h.layout = ManyCodecs => SubSeq(wire, cursor + 1, cursor + 4) = t.fourcc
            /\ h.layout # OneTrack =>
                 PayloadEnd = cursor + n /\ SubSeq(wire, PayloadAt + 1, PayloadEnd) = t.payload
            /\ h.layout = OneTrack /\ Len(wire) <= cursor + n =>
                 IsPrefix(SubSeq(wire, PayloadAt + 1, PayloadEnd), t.payload)
            /\ h.layout = OneTrack /\ Len(wire) = cursor + n =>
                 SubSeq(wire, PayloadAt + 1, PayloadEnd) = t.payload
  <2>1. /\ t.id \in Byte /\ t.fourcc \in FourCc /\ t.payload \in Seq(Byte)
        /\ h.layout = OneTrack \/ Len(t.payload) <= MaxTrackPayload
    BY <1>5, <1>8, <1>10
  <2>2. /\ \A i \in 1 .. Len(wire) : wire[i] = File[i]
        /\ Stands(JoinTrack(h.layout, t), File, cursor)
    BY <1>11, <1>20
  <2> HIDE DEF t, h
  <2>3. h.layout \in Layouts
    BY DEF h
  <2>4. n = Len(JoinTrack(h.layout, t))
    BY DEF h, t
  <2> QED
    BY <1>1, <1>19, <2>1, <2>2, <2>3, <2>4, TrackIsRead
<1>22. TrackFits <=> PayloadAt <= Len(wire) /\ PayloadEnd <= Len(wire)
  BY <1>3 DEF TrackFits, Layouts
<1>23. h.layout = OneTrack => /\ Len(wire) <= cursor + n /\ PayloadEnd = Len(wire)
                              /\ (Complete => Len(wire) = cursor + n)
  <2>1. h.layout = OneTrack => cursor + n = Len(File)
    BY <1>17, <1>18
  <2>2. h.layout = OneTrack => PayloadEnd = Len(wire)
    BY <1>3 DEF PayloadEnd
  <2> QED
    BY <1>20, <2>1, <2>2
<1> QED
  BY <1>3, <1>5, <1>7, <1>8, <1>14, <1>15, <1>16, <1>17, <1>18, <1>21, <1>22, <1>23

\* A track is split off as it was joined.
LEMMA SplitInStep ==
  ASSUME IInv, InStep, SplitTrack
  PROVE  InStep'
<1> DEFINE h == SentHeader
           k == Len(tracks)
           T == [id |-> wire[IdAt + 1],
                 fourcc |-> IF read.layout = ManyCodecs THEN SubSeq(wire, cursor + 1, cursor + 4)
                                                        ELSE read.fourcc,
                 from |-> PayloadAt, to |-> PayloadEnd]
<1>1. /\ stage = "tracks" /\ TrackFits /\ cursor' = PayloadEnd
      /\ stage' = IF PayloadEnd = Len(wire) THEN "done" ELSE "tracks"
      /\ UNCHANGED <<sent, video, wire, read>>
  BY DEF SplitTrack
<1>2. tracks' = Append(tracks, T)
  BY DEF SplitTrack
<1>3. /\ PayloadEnd \in Nat /\ PayloadEnd <= Len(wire)
      /\ cursor < Len(wire) /\ cursor \in Nat /\ Len(wire) \in Nat
      /\ T \in Track
  <2>1. /\ PayloadAt \in Nat /\ PayloadEnd \in Nat
        /\ cursor < PayloadAt /\ PayloadAt <= PayloadEnd /\ PayloadEnd <= Len(wire)
        /\ wire[IdAt + 1] \in Byte
        /\ SubSeq(wire, cursor + 1, cursor + 4) \in Seq(Byte) \/ read.layout # ManyCodecs
    BY <1>1, TrackInside
  <2>2. cursor \in Nat /\ Len(wire) \in Nat /\ read.fourcc \in Seq(Byte)
    BY Facts, SMT
  <2>3. cursor < Len(wire)
    BY <2>1, <2>2, SMT
  <2>4. T \in Track
    BY <2>1, <2>2 DEF Track
  <2> QED
    BY <2>1, <2>2, <2>3, <2>4
<1>4. /\ Len(tracks') = k + 1 /\ k \in Nat
      /\ \A i \in 1 .. k : tracks'[i] = tracks[i]
      /\ tracks'[k + 1] = T
  <2>1. tracks \in Seq(Track)
    BY DEF IInv, Held
  <2> HIDE DEF T
  <2> QED
    BY <1>2, <1>3, <2>1, AppendProperties, LenProperties
<1>5. ASSUME Given, Consistent(h), AtStage PROVE Behind'
  <2>1. Behind
    BY <1>1, <1>5 DEF AtStage
  <2>2. Accepted(h)
    <3> SUFFICES ASSUME ~Accepted(h) PROVE FALSE
      OBVIOUS
    <3>1. cursor = Len(wire)
      BY <1>1, <2>1 DEF Behind
    <3> QED
      BY <1>3, <3>1, SMT
  <2>3. ReadsAs(h) /\ Splitting
    BY <2>1, <2>2 DEF Behind
  <2>4. h.layout \in Layouts
    <3>1. read.layout = h.layout
      BY <2>3, ReadIs
    <3> QED
      BY <1>1, <3>1 DEF TrackFits, Layouts
  <2> DEFINE n == Len(JoinTrack(h.layout, sent.batch[k + 1]))
             N == Len(sent.batch)
             s == sent.batch[k + 1]
  <2>5. /\ read.layout = h.layout /\ read.fourcc = h.fourcc
        /\ k + 1 \in 1 .. N /\ N \in Nat
        /\ n \in Nat /\ n > 0
        /\ cursor + n = Len(HeaderBytes(h)) + RecordEnds[k + 1]
        /\ cursor + n <= Len(File)
        /\ cursor + n = Len(File) <=> k + 1 = N
        /\ h.layout = OneTrack => k + 1 = N
        /\ wire[IdAt + 1] = s.id
        /\ h.layout = ManyCodecs => SubSeq(wire, cursor + 1, cursor + 4) = s.fourcc
        /\ h.layout # OneTrack =>
             PayloadEnd = cursor + n /\ SubSeq(wire, PayloadAt + 1, PayloadEnd) = s.payload
        /\ h.layout = OneTrack =>
             PayloadEnd = Len(wire) /\ IsPrefix(SubSeq(wire, PayloadAt + 1, PayloadEnd), s.payload)
        /\ Complete => SubSeq(wire, PayloadAt + 1, PayloadEnd) = s.payload
    BY <1>1, <1>5, <2>1, <2>2, <2>4, AtTrack
  <2> HIDE DEF n
  <2>6. SentHeader' = SentHeader /\ (Complete' <=> Complete) /\ RecordEnds' = RecordEnds
    BY <1>1 DEF SentHeader, Complete, RecordEnds
  <2>7. \A i \in 1 .. k + 1 : IsFirst(tracks[i], sent.batch[i])'
    <3>1. ASSUME NEW i \in 1 .. k PROVE IsFirst(tracks[i], sent.batch[i])'
      <4>1. IsFirst(tracks[i], sent.batch[i])
        BY <2>3 DEF Splitting
      <4>2. tracks'[i] = tracks[i]
        BY <1>4
      <4> QED
        BY <1>1, <2>6, <4>1, <4>2 DEF IsFirst, IsTrack, Bytes
    <3>2. ASSUME NEW i, i = k + 1 PROVE IsFirst(tracks[i], sent.batch[i])'
      <4>1. IsTrack(T, s)
        BY <2>5 DEF IsTrack
      <4>2. Bytes(T) = SubSeq(wire, PayloadAt + 1, PayloadEnd)
        BY DEF Bytes
      <4>3. IsFirst(T, s)
        BY <2>5, <4>1, <4>2 DEF IsFirst
      <4>4. tracks'[i] = T /\ sent'.batch[i] = s
        BY <1>1, <1>4, <3>2
      <4> HIDE DEF T, s
      <4>5. IsFirst(tracks[i], sent.batch[i])'
              <=> /\ T.id = s.id
                  /\ T.fourcc = (IF read.layout = ManyCodecs THEN s.fourcc ELSE read.fourcc)
                  /\ IF h.layout = OneTrack /\ ~Complete
                     THEN IsPrefix(SubSeq(wire, T.from + 1, T.to), s.payload)
                     ELSE SubSeq(wire, T.from + 1, T.to) = s.payload
        BY <1>1, <1>4, <2>6, <4>4 DEF IsFirst, IsTrack, Bytes
      <4> QED
        BY <4>3, <4>5 DEF IsFirst, IsTrack, Bytes
    <3>3. \A i \in 1 .. k + 1 : i \in 1 .. k \/ i = k + 1
      BY <1>4, SMT
    <3> QED
      BY <3>1, <3>2, <3>3
  <2>8. Len(wire) <= Len(File) /\ Len(File) \in Nat /\ (Complete => Len(wire) = Len(File))
    <3>1. wire \in Seq(Byte)
      BY Facts
    <3> QED
      BY <1>5, <3>1, GivenCarries, FileIs DEF Given
  <2>9. ASSUME stage' = "tracks"
        PROVE  k + 1 < N /\ cursor' = Len(HeaderBytes(h)) + RecordEnds[k + 1]
    <3>1. PayloadEnd # Len(wire)
      BY <1>1, <2>9
    <3>2. cursor' = cursor + n /\ cursor + n # Len(wire) /\ cursor + n <= Len(wire)
      BY <1>1, <1>3, <2>5, <3>1
    <3>3. cursor + n # Len(File)
      BY <1>3, <2>5, <2>8, <3>2, SMT
    <3>4. k + 1 # N
      BY <2>5, <3>3
    <3>5. k + 1 < N
      BY <1>4, <2>5, <3>4, SMT
    <3> QED
      BY <2>5, <3>2, <3>5
  <2>10. ASSUME stage' = "done", Complete PROVE k + 1 = N
    <3>1. PayloadEnd = Len(wire)
      BY <1>1, <2>10
    <3> QED
      BY <2>5, <2>8, <2>10, <3>1
  <2>11. h.layout # None
    <3>1. None \notin Layouts
      BY NoneAssumption, SMT DEF Layouts, OneTrack, ManyTracks, ManyCodecs
    <3> QED
      BY <2>4, <3>1
  <2>12. k + 1 <= N
    BY <1>4, <2>5, SMT
  <2>13. Splitting'
    <3>1. Len(tracks') = k + 1 /\ sent' = sent /\ stage' # "unsplit"
      BY <1>1, <1>4
    <3> QED
      BY <2>6, <2>7, <2>9, <2>10, <2>11, <2>12, <3>1 DEF Splitting
  <2>14. ReadsAs(h)'
    BY <1>1, <2>3, <2>6 DEF ReadsAs
  <2> QED
    BY <2>2, <2>6, <2>13, <2>14 DEF Behind
<1>6. stage' \notin {"writing", "lead", "legacy", "invalid", "modex", "fourcc", "extra"}
  BY <1>1
<1>7. Given /\ Consistent(SentHeader) /\ AtStage => AtStage'
  BY <1>5, <1>6 DEF AtStage
<1> QED
  BY <1>1, <1>6, <1>7, OnTheWay

\* split_tracks does not fail on a body that is complete.
LEMMA GivingUpInStep ==
  ASSUME IInv, InStep, SplitFails
  PROVE  InStep'
<1> DEFINE h == SentHeader
<1>1. /\ stage = "tracks" /\ ~TrackFits /\ tracks' = <<>> /\ stage' = "unsplit"
      /\ UNCHANGED <<sent, video, wire, cursor, read>>
  BY DEF SplitFails
<1>2. Len(tracks') = 0 /\ \A i \in 1 .. 0 : FALSE
  BY <1>1, SMT
<1>3. ASSUME Given, Consistent(h), AtStage PROVE Behind'
  <2>1. Behind
    BY <1>1, <1>3 DEF AtStage
  <2>2. SentHeader' = SentHeader /\ (Complete' <=> Complete)
    BY <1>1 DEF SentHeader, Complete
  <2>3. ASSUME Accepted(h) PROVE ReadsAs(h)' /\ Splitting'
    <3>1. ReadsAs(h)'
      BY <1>1, <2>1, <2>2, <2>3 DEF Behind, ReadsAs
    <3>2. Len(sent.batch) \in Nat
      BY <1>3, BatchFields DEF Given
    <3>3. 0 <= Len(sent.batch)
      BY <3>2, SMT
    <3>4. Complete => h.layout \notin Layouts
      <4> SUFFICES ASSUME Complete, h.layout \in Layouts PROVE FALSE
        OBVIOUS
      <4> DEFINE n == Len(JoinTrack(h.layout, sent.batch[Len(tracks) + 1]))
      <4>1. cursor + n <= Len(File) /\ (cursor + n <= Len(wire) => TrackFits)
        BY <1>1, <1>3, <2>1, <2>3, AtTrack
      <4>2. Len(wire) = Len(File)
        <5>1. wire \in Seq(Byte)
          BY Facts
        <5> QED
          BY <1>3, <5>1, GivenCarries
      <4> QED
        BY <1>1, <4>1, <4>2
    <3>5. stage' # "tracks" /\ stage' # "done" /\ sent' = sent
      BY <1>1
    <3>6. Splitting'
      BY <1>1, <1>2, <2>2, <3>3, <3>4, <3>5 DEF Splitting
    <3> QED
      BY <3>1, <3>6
  <2>4. ASSUME ~Accepted(h) PROVE IsFrontOfRefused'
    BY <1>1, <2>1, <2>4 DEF Behind, IsFrontOfRefused, ReadsAs
  <2> QED
    BY <1>1, <2>2, <2>3, <2>4 DEF Behind
<1>4. stage' \notin {"writing", "lead", "legacy", "invalid", "modex", "fourcc", "extra"}
  BY <1>1
<1>5. Given /\ Consistent(SentHeader) /\ AtStage => AtStage'
  BY <1>3, <1>4 DEF AtStage
<1> QED
  BY <1>1, <1>4, <1>5, OnTheWay

(***************************************************************************)
(* Writing.                                                                *)
(***************************************************************************)
LEMMA AtLead ==
  ASSUME stage' = "lead", read' = Blank(video)', IsSent' => Given'
  PROVE  InStep'
<1>1. /\ stage' \notin {"writing", "legacy", "invalid", "modex", "fourcc", "extra", "tracks", "done", "unsplit"}
  OBVIOUS
<1>2. AtStage'
  BY <1>1 DEF AtStage
<1> QED
  BY <1>1, <1>2 DEF InStep

\* A body stands in itself.
LEMMA WrittenStands ==
  ASSUME NEW w
  PROVE  Stands(w, w, 0)
<1>1. \A i \in 1 .. Len(w) : 0 + i = i
  BY SMT
<1> QED
  BY <1>1 DEF Stands

\* A header without tracks and without a payload is all of its body.
LEMMA NothingJoined ==
  ASSUME NEW h \in Headers, NEW layout
  PROVE  HeaderBytes(h) \o JoinTracks(layout, <<>>) \o <<>> = HeaderBytes(h)
<1> DEFINE b == HeaderBytes(h)
           j == JoinTracks(layout, <<>>)
<1>1. b \in Seq(Byte)
  BY MarksAre
<1>2. j \in Seq(Byte) /\ Len(j) = 0
  <2>1. Len(<<>>) = 0
    BY SMT
  <2> QED
    BY <2>1, JoinedIs
<1>3. j = <<>>
  <2> HIDE DEF j
  <2>1. 0 \notin Nat \ {0}
    BY SMT
  <2> QED
    BY <1>2, <2>1, EmptySeq
<1>4. b \o <<>> = b
  BY <1>1, ConcatEmptySeq
<1> QED
  BY <1>3, <1>4

\* What is sent, is what there is.
LEMMA SendingIs ==
  ASSUME NEW h \in Headers, NEW batch \in Batches \cup {<<>>}, NEW payload \in Seq(Byte),
         batch = <<>> \/ Joinable(h.layout, batch),
         h.layout \in Layouts => Joinable(h.layout, batch) /\ payload = <<>>,
         Send(h, batch, payload)
  PROVE  Given'
<1>1. /\ h.video = video /\ Accepted(h)
      /\ wire' = HeaderBytes(h) \o JoinTracks(h.layout, batch) \o payload
      /\ sent' = [header |-> h, batch |-> batch, payload |-> payload, length |-> Len(wire')]
      /\ video' = video
  BY DEF Send
<1>2. /\ SentHeader' = h /\ sent'.batch = batch /\ sent'.payload = payload
      /\ sent'.length = Len(wire')
  BY <1>1 DEF SentHeader
<1>3. File' = wire'
  BY <1>1, <1>2 DEF File
<1>4. Len(wire') <= Len(wire')
  <2>1. SentHeader' \in Headers /\ sent'.payload \in Seq(Byte) /\ sent'.batch \in Batches \cup {<<>>}
    BY <1>2
  <2>2. sent'.batch = <<>> \/ Joinable(SentHeader', sent'.batch) \/ Joinable(h.layout, batch)
    BY <1>2
  <2>3. wire' \in Seq(Byte)
    <3>1. HeaderBytes(h) \in Seq(Byte) /\ JoinTracks(h.layout, batch) \in Seq(Byte)
      BY MarksAre, JoinedIs
    <3>2. HeaderBytes(h) \o JoinTracks(h.layout, batch) \in Seq(Byte)
      BY <3>1, ConcatProperties
    <3> QED
      BY <1>1, <3>2, ConcatProperties
  <2>4. Len(wire') \in Nat
    BY <2>3, LenProperties
  <2> QED
    BY <2>4, SMT
<1>5. Stands(wire', wire', 0)
  BY WrittenStands
<1> QED
  BY <1>1, <1>2, <1>3, <1>4, <1>5 DEF Given

\* What was refused, is what there is.
LEMMA RefusingIs ==
  ASSUME NEW h \in Headers, Refuse(h)
  PROVE  Given'
<1>1. /\ h.video = video /\ ~Accepted(h)
      /\ wire' = HeaderBytes(h)
      /\ sent' = [Nothing EXCEPT !.header = h, !.length = Refused]
      /\ video' = video
  BY DEF Refuse
<1>2. /\ SentHeader' = h /\ sent'.batch = <<>> /\ sent'.payload = <<>>
      /\ sent'.length = Refused
  <2> DEFINE x == Refused
             s == sent'
  <2>1. s = [Nothing EXCEPT !.header = h, !.length = x]
    BY <1>1
  <2> HIDE DEF x, s
  <2>2. s.header = h /\ s.batch = <<>> /\ s.payload = <<>> /\ s.length = x
    BY <2>1, SMT DEF Nothing
  <2> QED
    BY <2>2 DEF SentHeader, x, s
<1>3. File' = wire'
  BY <1>1, <1>2, NothingJoined DEF File
<1>4. Len(wire') <= Len(wire')
  <2>1. Len(HeaderBytes(h)) \in Nat
    BY MarksAre
  <2> QED
    BY <1>1, <2>1, SMT
<1>5. Stands(wire', wire', 0)
  BY WrittenStands
<1>6. <<>> \in Seq(Byte)
  BY SMT
<1> QED
  BY <1>1, <1>2, <1>3, <1>4, <1>5, <1>6 DEF Given

\* What was just written is what there is, and nothing is read yet.
LEMMA WritingInStep ==
  ASSUME IInv, InStep, Write
  PROVE  InStep'
<1>1. stage = "writing" /\ stage' = "lead" /\ UNCHANGED <<video, read>>
  BY DEF Write, Refuse, SendTracks, SendPayload, Send, Receive
<1>2. sent = Nothing /\ read = Blank(video)
  BY <1>1 DEF InStep
<1>3. read' = Blank(video)'
  BY <1>1, <1>2 DEF Blank
<1>4. IsSent' => Given'
  <2>1. CASE \E h \in Headers : Refuse(h)
    BY <2>1, RefusingIs
  <2>2. CASE \E h \in Headers, batch \in Batches : SendTracks(h, batch)
    <3>1. PICK h \in Headers, batch \in Batches : SendTracks(h, batch)
      BY <2>2
    <3>2. Joinable(h.layout, batch) /\ Send(h, batch, <<>>) /\ batch \in Batches \cup {<<>>}
      BY <3>1 DEF SendTracks
    <3>3. <<>> \in Seq(Byte)
      BY SMT
    <3> QED
      BY <3>2, <3>3, SendingIs
  <2>3. CASE \E h \in Headers, payload \in Payloads : SendPayload(h, payload)
    <3>1. PICK h \in Headers, payload \in Payloads : SendPayload(h, payload)
      BY <2>3
    <3>2. h.layout \notin Layouts /\ Send(h, <<>>, payload)
      BY <3>1 DEF SendPayload, Layouts
    <3>3. payload \in Seq(Byte) /\ <<>> \in Batches \cup {<<>>}
      BY BodiesAssumption
    <3> QED
      BY <3>2, <3>3, SendingIs
  <2>4. CASE \E body \in Noise : Receive(body)
    <3>1. sent' = sent
      BY <2>4 DEF Receive
    <3> QED
      BY <1>2, <3>1 DEF IsSent
  <2> QED
    BY <2>1, <2>2, <2>3, <2>4 DEF Write
<1> QED
  BY <1>1, <1>3, <1>4, AtLead

\* What is left when a body is cut is its front.
LEMMA CuttingInStep ==
  ASSUME IInv, InStep, CutOff
  PROVE  InStep'
<1>1. /\ stage = "lead" /\ stage' = "lead" /\ Complete
      /\ UNCHANGED <<sent, video, read>>
  BY DEF CutOff, Complete
<1>2. read' = Blank(video)'
  BY <1>1 DEF InStep, Blank
<1>3. PICK m \in 0 .. Len(wire) - 1 : wire' = SubSeq(wire, 1, m)
  BY DEF CutOff
<1>4. wire \in Seq(Byte) /\ Len(wire) \in Nat
  BY Facts
<1>5. m \in Nat /\ m <= Len(wire) /\ m \in Int /\ \A i \in 1 .. m : i \in 1 .. Len(wire)
  BY <1>4, SMT
<1>6. Len(wire') = m /\ \A i \in 1 .. m : wire'[i] = wire[i]
  <2>1. \A i \in 1 .. m : wire[i] \in Byte
    BY <1>5, Facts
  <2> DEFINE t == SubSeq(wire, 1, m)
  <2>2. 1 \in Int
    BY SMT
  <2>3. /\ t \in Seq(Byte) /\ Len(t) = (IF 1 <= m THEN m - 1 + 1 ELSE 0)
        /\ \A i \in 1 .. m - 1 + 1 : t[i] = wire[1 + i - 1]
    BY <1>5, <2>1, <2>2, SubSeqProperties
  <2>4. wire' = t
    BY <1>3
  <2> HIDE DEF t
  <2>5. Len(t) = m
    BY <1>5, <2>3, SMT
  <2>6. ASSUME NEW i \in 1 .. m PROVE t[i] = wire[i]
    <3>1. i \in 1 .. m - 1 + 1 /\ 1 + i - 1 = i
      BY <1>5, SMT
    <3> QED
      BY <2>3, <3>1
  <2> QED
    BY <2>4, <2>5, <2>6
<1>7. ASSUME IsSent PROVE Given'
  <2>1. Given
    BY <1>7 DEF InStep
  <2>2. Accepted(SentHeader) /\ Len(wire) = Len(File) /\ \A i \in 1 .. Len(wire) : wire[i] = File[i]
    BY <1>1, <1>4, <2>1, GivenCarries
  <2>3. SentHeader' = SentHeader /\ File' = File
    BY <1>1 DEF SentHeader, File
  <2>4. Len(wire') <= Len(File)
    BY <1>5, <1>6, <2>2
  <2>5. Stands(wire', File, 0)
    <3>1. \A i \in 1 .. m : 0 + i = i
      BY <1>5, SMT
    <3> QED
      BY <1>5, <1>6, <2>2, <3>1 DEF Stands
  <2> QED
    BY <1>1, <2>1, <2>2, <2>3, <2>4, <2>5 DEF Given
<1>8. IsSent' <=> IsSent
  BY <1>1 DEF IsSent
<1> QED
  BY <1>1, <1>2, <1>7, <1>8, AtLead

(***************************************************************************)
(* Every step keeps writer and reader in step.                             *)
(***************************************************************************)
LEMMA StandingStill ==
  ASSUME InStep, UNCHANGED vars
  PROVE  InStep'
<1>1. /\ sent' = sent /\ video' = video /\ wire' = wire /\ stage' = stage /\ cursor' = cursor
      /\ pending' = pending /\ read' = read /\ tracks' = tracks
  BY DEF vars
<1>2. SentHeader' = SentHeader /\ File' = File /\ RecordEnds' = RecordEnds
      /\ (Complete' <=> Complete) /\ (IsSent' <=> IsSent)
  BY <1>1 DEF SentHeader, File, RecordEnds, Complete, IsSent
<1>3. (Given' <=> Given) /\ (Consistent(SentHeader)' <=> Consistent(SentHeader))
  BY <1>1, <1>2 DEF Given, Consistent
<1>4. Walking' <=> Walking
  BY <1>1, <1>2 DEF Walking, WalkingAt
<1>5. (AtFourCc' <=> AtFourCc) /\ (AtExtra' <=> AtExtra)
  BY <1>1, <1>2 DEF AtFourCc, AtExtra, ExtraAt, Heard
<1>6. Behind' <=> Behind
  <2>1. Splitting' <=> Splitting
    BY <1>1, <1>2 DEF Splitting, IsFirst, IsTrack, Bytes
  <2>2. /\ ReadsAs(SentHeader)' <=> ReadsAs(SentHeader)
        /\ IsFrontOfRefused' <=> IsFrontOfRefused
    BY <1>1, <1>2 DEF ReadsAs, IsFrontOfRefused
  <2> QED
    BY <1>1, <1>2, <2>1, <2>2 DEF Behind
<1>7. AtStage' <=> AtStage
  BY <1>1, <1>2, <1>4, <1>5, <1>6 DEF AtStage
<1>8. Blank(video)' = Blank(video)
  BY <1>1 DEF Blank
<1> QED
  BY <1>1, <1>2, <1>3, <1>7, <1>8 DEF InStep

\* InStep is inductive, next to IInv.
LEMMA StepInStep == IInv /\ InStep /\ [Next]_vars => InStep'
<1> SUFFICES ASSUME IInv, InStep, [Next]_vars PROVE InStep'
  OBVIOUS
<1>1. CASE Write
  BY <1>1, WritingInStep
<1>2. CASE CutOff
  BY <1>2, CuttingInStep
<1>3. CASE Parse
  BY <1>3, LegacyInStep, LeadInStep, WalkInStep, MultitrackInStep, FourCcInStep, CtoInStep,
     CommandInStep, EndInStep, FailureInStep DEF Parse
<1>4. CASE SplitTrack
  BY <1>4, SplitInStep
<1>5. CASE SplitFails
  BY <1>5, GivingUpInStep
<1>6. CASE UNCHANGED vars
  BY <1>6, StandingStill
<1> QED
  BY <1>1, <1>2, <1>3, <1>4, <1>5, <1>6 DEF Next

\* InStep holds at the start.
LEMMA InStepStarts == Init => InStep
<1> SUFFICES ASSUME Init PROVE InStep
  OBVIOUS
<1>1. stage = "writing" /\ sent = Nothing /\ read = Blank(video)
  BY DEF Init
<1>2. ~IsSent
  BY <1>1 DEF IsSent
<1> QED
  BY <1>1, <1>2 DEF InStep

\* Writer and reader are in step in every reachable state.
LEMMA StayingInStep == Spec => [](IInv /\ InStep)
<1>1. Init => IInv /\ InStep
  BY IInvStarts, InStepStarts
<1>2. IInv /\ InStep /\ [Next]_vars => (IInv /\ InStep)'
  BY StepKeeps, StepInStep
<1> QED
  BY <1>1, <1>2, PTL DEF Spec

(***************************************************************************)
(* Whatever to_bytes and join_tracks are given, if they accept it and its  *)
(* parts agree with each other, parse and split_tracks give back: the same *)
(* header, entries, nanoseconds, offset and command, and the same tracks.  *)
(***************************************************************************)
THEOREM BodiesRoundTrip == Spec => []RoundTrip
<1>1. IInv /\ InStep => RoundTrip
  <2> SUFFICES ASSUME IInv, InStep, IsSent, Complete, Consistent(SentHeader)
               PROVE  GivenBack
    BY DEF RoundTrip, Complete, SentHeader
  <2> DEFINE h == SentHeader
  <2>1. Given /\ AtStage
    BY DEF InStep
  <2>2. Accepted(h)
    <3>1. wire \in Seq(Byte)
      BY Facts
    <3> QED
      BY <2>1, <3>1, GivenCarries
  <2>3. stage \notin {"invalid", "legacy"}
    BY <2>1 DEF AtStage
  <2>4. ASSUME stage \in {"tracks", "unsplit", "done"}
        PROVE  ReadsAs(h) /\ Splitting /\ read.layout = h.layout
    <3>1. ReadsAs(h) /\ Splitting
      BY <2>1, <2>2, <2>4 DEF AtStage, Behind
    <3> QED
      BY <3>1, ReadIs
  <2>5. stage = "unsplit" => h.layout \notin {OneTrack, ManyTracks, ManyCodecs}
    BY <2>4 DEF Splitting, Layouts
  <2>6. ASSUME stage = "done"
        PROVE  /\ Len(tracks) = Len(sent.batch)
               /\ \A i \in 1 .. Len(tracks) :
                    IsTrack(tracks[i], sent.batch[i]) /\ Bytes(tracks[i]) = sent.batch[i].payload
               /\ read.layout = None => SubSeq(wire, cursor + 1, Len(wire)) = sent.payload
    <3>1. Splitting /\ read.layout = h.layout
      BY <2>4, <2>6
    <3>2. ASSUME NEW i \in 1 .. Len(tracks)
          PROVE  IsTrack(tracks[i], sent.batch[i]) /\ Bytes(tracks[i]) = sent.batch[i].payload
      BY <3>1 DEF Splitting, IsFirst
    <3> QED
      BY <2>6, <3>1, <3>2 DEF Splitting
  <2> QED
    BY <2>3, <2>4, <2>5, <2>6 DEF GivenBack, SentHeader
<1> QED
  BY <1>1, StayingInStep, PTL

(***************************************************************************)
(* Whatever is left of a body, cut off after any number of bytes or        *)
(* refused half way, is noticed: if the header is read at all it is the    *)
(* one that was sent, and the tracks are the first of those sent, of which *)
(* only the payload of a single track can be shorter; of a header that was *)
(* refused only the refused codec, offset or command is missing.           *)
(***************************************************************************)
THEOREM CutsAreNoticed == Spec => []CutIsNoticed
<1>1. IInv /\ InStep => CutIsNoticed
  <2> SUFFICES ASSUME IInv, InStep, IsSent, Consistent(SentHeader),
                      stage \in {"tracks", "done", "unsplit"}
               PROVE  /\ sent.length = Refused => IsFrontOfRefused
                      /\ Len(wire) < sent.length => IsFront
    BY DEF CutIsNoticed, SentHeader
  <2> DEFINE h == SentHeader
  <2>1. Given /\ Behind
    BY DEF InStep, AtStage
  <2>2. /\ Len(File) \in Nat /\ Len(wire) \in Nat
        /\ sent.length = IF Accepted(h) THEN Len(File) ELSE Refused
    <3>1. Len(wire) \in Nat
      BY Facts
    <3> QED
      BY <2>1, <3>1, FileIs DEF Given
  <2>3. sent.length = Refused => IsFrontOfRefused
    <3>1. \A n \in Nat : n # Refused
      BY SMT DEF Refused
    <3>2. sent.length = Refused => ~Accepted(h)
      BY <2>2, <3>1
    <3> QED
      BY <2>1, <3>2 DEF Behind
  <2>4. ASSUME Len(wire) < sent.length PROVE IsFront
    <3>1. Accepted(h)
      <4>1. \A n \in Nat : ~(n < Refused)
        BY SMT DEF Refused
      <4> QED
        BY <2>2, <2>4, <4>1
    <3>2. ~Complete
      <4>1. \A n \in Nat : ~(n < n)
        BY SMT
      <4> QED
        BY <2>2, <2>4, <4>1 DEF Complete
    <3>3. ReadsAs(h) /\ Splitting
      BY <2>1, <3>1 DEF Behind
    <3>4. read.layout = h.layout
      BY <3>3, ReadIs
    <3>5. Len(tracks) <= Len(sent.batch)
      BY <3>3 DEF Splitting
    <3>6. ASSUME NEW i \in 1 .. Len(tracks)
          PROVE  /\ IsTrack(tracks[i], sent.batch[i])
                 /\ IF read.layout = OneTrack
                    THEN IsPrefix(Bytes(tracks[i]), sent.batch[i].payload)
                    ELSE Bytes(tracks[i]) = sent.batch[i].payload
      <4>1. IsFirst(tracks[i], sent.batch[i])
        BY <3>3 DEF Splitting
      <4> QED
        BY <3>2, <3>4, <4>1 DEF IsFirst
    <3> QED
      BY <3>3, <3>5, <3>6 DEF IsFront, SentHeader
  <2> QED
    BY <2>3, <2>4
<1> QED
  BY <1>1, StayingInStep, PTL
=============================================================================
