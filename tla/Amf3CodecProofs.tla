--------------------------- MODULE Amf3CodecProofs ---------------------------
(***************************************************************************)
(* The AMF3 reader gives back what the AMF3 writer was given, for values   *)
(* of any size and depth.  The reader starts when the writer has stopped,  *)
(* so the invariant remembers for every cell in which state the writer     *)
(* wrote it, and has the reader pass through the same states.              *)
(***************************************************************************)
EXTENDS Amf3Codec, SequenceTheorems, TLAPS

Names == Text \cup {NoText}

(***************************************************************************)
(* Types.                                                                  *)
(***************************************************************************)
Simple == [op : {"atom"}] \cup [op : {"leaf"}, kind : Leaves, at : {0}]
Strings == [op : {"string", "name"}, at : Nat, text : Names]
Arrays == [op : {"array"}, kind : {"array"}, at : {0}, dense : Nat]
Objects ==
  [op : {"object"}, kind : {"object"}, by : {"inline"}, at : {0}, ext : BOOLEAN,
   dyn : BOOLEAN, sealed : Nat]

\* What the writer emits.
Cell == Simple \cup Strings \cup Arrays \cup Objects

\* A call of the writer, and one of the reader.
Frame ==
  [kind : {"array", "object"}, names : Nat, values : Nat, run : BOOLEAN, keyed : BOOLEAN]

TraitsEntry == [ext : BOOLEAN, dyn : BOOLEAN, names : Seq(Names)]

Call ==
  [kind : {"array", "object"}, slot : Nat, cell : Nat, names : Nat, entry : TraitsEntry,
   values : Nat, run : BOOLEAN, keyed : BOOLEAN]

Slots == [kind : Leaves \cup {"array", "object"}, from : Nat, open : BOOLEAN]

WriterTypes ==
  /\ phase \in {"writing", "reading", "refused"}
  /\ calls \in Seq(Frame)
  /\ written \in Seq(Text)
  /\ source \in Seq(Cell)
  /\ wire \in Seq(Cell)

ReaderTypes ==
  /\ stack \in Seq(Call)
  /\ strings \in Seq(Text)
  /\ objects \in Seq(Slots)
  /\ tree \in Seq(Cell)
  /\ status \in {"reading", "done", "invalid"}

(***************************************************************************)
(* The writer, cell by cell.                                               *)
(***************************************************************************)
FrameDue(f) == IF f.kind = "array" THEN DueInArray(f) ELSE DueInObject(f)

\* What the calls b owe when k cells have been written.
Owed(b, k) ==
  IF b = <<>> THEN IF k = 0 THEN "value" ELSE "none" ELSE FrameDue(b[Len(b)])

Less(f) == IF f.keyed THEN [f EXCEPT !.keyed = FALSE] ELSE [f EXCEPT !.values = @ - 1]

LastIs(b, f) == [b EXCEPT ![Len(b)] = f]

Without(b) == IF b = <<>> THEN <<>> ELSE LastIs(b, Less(b[Len(b)]))

ArrayFrame(n) == [kind |-> "array", names |-> 0, values |-> n, run |-> TRUE, keyed |-> FALSE]

ObjectFrame(dyn, n) ==
  [kind |-> "object", names |-> 1 + n, values |-> n, run |-> dyn, keyed |-> FALSE]

\* The calls b become the calls d when cell c is written behind k others.
Wrote(b, k, c, d) ==
  \/ Owed(b, k) = "value" /\ c.op \in {"atom", "leaf", "string"} /\ d = Without(b)
  \/ Owed(b, k) = "value" /\ c.op = "array" /\ d = Append(Without(b), ArrayFrame(c.dense))
  \/ /\ Owed(b, k) = "value" /\ c.op = "object"
     /\ c.ext => ~c.dyn /\ c.sealed = 0
     /\ d = Append(Without(b), ObjectFrame(c.dyn, c.sealed))
  \/ /\ Owed(b, k) = "name" /\ c.op = "name" /\ b # <<>>
     /\ d = LastIs(b, [b[Len(b)] EXCEPT !.names = @ - 1])
  \/ /\ Owed(b, k) = "key" /\ c.op = "name" /\ b # <<>>
     /\ d = LastIs(b, IF c.text = NoText THEN [b[Len(b)] EXCEPT !.run = FALSE]
                                         ELSE [b[Len(b)] EXCEPT !.keyed = TRUE])

\* Some of the calls a have returned, and the calls b are left.
Returned(a, b) ==
  /\ a \in Seq(Frame) /\ b \in Seq(Frame)
  /\ Len(b) <= Len(a)
  /\ \A i \in 1 .. Len(b) : b[i] = a[i]
  /\ \A i \in 1 .. Len(a) : i > Len(b) => FrameDue(a[i]) = "none"

\* Cell c of the value is w on the wire; it is written when the table t has n
\* strings and leaves m.
Sent(t, c, w, n, m) ==
  IF c.op \in {"string", "name"}
  THEN /\ c.at = 0 /\ w.op = c.op
       /\ \/ w.at = 0 /\ w.text = c.text /\ c.text = NoText /\ m = n
          \/ w.at = 0 /\ w.text = c.text /\ m = n + 1 /\ c.text # NoText /\ t[m] = c.text
          \/ w.at \in 1 .. n /\ t[w.at] = c.text /\ m = n
  ELSE w = c /\ m = n

\* How the writer got where it is: then[i] are the calls right behind the cell in
\* front of the i-th, known[i] is how many strings the table had there.
History(then, known) ==
  /\ then \in Seq(Seq(Frame)) /\ Len(then) = Len(source) + 1
  /\ known \in Seq(Nat) /\ Len(known) = Len(source) + 1
  /\ then[1] = <<>> /\ known[1] = 0
  /\ known[Len(source) + 1] = Len(written)
  /\ \A i \in 1 .. Len(known) : known[i] <= Len(written)
  /\ \A i \in 1 .. Len(source) :
       \E b \in Seq(Frame) : Returned(then[i], b) /\ Wrote(b, i - 1, source[i], then[i + 1])
  /\ \A i \in 1 .. Len(wire) : Sent(written, source[i], wire[i], known[i], known[i + 1])
  /\ Returned(then[Len(source) + 1], calls)

\* The wire is whole until it is cut, and how the writer stopped.
Stopped ==
  /\ Len(wire) <= Len(source)
  /\ phase # "reading" => Len(wire) = Len(source)
  /\ phase = "reading" => calls = <<>> /\ source # <<>>
  /\ phase = "refused" => Owed(calls, Len(source)) \in {"key", "value"}

(***************************************************************************)
(* The reader.                                                             *)
(***************************************************************************)
\* The calls of reader and writer for the same array or object.
Agree(f, g) ==
  /\ f.kind = g.kind /\ f.names = g.names
  /\ f.names = 0 => f.values = g.values /\ f.run = g.run /\ f.keyed = g.keyed
  /\ f.names > 0 =>
       /\ f.kind = "object" /\ ~g.keyed
       /\ g.values + 1 = Len(f.entry.names) + f.names
       /\ g.run = (f.entry.dyn /\ ~f.entry.ext)
       /\ f.entry.ext => g.values = 0

Same(s, b) == Len(s) = Len(b) /\ \A i \in 1 .. Len(b) : Agree(s[i], b[i])

\* The reader is behind cell Len(tree), in the state in which the writer was there.
Follows(then, known) ==
  /\ Len(tree) <= Len(wire)
  /\ \A j \in 1 .. Len(tree) : tree[j] = source[j]
  /\ Len(strings) = known[Len(tree) + 1]
  /\ \A i \in 1 .. Len(strings) : strings[i] = written[i]
  /\ \E b \in Seq(Frame) : Returned(then[Len(tree) + 1], b) /\ Same(stack, b)

\* What the reader has made of it.
Outcome ==
  /\ phase = "writing" => tree = <<>> /\ stack = <<>> /\ status = "reading"
  /\ status = "invalid" => ~Whole \/ phase = "refused"
  /\ status = "done" => stack = <<>> /\ tree # <<>>

InStep == \E then, known : History(then, known) /\ Follows(then, known)

IInv == WriterTypes /\ ReaderTypes /\ Stopped /\ Outcome /\ InStep

LEMMA IInvStarts == CodecInit => IInv
<1> SUFFICES ASSUME CodecInit PROVE IInv
  OBVIOUS
<1> USE DEF CodecInit, DecoderInit
<1>1. /\ <<>> \in Seq(Frame) /\ <<>> \in Seq(Text) /\ <<>> \in Seq(Cell)
      /\ <<>> \in Seq(Call) /\ <<>> \in Seq(Slots) /\ Len(<<>>) = 0
  BY SMT
<1>2. WriterTypes /\ ReaderTypes
  BY <1>1 DEF WriterTypes, ReaderTypes
<1>3. Stopped /\ Outcome
  BY <1>1 DEF Stopped, Outcome, Whole
<1>4. InStep
  <2> DEFINE then == << <<>> >>
             known == <<0>>
  <2>1. then \in Seq(Seq(Frame)) /\ Len(then) = 1 /\ then[1] = <<>>
    BY <1>1, SMT
  <2>2. known \in Seq(Nat) /\ Len(known) = 1 /\ known[1] = 0
    BY SMT
  <2> HIDE DEF then, known
  <2>3. Returned(<<>>, <<>>) /\ Same(<<>>, <<>>)
    BY <1>1, SMT DEF Returned, Same
  <2>4. Len(source) = 0 /\ Len(wire) = 0 /\ Len(tree) = 0 /\ Len(strings) = 0 /\ Len(written) = 0
    BY <1>1
  <2>5. History(then, known)
    BY <2>1, <2>2, <2>3, <2>4, SMT DEF History
  <2>6. Follows(then, known)
    BY <1>1, <2>1, <2>2, <2>3, <2>4, SMT DEF Follows
  <2> QED
    BY <2>5, <2>6 DEF InStep
<1> QED
  BY <1>2, <1>3, <1>4 DEF IInv

(***************************************************************************)
(* Calls.                                                                  *)
(***************************************************************************)
LEMMA FrameIsDue ==
  ASSUME NEW g \in Frame
  PROVE  /\ FrameDue(g) \in {"value", "name", "key", "none"}
         /\ FrameDue(g) = "value" => Less(g) \in Frame
         /\ FrameDue(g) = "name" => g.kind = "object" /\ g.names > 0
         /\ FrameDue(g) = "key" => g.names = 0 \/ g.kind = "array"
<1> USE DEF FrameDue, DueInArray, DueInObject, Pairs
<1>1. g.kind \in {"array", "object"} /\ g.names \in Nat /\ g.values \in Nat
  BY DEF Frame
<1>2. FrameDue(g) \in {"value", "name", "key", "none"}
  OBVIOUS
<1>3. ASSUME FrameDue(g) = "value" PROVE Less(g) \in Frame
  <2>1. CASE g.keyed
    BY <2>1 DEF Less, Frame
  <2>2. CASE ~g.keyed
    <3>1. g.values - 1 \in Nat
      BY <1>1, <1>3, <2>2, SMT
    <3> QED
      BY <2>2, <3>1 DEF Less, Frame
  <2> QED
    BY <2>1, <2>2
<1>4. FrameDue(g) = "name" => g.kind = "object" /\ g.names > 0
  BY <1>1
<1>5. FrameDue(g) = "key" => g.names = 0 \/ g.kind = "array"
  BY <1>1, SMT
<1> QED
  BY <1>2, <1>3, <1>4, <1>5

LEMMA LastIsLast ==
  ASSUME NEW S, NEW b \in Seq(S), b # <<>>, NEW f \in S
  PROVE  /\ Len(b) \in 1 .. Len(b) /\ b[Len(b)] \in S
         /\ LastIs(b, f) \in Seq(S) /\ Len(LastIs(b, f)) = Len(b)
         /\ LastIs(b, f) # <<>>
         /\ \A i \in 1 .. Len(b) : LastIs(b, f)[i] = IF i = Len(b) THEN f ELSE b[i]
<1>1. Len(b) \in Nat /\ Len(b) # 0
  BY EmptySeq, LenProperties
<1>2. Len(b) \in 1 .. Len(b)
  BY <1>1, SMT
<1>3. /\ LastIs(b, f) \in Seq(S) /\ Len(LastIs(b, f)) = Len(b)
      /\ \A i \in 1 .. Len(b) : LastIs(b, f)[i] = IF i = Len(b) THEN f ELSE b[i]
  BY <1>2, ExceptSeq DEF LastIs
<1>4. LastIs(b, f) # <<>>
  BY <1>1, <1>3, EmptySeq
<1> QED
  BY <1>2, <1>3, <1>4, ElementOfSeq

LEMMA WithoutOne ==
  ASSUME NEW b \in Seq(Frame), NEW k, Owed(b, k) = "value"
  PROVE  /\ Without(b) \in Seq(Frame) /\ Len(Without(b)) = Len(b)
         /\ \A i \in 1 .. Len(b) : Without(b)[i] = IF i = Len(b) THEN Less(b[i]) ELSE b[i]
<1>1. CASE b = <<>>
  BY <1>1, SMT DEF Without
<1>2. CASE b # <<>>
  <2>1. b[Len(b)] \in Frame
    BY <1>2, LastIsLast
  <2>2. Less(b[Len(b)]) \in Frame
    BY <1>2, <2>1, FrameIsDue DEF Owed
  <2> DEFINE f == Less(b[Len(b)])
  <2>3. Without(b) = LastIs(b, f)
    BY <1>2 DEF Without
  <2>4. \A i \in 1 .. Len(b) : (IF i = Len(b) THEN f ELSE b[i]) = (IF i = Len(b) THEN Less(b[i]) ELSE b[i])
    OBVIOUS
  <2> HIDE DEF f
  <2>5. f \in Frame
    BY <2>2 DEF f
  <2>6. /\ LastIs(b, f) \in Seq(Frame) /\ Len(LastIs(b, f)) = Len(b)
        /\ \A i \in 1 .. Len(b) : LastIs(b, f)[i] = IF i = Len(b) THEN f ELSE b[i]
    BY <1>2, <2>5, LastIsLast
  <2> QED
    BY <2>3, <2>4, <2>6
<1> QED
  BY <1>1, <1>2

LEMMA Reflexive ==
  ASSUME NEW a \in Seq(Frame)
  PROVE  Returned(a, a)
  BY SMT DEF Returned

LEMMA Front ==
  ASSUME NEW S, NEW b \in Seq(S), NEW n \in 0 .. Len(b)
  PROVE  /\ SubSeq(b, 1, n) \in Seq(S) /\ Len(SubSeq(b, 1, n)) = n
         /\ \A i \in 1 .. n : SubSeq(b, 1, n)[i] = b[i]
<1>1. Len(b) \in Nat
  BY LenProperties
<1>2. n \in Nat /\ 1 \in Int /\ n \in Int
  BY <1>1, SMT
<1>3. \A i \in 1 .. n : i \in 1 .. Len(b)
  BY <1>1, SMT
<1>4. \A i \in 1 .. n : b[i] \in S
  BY <1>3, ElementOfSeq
<1>5. /\ SubSeq(b, 1, n) \in Seq(S)
      /\ Len(SubSeq(b, 1, n)) = IF 1 <= n THEN n - 1 + 1 ELSE 0
      /\ \A i \in 1 .. n - 1 + 1 : SubSeq(b, 1, n)[i] = b[1 + i - 1]
  BY <1>2, <1>4, SubSeqProperties
<1>6. n - 1 + 1 = n /\ (IF 1 <= n THEN n - 1 + 1 ELSE 0) = n /\ \A i \in 1 .. n : 1 + i - 1 = i
  BY <1>2, SMT
<1> QED
  BY <1>5, <1>6

\* The last call, owing nothing more, returns as well.
LEMMA OneMore ==
  ASSUME NEW a, NEW b, Returned(a, b), b # <<>>, FrameDue(b[Len(b)]) = "none"
  PROVE  Returned(a, SubSeq(b, 1, Len(b) - 1))
<1>1. a \in Seq(Frame) /\ b \in Seq(Frame) /\ Len(a) \in Nat /\ Len(b) \in Nat /\ Len(b) # 0
  BY EmptySeq, LenProperties DEF Returned
<1> DEFINE c == SubSeq(b, 1, Len(b) - 1)
<1>2. c \in Seq(Frame) /\ Len(c) = Len(b) - 1 /\ \A i \in 1 .. Len(b) - 1 : c[i] = b[i]
  <2>1. Len(b) - 1 \in 0 .. Len(b)
    BY <1>1, SMT
  <2> QED
    BY <1>1, <2>1, Front
<1> HIDE DEF c
<1>3. Returned(a, c)
  BY <1>1, <1>2, SMT DEF Returned
<1> QED
  BY <1>3 DEF c

\* Calls return only when they owe nothing, so those that are left are known by
\* the last of them owing something.
LEMMA OneBase ==
  ASSUME NEW a, NEW b, NEW c, Returned(a, b), Returned(a, c),
         b # <<>> => FrameDue(b[Len(b)]) # "none",
         c # <<>> => FrameDue(c[Len(c)]) # "none"
  PROVE  b = c
<1>1. a \in Seq(Frame) /\ b \in Seq(Frame) /\ c \in Seq(Frame)
      /\ Len(a) \in Nat /\ Len(b) \in Nat /\ Len(c) \in Nat
  BY LenProperties DEF Returned
<1>2. Len(b) <= Len(c)
  <2> SUFFICES ASSUME Len(b) > Len(c) PROVE FALSE
    BY <1>1, SMT
  <2>1. b # <<>> /\ Len(b) \in 1 .. Len(b) /\ Len(b) \in 1 .. Len(a)
    BY <1>1, SMT DEF Returned
  <2>2. b[Len(b)] = a[Len(b)] /\ FrameDue(a[Len(b)]) = "none"
    BY <2>1 DEF Returned
  <2> QED
    BY <2>1, <2>2
<1>3. Len(c) <= Len(b)
  <2> SUFFICES ASSUME Len(c) > Len(b) PROVE FALSE
    BY <1>1, SMT
  <2>1. c # <<>> /\ Len(c) \in 1 .. Len(c) /\ Len(c) \in 1 .. Len(a)
    BY <1>1, SMT DEF Returned
  <2>2. c[Len(c)] = a[Len(c)] /\ FrameDue(a[Len(c)]) = "none"
    BY <2>1 DEF Returned
  <2> QED
    BY <2>1, <2>2
<1>4. Len(b) = Len(c)
  BY <1>1, <1>2, <1>3, SMT
<1>5. \A i \in 1 .. Len(b) : b[i] = c[i]
  BY <1>4 DEF Returned
<1> QED
  BY <1>1, <1>4, <1>5, SeqEqual

LEMMA Longer ==
  ASSUME NEW S, NEW s \in Seq(S), NEW e \in S
  PROVE  /\ Append(s, e) \in Seq(S) /\ Len(Append(s, e)) = Len(s) + 1
         /\ \A i \in 1 .. Len(s) : Append(s, e)[i] = s[i]
         /\ Append(s, e)[Len(s) + 1] = e
  BY SMT

(***************************************************************************)
(* The writer's table.                                                     *)
(***************************************************************************)
LEMMA Place ==
  ASSUME WriterTypes, NEW s
  PROVE  /\ PlaceOf(s) \in 0 .. Len(written)
         /\ PlaceOf(s) > 0 => written[PlaceOf(s)] = s
         /\ PlaceOf(s) = 0 => \A j \in 1 .. Len(written) : written[j] # s
<1> DEFINE Is(i) == IF \E j \in 1 .. Len(written) : written[j] = s
                    THEN i > 0 /\ written[i] = s ELSE i = 0
<1>1. Len(written) \in Nat
  BY LenProperties DEF WriterTypes
<1>2. \E i \in 0 .. Len(written) : Is(i)
  <2>1. CASE \E j \in 1 .. Len(written) : written[j] = s
    <3>1. PICK j \in 1 .. Len(written) : written[j] = s
      BY <2>1
    <3>2. j \in 0 .. Len(written) /\ j > 0
      BY <1>1, <3>1, SMT
    <3> QED
      BY <2>1, <3>1, <3>2
  <2>2. CASE ~ \E j \in 1 .. Len(written) : written[j] = s
    <3>1. 0 \in 0 .. Len(written)
      BY <1>1, SMT
    <3> QED
      BY <2>2, <3>1
  <2> QED
    BY <2>1, <2>2
<1>3. PlaceOf(s) \in 0 .. Len(written) /\ Is(PlaceOf(s))
  BY <1>2, Zenon DEF PlaceOf
<1> QED
  BY <1>1, <1>3, SMT

\* The writer's table only grows.
Grows == Len(written) <= Len(written') /\ \A i \in 1 .. Len(written) : written'[i] = written[i]

LEMMA NameIsSent ==
  ASSUME WriterTypes, NEW s \in Names, Record(s), NEW c, NEW w,
         c.op \in {"string", "name"}, w.op = c.op, c.at = 0, c.text = s,
         w.at = PlaceOf(s), w.text = OnWire(s)
  PROVE  /\ written' \in Seq(Text) /\ Grows
         /\ Sent(written', c, w, Len(written), Len(written'))
<1>1. Len(written) \in Nat /\ written \in Seq(Text)
  BY LenProperties DEF WriterTypes
<1>2. CASE PlaceOf(s) > 0
  <2>1. written' = written
    BY <1>2 DEF Record
  <2>2. PlaceOf(s) \in 1 .. Len(written) /\ written[PlaceOf(s)] = s
    BY <1>1, <1>2, Place, SMT
  <2> QED
    BY <1>1, <2>1, <2>2 DEF Sent, Grows
<1>3. CASE ~(PlaceOf(s) > 0)
  <2>1. PlaceOf(s) = 0 /\ w.text = s
    BY <1>1, <1>3, Place, SMT DEF OnWire
  <2>2. CASE s = NoText
    <3>1. written' = written
      BY <2>2 DEF Record
    <3> QED
      BY <1>1, <2>1, <2>2, <3>1 DEF Sent, Grows
  <2>3. CASE s # NoText
    <3>1. s \in Text /\ written' = Append(written, s)
      BY <1>3, <2>3 DEF Record, Names
    <3>2. /\ written' \in Seq(Text) /\ Len(written') = Len(written) + 1
          /\ \A i \in 1 .. Len(written) : written'[i] = written[i]
          /\ written'[Len(written')] = s
      BY <1>1, <3>1, Longer
    <3>3. Len(written) <= Len(written')
      BY <1>1, <3>2, SMT
    <3> QED
      BY <2>1, <2>3, <3>2, <3>3 DEF Sent, Grows
  <2> QED
    BY <2>2, <2>3
<1> QED
  BY <1>2, <1>3

LEMMA SentBefore ==
  ASSUME WriterTypes, Grows, NEW c, NEW w, NEW n \in Nat, NEW m \in Nat,
         n <= Len(written), m <= Len(written), Sent(written, c, w, n, m)
  PROVE  Sent(written', c, w, n, m)
<1>1. Len(written) \in Nat
  BY LenProperties DEF WriterTypes
<1>2. CASE c.op \in {"string", "name"}
  <2>1. CASE w.at = 0 /\ w.text = c.text /\ c.text = NoText /\ m = n
    BY <1>2, <2>1 DEF Sent
  <2>2. CASE w.at = 0 /\ w.text = c.text /\ m = n + 1 /\ c.text # NoText /\ written[m] = c.text
    <3>1. m \in 1 .. Len(written)
      BY <1>1, <2>2, SMT
    <3>2. written'[m] = c.text
      BY <2>2, <3>1 DEF Grows
    <3> QED
      BY <1>2, <2>2, <3>2 DEF Sent
  <2>3. CASE w.at \in 1 .. n /\ written[w.at] = c.text /\ m = n
    <3>1. w.at \in 1 .. Len(written)
      BY <1>1, <2>3, SMT
    <3>2. written'[w.at] = c.text
      BY <2>3, <3>1 DEF Grows
    <3> QED
      BY <1>2, <2>3, <3>2 DEF Sent
  <2> QED
    BY <1>2, <2>1, <2>2, <2>3 DEF Sent
<1>3. CASE c.op \notin {"string", "name"}
  BY <1>3 DEF Sent
<1> QED
  BY <1>2, <1>3

(***************************************************************************)
(* The writer's steps.                                                     *)
(***************************************************************************)
Lengths == Len(source) \in Nat /\ Len(wire) \in Nat /\ Len(written) \in Nat /\ Len(calls) \in Nat
             /\ Len(tree) \in Nat /\ Len(strings) \in Nat /\ Len(stack) \in Nat

LEMMA AreLengths == ASSUME WriterTypes, ReaderTypes PROVE Lengths
  BY LenProperties DEF WriterTypes, ReaderTypes, Lengths

LEMMA CellIsWritten ==
  ASSUME IInv, phase = "writing", NEW c \in Cell, NEW w \in Cell, NEW d \in Seq(Frame),
         Wrote(calls, Len(source), c, d),
         source' = Append(source, c), wire' = Append(wire, w), calls' = d,
         written' \in Seq(Text), Grows, Sent(written', c, w, Len(written), Len(written')),
         UNCHANGED <<decoderVars, phase>>
  PROVE  IInv'
<1> DEFINE n == Len(source)
<1>1. PICK then, known : History(then, known) /\ Follows(then, known)
  BY DEF IInv, InStep
<1>2. WriterTypes /\ ReaderTypes /\ Lengths /\ Len(wire) = n
  BY AreLengths DEF IInv, Stopped
<1>3. /\ source' \in Seq(Cell) /\ Len(source') = n + 1 /\ source'[n + 1] = c
      /\ \A i \in 1 .. n : source'[i] = source[i]
  BY <1>2, Longer DEF WriterTypes
<1>4. /\ wire' \in Seq(Cell) /\ Len(wire') = n + 1 /\ wire'[n + 1] = w
      /\ \A i \in 1 .. n : wire'[i] = wire[i]
  BY <1>2, Longer DEF WriterTypes
<1>5. WriterTypes'
  BY <1>2, <1>3, <1>4 DEF WriterTypes
<1>6. /\ stack' = stack /\ strings' = strings /\ objects' = objects /\ traits' = traits
      /\ tree' = tree /\ status' = status /\ phase' = phase
  BY DEF decoderVars
<1>7. ReaderTypes'
  BY <1>2, <1>6 DEF ReaderTypes
<1>8. Stopped'
  BY <1>2, <1>3, <1>4, <1>6 DEF Stopped
<1>9. Outcome'
  BY <1>6 DEF IInv, Outcome
<1>a. PICK then2 : then2 = Append(then, d)
  OBVIOUS
<1>b. PICK known2 : known2 = Append(known, Len(written'))
  OBVIOUS
<1>10. /\ then2 \in Seq(Seq(Frame)) /\ Len(then2) = n + 2 /\ then2[n + 2] = d
       /\ \A i \in 1 .. n + 1 : then2[i] = then[i]
  <2>1. then \in Seq(Seq(Frame)) /\ Len(then) = n + 1
    BY <1>1 DEF History
  <2>2. n + 1 + 1 = n + 2
    BY <1>2, SMT DEF Lengths
  <2> QED
    BY <1>a, <2>1, <2>2, Longer
<1>11. /\ known2 \in Seq(Nat) /\ Len(known2) = n + 2 /\ known2[n + 2] = Len(written')
       /\ \A i \in 1 .. n + 1 : known2[i] = known[i]
  <2>1. known \in Seq(Nat) /\ Len(known) = n + 1 /\ Len(written') \in Nat
    BY <1>1, LenProperties DEF History
  <2>2. n + 1 + 1 = n + 2
    BY <1>2, SMT DEF Lengths
  <2> QED
    BY <1>b, <2>1, <2>2, Longer
<1>12. n \in Nat
  BY <1>2 DEF Lengths
<1>13. \A i \in 1 .. Len(source') :
         \E b \in Seq(Frame) : Returned(then2[i], b) /\ Wrote(b, i - 1, source'[i], then2[i + 1])
  <2> SUFFICES ASSUME NEW i \in 1 .. n + 1
               PROVE  \E b \in Seq(Frame) : Returned(then2[i], b) /\ Wrote(b, i - 1, source'[i], then2[i + 1])
    BY <1>3
  <2>1. CASE i \in 1 .. n
    <3>1. i \in 1 .. n + 1 /\ i + 1 \in 1 .. n + 1
      BY <1>12, <2>1, SMT
    <3> QED
      BY <1>1, <1>3, <1>10, <2>1, <3>1 DEF History
  <2>2. CASE i = n + 1
    <3>1. i \in 1 .. n + 1 /\ i + 1 = n + 2 /\ i - 1 = n
      BY <1>12, <2>2, SMT
    <3>2. Returned(then2[i], calls) /\ calls \in Seq(Frame)
      BY <1>1, <1>2, <1>10, <2>2, <3>1 DEF History, WriterTypes
    <3> QED
      BY <1>3, <1>10, <2>2, <3>1, <3>2
  <2> QED
    BY <1>12, <2>1, <2>2, SMT
<1>14. \A i \in 1 .. Len(wire') : Sent(written', source'[i], wire'[i], known2[i], known2[i + 1])
  <2> SUFFICES ASSUME NEW i \in 1 .. n + 1
               PROVE  Sent(written', source'[i], wire'[i], known2[i], known2[i + 1])
    BY <1>4
  <2>1. CASE i \in 1 .. n
    <3>1. i \in 1 .. n + 1 /\ i + 1 \in 1 .. n + 1
      BY <1>12, <2>1, SMT
    <3>2. Sent(written, source[i], wire[i], known[i], known[i + 1])
      BY <1>1, <1>2, <2>1 DEF History
    <3>3. /\ known[i] \in Nat /\ known[i + 1] \in Nat
          /\ known[i] <= Len(written) /\ known[i + 1] <= Len(written)
      BY <1>1, <3>1, ElementOfSeq DEF History
    <3>4. Sent(written', source[i], wire[i], known[i], known[i + 1])
      BY <1>2, <3>2, <3>3, SentBefore
    <3>5. /\ source'[i] = source[i] /\ wire'[i] = wire[i]
          /\ known2[i] = known[i] /\ known2[i + 1] = known[i + 1]
      BY <1>3, <1>4, <1>11, <2>1, <3>1
    <3> QED
      BY <3>4, <3>5
  <2>2. CASE i = n + 1
    <3>1. i \in 1 .. n + 1 /\ i + 1 = n + 2
      BY <1>12, <2>2, SMT
    <3>2. known2[i] = Len(written)
      BY <1>1, <1>11, <2>2, <3>1 DEF History
    <3>3. /\ source'[i] = c /\ wire'[i] = w
          /\ known2[i] = Len(written) /\ known2[i + 1] = Len(written')
      BY <1>3, <1>4, <1>11, <2>2, <3>1, <3>2
    <3> QED
      BY <3>3
  <2>3. i \in 1 .. n \/ i = n + 1
    BY <1>12, SMT
  <2> QED
    BY <2>1, <2>2, <2>3
<1>15. \A i \in 1 .. Len(known2) : known2[i] <= Len(written')
  <2> SUFFICES ASSUME NEW i \in 1 .. n + 2 PROVE known2[i] <= Len(written')
    BY <1>11
  <2>1. CASE i \in 1 .. n + 1
    <3>1. known[i] \in Nat /\ known[i] <= Len(written)
      BY <1>1, <2>1, ElementOfSeq DEF History
    <3>2. Len(written) \in Nat /\ Len(written') \in Nat /\ Len(written) <= Len(written')
      BY <1>2, LenProperties DEF Grows, Lengths
    <3>3. known[i] <= Len(written')
      BY <3>1, <3>2, SMT
    <3> QED
      BY <1>11, <2>1, <3>3
  <2>2. CASE i = n + 2
    <3>1. Len(written') \in Nat
      BY LenProperties
    <3> QED
      BY <1>11, <2>2, <3>1, SMT
  <2> QED
    BY <1>12, <2>1, <2>2, SMT
<1>16. History(then2, known2)'
  <2>1. /\ then2 \in Seq(Seq(Frame)) /\ Len(then2) = Len(source') + 1
        /\ known2 \in Seq(Nat) /\ Len(known2) = Len(source') + 1
        /\ known2[Len(source') + 1] = Len(written')
        /\ then2[Len(source') + 1] = d
    <3>1. n + 1 + 1 = n + 2
      BY <1>12, SMT
    <3> QED
      BY <1>3, <1>10, <1>11, <3>1
  <2>2. then2[1] = <<>> /\ known2[1] = 0
    <3>1. 1 \in 1 .. n + 1
      BY <1>12, SMT
    <3> QED
      BY <1>1, <1>10, <1>11, <3>1 DEF History
  <2>3. Returned(then2[Len(source') + 1], calls')
    BY <2>1, Reflexive
  <2> QED
    BY <1>13, <1>14, <1>15, <2>1, <2>2, <2>3 DEF History
<1>17. Follows(then2, known2)'
  <2>1. Len(tree) <= n /\ Len(tree) \in Nat /\ Len(strings) \in Nat
    BY <1>1, <1>2 DEF Follows, Lengths
  <2>2. Len(tree) + 1 \in 1 .. n + 1 /\ Len(tree) <= n + 1 /\ \A j \in 1 .. Len(tree) : j \in 1 .. n
    BY <1>12, <2>1, SMT
  <2>3. \A i \in 1 .. Len(strings) : i \in 1 .. Len(written)
    <3>1. Len(strings) <= Len(written)
      BY <1>1, <2>2 DEF Follows, History
    <3>2. Len(written) \in Nat
      BY <1>2 DEF Lengths
    <3> QED
      BY <2>1, <3>1, <3>2, SMT
  <2>4. \A i \in 1 .. Len(strings) : strings[i] = written'[i]
    BY <1>1, <2>3 DEF Follows, Grows
  <2>5. \A j \in 1 .. Len(tree) : tree[j] = source'[j]
    BY <1>1, <1>3, <2>2 DEF Follows
  <2>6. Len(strings) = known2[Len(tree) + 1]
    BY <1>1, <1>11, <2>2 DEF Follows
  <2>7. \E b \in Seq(Frame) : Returned(then2[Len(tree) + 1], b) /\ Same(stack, b)
    BY <1>1, <1>10, <2>2 DEF Follows
  <2> QED
    BY <1>4, <1>6, <2>2, <2>4, <2>5, <2>6, <2>7 DEF Follows
<1>18. InStep'
  BY <1>16, <1>17 DEF InStep
<1> QED
  BY <1>5, <1>7, <1>8, <1>9, <1>18 DEF IInv

LEMMA DueIsOwed ==
  ASSUME WriterTypes
  PROVE  /\ Due = Owed(calls, Len(source))
         /\ Advanced = Without(calls)
<1>1. source = <<>> <=> Len(source) = 0
  BY EmptySeq DEF WriterTypes
<1>2. Due = Owed(calls, Len(source))
  BY <1>1 DEF Due, Owed, FrameDue, Writing
<1>3. Advanced = Without(calls)
  BY DEF Advanced, Without, WithCall, LastIs, Less, Writing
<1> QED
  BY <1>2, <1>3

\* A cell that is no string leaves the table as it is.
LEMMA PlainCell ==
  ASSUME IInv, phase = "writing", NEW c \in Cell, NEW d \in Seq(Frame),
         c.op \notin {"string", "name"},
         Wrote(calls, Len(source), c, d),
         Put(c, c), calls' = d, UNCHANGED <<decoderVars, phase, written>>
  PROVE  IInv'
<1>1. written \in Seq(Text) /\ written' = written
  BY DEF IInv, WriterTypes
<1>2. Grows
  BY <1>1 DEF Grows
<1>3. Sent(written', c, c, Len(written), Len(written'))
  BY <1>1 DEF Sent
<1>4. source' = Append(source, c) /\ wire' = Append(wire, c) /\ UNCHANGED <<decoderVars, phase>>
  BY DEF Put
<1> QED
  BY <1>1, <1>2, <1>3, <1>4, CellIsWritten

LEMMA StringCells ==
  ASSUME NEW o \in {"string", "name"}, NEW at \in Nat, NEW s \in Names
  PROVE  [op |-> o, at |-> at, text |-> s] \in Cell
  BY DEF Cell, Strings

LEMMA NamedCell ==
  ASSUME IInv, phase = "writing", NEW s \in Names, NEW c, NEW w, NEW d \in Seq(Frame),
         NEW o \in {"string", "name"},
         c = [op |-> o, at |-> 0, text |-> s], w = [op |-> o, at |-> PlaceOf(s), text |-> OnWire(s)],
         Wrote(calls, Len(source), c, d),
         Put(c, w), Record(s), calls' = d, UNCHANGED <<decoderVars, phase>>
  PROVE  IInv'
<1>1. WriterTypes
  BY DEF IInv
<1>2. PlaceOf(s) \in Nat /\ OnWire(s) \in Names
  <2>1. PlaceOf(s) \in 0 .. Len(written) /\ Len(written) \in Nat
    BY <1>1, Place, LenProperties DEF WriterTypes
  <2> QED
    BY <2>1, SMT DEF OnWire, Names
<1>3. c \in Cell /\ w \in Cell
  BY <1>2, StringCells
<1>4. /\ c.op \in {"string", "name"} /\ w.op = c.op /\ c.at = 0 /\ c.text = s
      /\ w.at = PlaceOf(s) /\ w.text = OnWire(s)
  OBVIOUS
<1>5. written' \in Seq(Text) /\ Grows /\ Sent(written', c, w, Len(written), Len(written'))
  BY <1>1, <1>4, NameIsSent
<1>6. source' = Append(source, c) /\ wire' = Append(wire, w)
  BY DEF Put
<1> QED
  BY <1>3, <1>5, <1>6, CellIsWritten

LEMMA ScalarStep ==
  ASSUME IInv, WriteScalar PROVE IInv'
<1>1. WriterTypes /\ phase = "writing" /\ Due = "value"
  BY DEF IInv, WriteScalar, WriterAt
<1>2. Owed(calls, Len(source)) = "value" /\ calls' = Without(calls)
  BY <1>1, DueIsOwed DEF WriteScalar
<1>3. Without(calls) \in Seq(Frame)
  BY <1>1, <1>2, WithoutOne DEF WriterTypes
<1>4. PICK c \in Cell : c.op \in {"atom", "leaf"} /\ Put(c, c)
  <2>1. Atom \in Cell /\ Atom.op = "atom"
    BY DEF Atom, Cell, Simple
  <2>2. \A k \in Leaves : LeafCell(k, 0) \in Cell /\ LeafCell(k, 0).op = "leaf"
    BY DEF LeafCell, Cell, Simple
  <2> QED
    BY <2>1, <2>2 DEF WriteScalar
<1>5. Wrote(calls, Len(source), c, Without(calls))
  BY <1>2, <1>4 DEF Wrote
<1>6. UNCHANGED <<decoderVars, phase, written>>
  BY DEF WriteScalar
<1> QED
  BY <1>1, <1>2, <1>3, <1>4, <1>5, <1>6, PlainCell

LEMMA StringStep ==
  ASSUME IInv, NEW s \in Names, WriteString(s) PROVE IInv'
<1>1. WriterTypes /\ phase = "writing" /\ Due = "value"
  BY DEF IInv, WriteString, WriterAt
<1>2. Owed(calls, Len(source)) = "value" /\ calls' = Without(calls)
  BY <1>1, DueIsOwed DEF WriteString
<1>3. Without(calls) \in Seq(Frame)
  BY <1>1, <1>2, WithoutOne DEF WriterTypes
<1> DEFINE c == [op |-> "string", at |-> 0, text |-> s]
           w == [op |-> "string", at |-> PlaceOf(s), text |-> OnWire(s)]
<1>4. Put(c, w) /\ Record(s) /\ UNCHANGED <<decoderVars, phase>>
  BY DEF WriteString, StringCell
<1>5. Wrote(calls, Len(source), c, Without(calls))
  BY <1>2 DEF Wrote
<1> HIDE DEF Cell
<1> QED
  BY <1>1, <1>2, <1>3, <1>4, <1>5, NamedCell

LEMMA ArrayStep ==
  ASSUME IInv, NEW n \in Nat, WriteArray(n) PROVE IInv'
<1>1. WriterTypes /\ phase = "writing" /\ Due = "value"
  BY DEF IInv, WriteArray, WriterAt
<1> DEFINE c == ArrayCell(0, n)
           d == Append(Without(calls), ArrayFrame(n))
<1>2. Owed(calls, Len(source)) = "value" /\ calls' = d
  BY <1>1, DueIsOwed DEF WriteArray, ArrayFrame
<1>3. d \in Seq(Frame)
  <2>1. ArrayFrame(n) \in Frame
    BY DEF ArrayFrame, Frame
  <2> QED
    BY <1>1, <1>2, <2>1, WithoutOne, Longer DEF WriterTypes
<1>4. c \in Cell /\ c.op = "array" /\ c.dense = n
  BY DEF ArrayCell, Cell, Arrays
<1>5. Put(c, c) /\ UNCHANGED <<decoderVars, phase, written>>
  BY DEF WriteArray
<1>6. Wrote(calls, Len(source), c, d)
  BY <1>2, <1>4 DEF Wrote
<1> HIDE DEF c, d
<1> QED
  BY <1>1, <1>2, <1>3, <1>4, <1>5, <1>6, PlainCell

LEMMA ObjectCellStep ==
  ASSUME IInv, WriterAt("value"), NEW ext \in BOOLEAN, NEW dyn \in BOOLEAN, NEW n \in Nat,
         ext => ~dyn /\ n = 0,
         LET c == ObjectCell("inline", 0, ext, dyn, n) IN Put(c, c),
         calls' = Append(Advanced, ObjectFrame(dyn, n)),
         UNCHANGED <<decoderVars, phase, written>>
  PROVE  IInv'
<1>1. WriterTypes /\ phase = "writing" /\ Due = "value"
  BY DEF IInv, WriterAt
<1> DEFINE c == ObjectCell("inline", 0, ext, dyn, n)
           d == Append(Without(calls), ObjectFrame(dyn, n))
<1>2. Owed(calls, Len(source)) = "value" /\ calls' = d
  BY <1>1, DueIsOwed
<1>3. d \in Seq(Frame)
  <2>1. ObjectFrame(dyn, n) \in Frame
    BY DEF ObjectFrame, Frame
  <2> QED
    BY <1>1, <1>2, <2>1, WithoutOne, Longer DEF WriterTypes
<1>4. c \in Cell /\ c.op = "object" /\ c.ext = ext /\ c.dyn = dyn /\ c.sealed = n
  BY DEF ObjectCell, Cell, Objects
<1>5. Put(c, c)
  OBVIOUS
<1>6. Wrote(calls, Len(source), c, d)
  BY <1>2, <1>4 DEF Wrote
<1> HIDE DEF c, d
<1> QED
  BY <1>1, <1>2, <1>3, <1>4, <1>5, <1>6, PlainCell

LEMMA ObjectStep ==
  ASSUME IInv, NEW dyn \in BOOLEAN, NEW n \in Nat, WriteObject(dyn, n) PROVE IInv'
<1>1. /\ WriterAt("value") /\ UNCHANGED <<decoderVars, phase, written>>
      /\ LET c == ObjectCell("inline", 0, FALSE, dyn, n) IN Put(c, c)
      /\ calls' = Append(Advanced, ObjectFrame(dyn, n))
  BY DEF WriteObject, ObjectFrame
<1> QED
  BY <1>1, ObjectCellStep

LEMMA ExternalizableStep ==
  ASSUME IInv, WriteExternalizable PROVE IInv'
<1>1. /\ WriterAt("value") /\ UNCHANGED <<decoderVars, phase, written>>
      /\ LET c == ObjectCell("inline", 0, TRUE, FALSE, 0) IN Put(c, c)
  BY DEF WriteExternalizable
<1>2. calls' = Append(Advanced, ObjectFrame(FALSE, 0))
  <2>1. 1 + 0 = 1
    BY SMT
  <2> QED
    BY <2>1 DEF WriteExternalizable, ObjectFrame
<1>3. TRUE \in BOOLEAN /\ FALSE \in BOOLEAN /\ 0 \in Nat
  BY SMT
<1> QED
  BY <1>1, <1>2, <1>3, ObjectCellStep

\* A class name, a sealed name, a key or the terminator of a run.
LEMMA NameStep ==
  ASSUME IInv, NEW s \in Names, NEW f, WriterAt("name") \/ WriterAt("key"),
         calls # <<>>,
         f = IF Due = "name" THEN [Writing EXCEPT !.names = @ - 1]
             ELSE IF s = NoText THEN [Writing EXCEPT !.run = FALSE]
             ELSE [Writing EXCEPT !.keyed = TRUE],
         PutName(s), calls' = WithCall(f), UNCHANGED <<decoderVars, phase>>
  PROVE  IInv'
<1>1. WriterTypes /\ phase = "writing" /\ calls \in Seq(Frame)
  BY DEF IInv, WriterTypes, WriterAt
<1>2. /\ Due = Owed(calls, Len(source)) /\ Due \in {"name", "key"}
      /\ Due = FrameDue(Writing)
  BY <1>1, DueIsOwed DEF WriterAt, Owed, Writing
<1>3. Writing \in Frame
  BY <1>1, LastIsLast DEF Writing
<1>4. f \in Frame
  <2>1. CASE Due = "name"
    <3>1. Writing.names \in Nat /\ Writing.names > 0
      BY <1>2, <1>3, <2>1, FrameIsDue DEF Frame
    <3>2. Writing.names - 1 \in Nat
      BY <3>1, SMT
    <3> QED
      BY <1>3, <2>1, <3>2 DEF Frame
  <2>2. CASE Due # "name"
    BY <1>3, <2>2 DEF Frame
  <2> QED
    BY <2>1, <2>2
<1>5. calls' = LastIs(calls, f)
  BY DEF WithCall, LastIs
<1>6. LastIs(calls, f) \in Seq(Frame)
  BY <1>1, <1>4, LastIsLast
<1> DEFINE c == [op |-> "name", at |-> 0, text |-> s]
           w == [op |-> "name", at |-> PlaceOf(s), text |-> OnWire(s)]
<1>7. Put(c, w) /\ Record(s)
  BY DEF PutName, NameCell
<1>8. Wrote(calls, Len(source), c, LastIs(calls, f))
  BY <1>2 DEF Wrote, Writing
<1> QED
  BY <1>1, <1>5, <1>6, <1>7, <1>8, NamedCell

LEMMA NoCallNoName ==
  ASSUME WriterTypes, Due \in {"name", "key"}
  PROVE  calls # <<>>
  BY DEF Due

LEMMA TraitNameStep ==
  ASSUME IInv, NEW s \in Names, WriteTraitName(s) PROVE IInv'
<1>1. WriterTypes /\ Due = "name" /\ WriterAt("name")
  BY DEF IInv, WriteTraitName, WriterAt
<1>2. calls # <<>>
  BY <1>1, NoCallNoName
<1> QED
  BY <1>1, <1>2, NameStep DEF WriteTraitName

LEMMA KeyStep ==
  ASSUME IInv, NEW s \in Names, WriteKey(s) PROVE IInv'
<1>1. WriterTypes /\ Due = "key" /\ WriterAt("key")
  BY DEF IInv, WriteKey, WriterAt
<1>2. calls # <<>>
  BY <1>1, NoCallNoName
<1> QED
  BY <1>1, <1>2, NameStep DEF WriteKey

LEMMA EndOfRunStep ==
  ASSUME IInv, WriteEndOfRun PROVE IInv'
<1>1. WriterTypes /\ Due = "key" /\ WriterAt("key") /\ NoText \in Names
  BY DEF IInv, WriteEndOfRun, WriterAt, Names
<1>2. calls # <<>>
  BY <1>1, NoCallNoName
<1> QED
  BY <1>1, <1>2, NameStep DEF WriteEndOfRun

LEMMA RefuseStep ==
  ASSUME IInv, Refuse PROVE IInv'
<1>1. /\ WriterTypes /\ ReaderTypes /\ phase = "writing" /\ phase' = "refused"
      /\ Due \in {"key", "value"} /\ Stopped
      /\ UNCHANGED <<decoderVars, calls, written, source, wire>>
  BY DEF IInv, Refuse, WriterAt
<1>2. status = "reading"
  BY <1>1 DEF IInv, Outcome
<1>3. WriterTypes' /\ ReaderTypes'
  BY <1>1 DEF WriterTypes, ReaderTypes, decoderVars
<1>4. Owed(calls, Len(source)) \in {"key", "value"}
  BY <1>1, DueIsOwed
<1>5. Stopped'
  BY <1>1, <1>4 DEF Stopped
<1>6. Outcome'
  BY <1>1, <1>2 DEF Outcome, decoderVars
<1>7. PICK then, known : History(then, known) /\ Follows(then, known)
  BY DEF IInv, InStep
<1>8. History(then, known)' /\ Follows(then, known)'
  BY <1>1, <1>7 DEF History, Follows, decoderVars
<1> QED
  BY <1>3, <1>5, <1>6, <1>8 DEF IInv, InStep

LEMMA WriterReturnStep ==
  ASSUME IInv, WriterReturn PROVE IInv'
<1>1. /\ WriterTypes /\ ReaderTypes /\ phase = "writing" /\ Stopped /\ Due = "none"
      /\ UNCHANGED <<decoderVars, written, source, wire>>
  BY DEF IInv, WriterReturn
<1>2. status = "reading" /\ tree = <<>> /\ stack = <<>>
  BY <1>1 DEF IInv, Outcome
<1>3. Owed(calls, Len(source)) = "none"
  BY <1>1, DueIsOwed
<1>4. PICK then, known : History(then, known) /\ Follows(then, known)
  BY DEF IInv, InStep
<1>5. ReaderTypes'
  BY <1>1 DEF ReaderTypes, decoderVars
<1>6. Follows(then, known)'
  BY <1>1, <1>4 DEF Follows, decoderVars
<1>7. CASE calls = <<>>
  <2>1. phase' = "reading" /\ calls' = calls
    BY <1>7 DEF WriterReturn
  <2>2. source # <<>>
    BY <1>3, <1>7 DEF Owed
  <2>3. WriterTypes' /\ Stopped' /\ Outcome'
    BY <1>1, <1>2, <1>7, <2>1, <2>2 DEF WriterTypes, Stopped, Outcome, decoderVars
  <2>4. History(then, known)'
    BY <1>1, <1>4, <2>1 DEF History
  <2> QED
    BY <1>5, <1>6, <2>3, <2>4 DEF IInv, InStep
<1>8. CASE calls # <<>>
  <2>1. phase' = phase /\ calls' = SubSeq(calls, 1, Len(calls) - 1)
    BY <1>8 DEF WriterReturn
  <2>2. FrameDue(calls[Len(calls)]) = "none"
    BY <1>3, <1>8 DEF Owed
  <2>3. Returned(then[Len(source) + 1], calls')
    BY <1>4, <1>8, <2>1, <2>2, OneMore DEF History
  <2>4. WriterTypes' /\ Stopped' /\ Outcome'
    BY <1>1, <1>2, <2>1, <2>3 DEF WriterTypes, Stopped, Outcome, decoderVars, Returned
  <2>5. History(then, known)'
    BY <1>1, <1>4, <2>1, <2>3 DEF History
  <2> QED
    BY <1>5, <1>6, <2>4, <2>5 DEF IInv, InStep
<1> QED
  BY <1>7, <1>8

LEMMA CutOffStep ==
  ASSUME IInv, CutOff PROVE IInv'
<1>1. /\ WriterTypes /\ ReaderTypes /\ phase = "writing" /\ phase' = "reading" /\ Stopped
      /\ Due = "none" /\ calls = <<>>
      /\ UNCHANGED <<decoderVars, calls, written, source>>
  BY DEF IInv, CutOff
<1>2. PICK m \in 0 .. Len(wire) - 1 : wire' = SubSeq(wire, 1, m)
  BY DEF CutOff
<1>3. Lengths
  BY <1>1, AreLengths
<1>4. m \in 0 .. Len(wire) /\ m \in Nat /\ m <= Len(wire) /\ m < Len(wire)
  BY <1>3, SMT DEF Lengths
<1>5. wire' \in Seq(Cell) /\ Len(wire') = m /\ \A i \in 1 .. m : wire'[i] = wire[i]
  BY <1>1, <1>2, <1>4, Front DEF WriterTypes
<1>6. status = "reading" /\ tree = <<>> /\ stack = <<>>
  BY <1>1 DEF IInv, Outcome
<1>7. source # <<>>
  BY <1>1, DueIsOwed DEF Owed
<1>8. WriterTypes' /\ ReaderTypes' /\ Outcome'
  BY <1>1, <1>5, <1>6 DEF WriterTypes, ReaderTypes, Outcome, decoderVars
<1>9. Stopped'
  <2>1. m <= Len(source)
    BY <1>1, <1>3, <1>4, SMT DEF Lengths, Stopped
  <2> QED
    BY <1>1, <1>5, <1>7, <2>1 DEF Stopped
<1>10. PICK then, known : History(then, known) /\ Follows(then, known)
  BY DEF IInv, InStep
<1>11. \A i \in 1 .. Len(wire') : i \in 1 .. Len(wire) /\ wire'[i] = wire[i]
  BY <1>3, <1>4, <1>5, SMT DEF Lengths
<1>12. History(then, known)'
  BY <1>1, <1>10, <1>11 DEF History
<1>13. Follows(then, known)'
  <2>1. Len(tree) = 0 /\ 0 <= m
    BY <1>4, <1>6, SMT
  <2> QED
    BY <1>1, <1>5, <1>10, <2>1 DEF Follows, decoderVars
<1> QED
  BY <1>8, <1>9, <1>12, <1>13 DEF IInv, InStep

(***************************************************************************)
(* The reader's calls.                                                     *)
(***************************************************************************)
LEMMA DueOfCall ==
  ASSUME NEW f \in Call, NEW g \in Frame, Agree(f, g)
  PROVE  /\ WantsValue(f) => FrameDue(g) = "value" /\ f.names = 0
         /\ WantsName(f) /\ f.names > 0 => FrameDue(g) = "name"
         /\ WantsName(f) /\ f.names = 0 => FrameDue(g) = "key"
         /\ Finished(f) => FrameDue(g) = "none"
<1>1. /\ f.kind \in {"array", "object"} /\ f.names \in Nat /\ f.values \in Nat
      /\ g.names \in Nat /\ g.values \in Nat
      /\ f.run \in BOOLEAN /\ f.keyed \in BOOLEAN /\ g.run \in BOOLEAN /\ g.keyed \in BOOLEAN
  BY DEF Call, Frame
<1> USE DEF WantsValue, WantsName, Finished, FrameDue, DueInArray, DueInObject, Pairs
<1>2. CASE f.names > 0
  <2>1. g.kind = "object" /\ g.names > 0 /\ f.names # 0
    BY <1>1, <1>2, SMT DEF Agree
  <2> QED
    BY <1>2, <2>1
<1>3. CASE f.names = 0
  <2>1. g.kind = f.kind /\ g.names = 0 /\ g.values = f.values /\ g.run = f.run /\ g.keyed = f.keyed
    BY <1>3 DEF Agree
  <2>2. ~(0 > 0)
    BY SMT
  <2>3. f.values = 0 \/ f.values > 0
    BY <1>1, SMT
  <2>4. CASE f.kind = "array"
    BY <1>1, <1>3, <2>1, <2>2, <2>3, <2>4
  <2>5. CASE f.kind = "object"
    BY <1>1, <1>3, <2>1, <2>2, <2>3, <2>5, SMT
  <2> QED
    BY <1>1, <2>4, <2>5
<1> QED
  BY <1>1, <1>2, <1>3, SMT

\* The calls of reader and writer still agree when one is added, replaced or gone.
LEMMA SameLonger ==
  ASSUME NEW s \in Seq(Call), NEW b \in Seq(Frame), Same(s, b),
         NEW f \in Call, NEW g \in Frame, Agree(f, g)
  PROVE  Same(Append(s, f), Append(b, g))
<1>1. Len(s) = Len(b) /\ Len(b) \in Nat
  BY LenProperties DEF Same
<1>2. /\ Len(Append(s, f)) = Len(s) + 1 /\ Append(s, f)[Len(s) + 1] = f
      /\ \A i \in 1 .. Len(s) : Append(s, f)[i] = s[i]
  BY Longer
<1>3. /\ Len(Append(b, g)) = Len(b) + 1 /\ Append(b, g)[Len(b) + 1] = g
      /\ \A i \in 1 .. Len(b) : Append(b, g)[i] = b[i]
  BY Longer
<1>4. ASSUME NEW i \in 1 .. Len(b) + 1 PROVE Agree(Append(s, f)[i], Append(b, g)[i])
  <2>1. i \in 1 .. Len(b) \/ i = Len(b) + 1
    BY <1>1, SMT
  <2> QED
    BY <1>1, <1>2, <1>3, <2>1 DEF Same
<1> QED
  BY <1>1, <1>2, <1>3, <1>4 DEF Same

LEMMA SameLast ==
  ASSUME NEW s \in Seq(Call), NEW b \in Seq(Frame), Same(s, b), b # <<>>,
         NEW f \in Call, NEW g \in Frame, Agree(f, g)
  PROVE  /\ LastIs(s, f) \in Seq(Call)
         /\ Same(LastIs(s, f), LastIs(b, g))
<1>1. Len(s) = Len(b) /\ s # <<>>
  BY EmptySeq DEF Same
<1>2. /\ LastIs(s, f) \in Seq(Call) /\ Len(LastIs(s, f)) = Len(s)
      /\ \A i \in 1 .. Len(s) : LastIs(s, f)[i] = IF i = Len(s) THEN f ELSE s[i]
  <2>1. LastIs(s, f) \in Seq(Call)
    BY <1>1, LastIsLast
  <2>2. Len(LastIs(s, f)) = Len(s)
    BY <1>1, LastIsLast
  <2>3. \A i \in 1 .. Len(s) : LastIs(s, f)[i] = IF i = Len(s) THEN f ELSE s[i]
    BY <1>1, LastIsLast
  <2> QED
    BY <2>1, <2>2, <2>3
<1>3. /\ Len(LastIs(b, g)) = Len(b)
      /\ \A i \in 1 .. Len(b) : LastIs(b, g)[i] = IF i = Len(b) THEN g ELSE b[i]
  BY LastIsLast
<1> QED
  BY <1>1, <1>2, <1>3 DEF Same

LEMMA SameFront ==
  ASSUME NEW s \in Seq(Call), NEW b \in Seq(Frame), Same(s, b), s # <<>>
  PROVE  /\ SubSeq(s, 1, Len(s) - 1) \in Seq(Call)
         /\ Same(SubSeq(s, 1, Len(s) - 1), SubSeq(b, 1, Len(b) - 1))
<1>1. Len(s) = Len(b) /\ Len(b) \in Nat /\ Len(s) # 0
  BY EmptySeq, LenProperties DEF Same
<1>2. Len(s) - 1 \in 0 .. Len(s) /\ \A i \in 1 .. Len(s) - 1 : i \in 1 .. Len(s)
  BY <1>1, SMT
<1>3. /\ SubSeq(s, 1, Len(s) - 1) \in Seq(Call) /\ Len(SubSeq(s, 1, Len(s) - 1)) = Len(s) - 1
      /\ \A i \in 1 .. Len(s) - 1 : SubSeq(s, 1, Len(s) - 1)[i] = s[i]
  BY <1>2, Front
<1>4. /\ Len(SubSeq(b, 1, Len(b) - 1)) = Len(b) - 1
      /\ \A i \in 1 .. Len(b) - 1 : SubSeq(b, 1, Len(b) - 1)[i] = b[i]
  BY <1>1, <1>2, Front
<1> QED
  BY <1>1, <1>2, <1>3, <1>4 DEF Same

\* The last calls of reader and writer are calls for the same value.
LEMMA TopAgrees ==
  ASSUME ReaderTypes, NEW b \in Seq(Frame), Same(stack, b)
  PROVE  /\ stack = <<>> <=> b = <<>>
         /\ stack # <<>> => Top \in Call /\ b[Len(b)] \in Frame /\ Agree(Top, b[Len(b)])
<1>1. stack \in Seq(Call)
  BY DEF ReaderTypes
<1>2. stack = <<>> <=> b = <<>>
  BY <1>1, EmptySeq DEF Same
<1>3. ASSUME stack # <<>> PROVE Top \in Call /\ b[Len(b)] \in Frame /\ Agree(Top, b[Len(b)])
  <2>1. Len(stack) = Len(b) /\ b # <<>> /\ Len(stack) \in 1 .. Len(stack) /\ stack[Len(stack)] \in Call
    BY <1>1, <1>2, <1>3, LastIsLast DEF Same
  <2>2. b[Len(b)] \in Frame
    BY <2>1, LastIsLast
  <2> QED
    BY <2>1, <2>2 DEF Top, Same
<1> QED
  BY <1>2, <1>3

LEMMA OneTaken ==
  ASSUME ReaderTypes, NEW b \in Seq(Frame), Same(stack, b), ExpectsValue
  PROVE  Taken \in Seq(Call) /\ Same(Taken, Without(b))
<1>1. CASE stack = <<>>
  BY <1>1, TopAgrees DEF Taken, Without, ReaderTypes
<1>2. CASE stack # <<>>
  <2>1. /\ b # <<>> /\ Top \in Call /\ b[Len(b)] \in Frame /\ Agree(Top, b[Len(b)])
        /\ WantsValue(Top)
    BY <1>2, TopAgrees DEF ExpectsValue
  <2> DEFINE g == b[Len(b)]
             f == IF Top.keyed THEN [Top EXCEPT !.keyed = FALSE] ELSE [Top EXCEPT !.values = @ - 1]
  <2>2. FrameDue(g) = "value" /\ Top.names = 0
    BY <2>1, DueOfCall
  <2>3. Less(g) \in Frame
    BY <2>1, <2>2, FrameIsDue
  <2>4. f \in Call
    <3>1. CASE Top.keyed
      BY <2>1, <3>1 DEF Call
    <3>2. CASE ~Top.keyed
      <4>1. Top.values \in Nat /\ Top.values > 0
        BY <2>1, <3>2 DEF WantsValue, Call
      <4>2. Top.values - 1 \in Nat
        BY <4>1, SMT
      <4> QED
        BY <2>1, <3>2, <4>2 DEF Call
    <3> QED
      BY <3>1, <3>2
  <2>5. Agree(f, Less(g))
    <3>1. ~(Top.names > 0)
      BY <2>2, SMT
    <3> QED
      BY <2>1, <2>2, <3>1 DEF Agree, Less, Call, Frame
  <2>6. Taken = LastIs(stack, f) /\ Without(b) = LastIs(b, Less(g))
    BY <1>2, <2>1 DEF Taken, LastIs, Without
  <2> HIDE DEF f, g
  <2> QED
    BY <2>1, <2>3, <2>4, <2>5, <2>6, SameLast DEF ReaderTypes
<1> QED
  BY <1>1, <1>2

(***************************************************************************)
(* The reader's steps.                                                     *)
(***************************************************************************)
Wants == IF ExpectsValue THEN "value" ELSE IF Top.names > 0 THEN "name" ELSE "key"

\* What the reader expects is what the calls of the writer owed there.
LEMMA OwesWhatIsWanted ==
  ASSUME WriterTypes, ReaderTypes, NEW b \in Seq(Frame), Same(stack, b), ExpectsValue \/ ExpectsName
  PROVE  /\ Owed(b, Len(tree)) = Wants
         /\ b # <<>> => FrameDue(b[Len(b)]) # "none"
<1>1. CASE stack = <<>>
  <2>1. b = <<>> /\ ExpectsValue /\ Len(tree) = 0
    BY <1>1, TopAgrees, SMT DEF ExpectsValue, ExpectsName, Begun
  <2> QED
    BY <2>1 DEF Owed, Wants
<1>2. CASE stack # <<>>
  <2>1. /\ b # <<>> /\ Top \in Call /\ b[Len(b)] \in Frame /\ Agree(Top, b[Len(b)])
    BY <1>2, TopAgrees
  <2>2. Top.names = 0 \/ Top.names > 0
    BY <2>1, SMT DEF Call
  <2>3. Owed(b, Len(tree)) = FrameDue(b[Len(b)])
    BY <2>1 DEF Owed
  <2>4. CASE ExpectsValue
    BY <1>2, <2>1, <2>3, <2>4, DueOfCall DEF ExpectsValue, Wants
  <2>5. CASE ExpectsName /\ ~ExpectsValue
    <3>1. WantsName(Top)
      BY <2>5 DEF ExpectsName
    <3>2. CASE Top.names > 0
      BY <2>1, <2>3, <2>5, <3>1, <3>2, DueOfCall DEF Wants
    <3>3. CASE ~(Top.names > 0)
      BY <2>1, <2>2, <2>3, <2>5, <3>1, <3>3, DueOfCall DEF Wants
    <3> QED
      BY <3>2, <3>3
  <2> QED
    BY <2>4, <2>5
<1> QED
  BY <1>1, <1>2

LEMMA ReaderMeets ==
  ASSUME IInv, NEW then, NEW known, History(then, known), Follows(then, known),
         Len(tree) < Len(wire), ExpectsValue \/ ExpectsName
  PROVE  \E b \in Seq(Frame) :
           /\ Same(stack, b) /\ Owed(b, Len(tree)) = Wants
           /\ Wrote(b, Len(tree), source[Len(tree) + 1], then[Len(tree) + 2])
<1> DEFINE k == Len(tree)
<1>1. WriterTypes /\ ReaderTypes /\ Lengths /\ Len(wire) <= Len(source)
  BY AreLengths DEF IInv, Stopped
<1>2. k + 1 \in 1 .. Len(source) /\ k + 1 - 1 = k /\ k + 1 + 1 = k + 2
  BY <1>1, SMT DEF Lengths
<1>3. PICK b \in Seq(Frame) : Returned(then[k + 1], b) /\ Same(stack, b)
  BY DEF Follows
<1>4. PICK c \in Seq(Frame) : Returned(then[k + 1], c) /\ Wrote(c, k, source[k + 1], then[k + 2])
  <2>1. \A i \in 1 .. Len(source) :
          \E c \in Seq(Frame) : Returned(then[i], c) /\ Wrote(c, i - 1, source[i], then[i + 1])
    BY DEF History
  <2> QED
    BY <1>2, <2>1
<1>5. Owed(b, k) = Wants /\ (b # <<>> => FrameDue(b[Len(b)]) # "none")
  BY <1>1, <1>3, OwesWhatIsWanted
<1>6. c # <<>> => FrameDue(c[Len(c)]) # "none"
  BY <1>4 DEF Wrote, Owed
<1>7. b = c
  BY <1>3, <1>4, <1>5, <1>6, OneBase
<1> QED
  BY <1>3, <1>4, <1>5, <1>7

\* The reader is one cell further, where the writer was behind that cell.
LEMMA CellIsRead ==
  ASSUME IInv, NEW then, NEW known, History(then, known), Follows(then, known),
         phase # "writing", status = "reading", Len(tree) < Len(wire),
         tree' = Append(tree, source[Len(tree) + 1]),
         Same(stack', then[Len(tree) + 2]), stack' \in Seq(Call), objects' \in Seq(Slots),
         strings' \in Seq(Text), Len(strings') = known[Len(tree) + 2],
         \A i \in 1 .. Len(strings') : strings'[i] = written[i],
         UNCHANGED status, UNCHANGED writerVars
  PROVE  IInv'
<1> DEFINE k == Len(tree)
<1>1. WriterTypes /\ ReaderTypes /\ Lengths /\ Stopped
  BY AreLengths DEF IInv
<1>2. /\ k \in Nat /\ k + 1 <= Len(wire) /\ k + 1 \in 1 .. Len(source) /\ k + 2 \in 1 .. Len(source) + 1
      /\ k + 1 + 1 = k + 2
  BY <1>1, SMT DEF Lengths, Stopped
<1>3. UNCHANGED <<phase, calls, written, source, wire>>
  BY DEF writerVars
<1>4. source[k + 1] \in Cell
  BY <1>1, <1>2, ElementOfSeq DEF WriterTypes
<1>5. /\ tree' \in Seq(Cell) /\ Len(tree') = k + 1 /\ tree'[k + 1] = source[k + 1]
      /\ \A j \in 1 .. k : tree'[j] = tree[j]
  BY <1>1, <1>4, Longer DEF ReaderTypes
<1>6. \A j \in 1 .. Len(tree') : tree'[j] = source[j]
  <2> SUFFICES ASSUME NEW j \in 1 .. k + 1 PROVE tree'[j] = source[j]
    BY <1>5
  <2>1. j \in 1 .. k \/ j = k + 1
    BY <1>2, SMT
  <2> QED
    BY <1>5, <2>1 DEF Follows
<1>7. WriterTypes' /\ Stopped'
  BY <1>1, <1>3 DEF WriterTypes, Stopped
<1>8. ReaderTypes'
  BY <1>1, <1>5 DEF ReaderTypes
<1>9. Outcome'
  BY <1>3 DEF Outcome
<1>10. History(then, known)'
  BY <1>3 DEF History
<1>11. then[k + 2] \in Seq(Frame)
  <2>1. then \in Seq(Seq(Frame)) /\ k + 2 \in 1 .. Len(then)
    BY <1>2 DEF History
  <2> QED
    BY <2>1, ElementOfSeq
<1>12. Returned(then[k + 2], then[k + 2])
  BY <1>11, Reflexive
<1>13. Follows(then, known)'
  <2>1. Len(tree') + 1 = k + 2
    BY <1>2, <1>5
  <2>2. strings' = strings' /\ \A i \in 1 .. Len(strings') : strings'[i] = written'[i]
    BY <1>3
  <2>3. \E b \in Seq(Frame) : Returned(then[Len(tree') + 1], b) /\ Same(stack', b)
    BY <1>11, <1>12, <2>1
  <2>4. \A j \in 1 .. Len(tree') : tree'[j] = source'[j]
    BY <1>3, <1>6
  <2>5. Len(tree') <= Len(wire')
    BY <1>2, <1>3, <1>5
  <2>6. Len(strings') = known[Len(tree') + 1]
    BY <2>1
  <2> QED
    BY <2>2, <2>3, <2>4, <2>5, <2>6 DEF Follows
<1> QED
  BY <1>7, <1>8, <1>9, <1>10, <1>13 DEF IInv, InStep

\* What the wire holds for the next cell, and that the reader has the strings for it.
LEMMA CellOnWire ==
  ASSUME IInv, NEW then, NEW known, History(then, known), Follows(then, known),
         Len(tree) < Len(wire)
  PROVE  /\ source[Len(tree) + 1] \in Cell /\ wire[Len(tree) + 1] \in Cell
         /\ Sent(written, source[Len(tree) + 1], wire[Len(tree) + 1], Len(strings), known[Len(tree) + 2])
         /\ known[Len(tree) + 2] \in Nat /\ then[Len(tree) + 2] \in Seq(Frame)
<1> DEFINE k == Len(tree)
<1>1. WriterTypes /\ ReaderTypes /\ Lengths /\ Stopped
  BY AreLengths DEF IInv
<1>2. k + 1 \in 1 .. Len(wire) /\ k + 1 \in 1 .. Len(source) /\ k + 1 + 1 = k + 2 /\ k + 2 \in 1 .. Len(source) + 1
  BY <1>1, SMT DEF Lengths, Stopped
<1>3. source[k + 1] \in Cell /\ wire[k + 1] \in Cell
  BY <1>1, <1>2, ElementOfSeq DEF WriterTypes
<1>4. Sent(written, source[k + 1], wire[k + 1], known[k + 1], known[k + 1 + 1])
  BY <1>2 DEF History
<1>5. known[k + 2] \in Nat
  <2>1. known \in Seq(Nat) /\ k + 2 \in 1 .. Len(known)
    BY <1>2 DEF History
  <2> QED
    BY <2>1, ElementOfSeq
<1>6. then[k + 2] \in Seq(Frame)
  <2>1. then \in Seq(Seq(Frame)) /\ k + 2 \in 1 .. Len(then)
    BY <1>2 DEF History
  <2> QED
    BY <2>1, ElementOfSeq
<1> QED
  BY <1>2, <1>3, <1>4, <1>5, <1>6 DEF Follows

LEMMA KindsOfCells ==
  ASSUME NEW c \in Cell
  PROVE  /\ c.op \in {"string", "name"} => c = [op |-> c.op, at |-> c.at, text |-> c.text] /\ c \in Strings
         /\ c.op \notin {"string", "name"} => ~IsReference(c)
         /\ c.op = "object" => c.by = "inline"
<1>1. CASE c \in Simple
  <2>1. ~(0 > 0)
    BY SMT
  <2> QED
    BY <1>1, <2>1 DEF Simple, IsReference
<1>2. CASE c \in Strings
  BY <1>2 DEF Strings
<1>3. CASE c \in Arrays
  <2>1. ~(0 > 0)
    BY SMT
  <2> QED
    BY <1>3, <2>1 DEF Arrays, IsReference
<1>4. CASE c \in Objects
  BY <1>4 DEF Objects, IsReference
<1> QED
  BY <1>1, <1>2, <1>3, <1>4 DEF Cell

\* A string is read as the one that was written, and enters the table as it did there.
LEMMA TextIsRead ==
  ASSUME IInv, NEW then, NEW known, History(then, known), Follows(then, known),
         Len(tree) < Len(wire), NEW c, c = wire[Len(tree) + 1], c.op \in {"string", "name"}
  PROVE  /\ Resolves(c)
         /\ source[Len(tree) + 1] = [op |-> c.op, at |-> 0, text |-> TextOf(c)]
         /\ TextOf(c) \in Names
         /\ Remember(c) => /\ strings' \in Seq(Text) /\ Len(strings') = known[Len(tree) + 2]
                           /\ \A i \in 1 .. Len(strings') : strings'[i] = written[i]
<1> DEFINE s == source[Len(tree) + 1]
           n == Len(strings)
           m == known[Len(tree) + 2]
<1>1. s \in Cell /\ c \in Cell /\ Sent(written, s, c, n, m) /\ m \in Nat
  BY CellOnWire
<1>2. WriterTypes /\ ReaderTypes /\ Lengths /\ strings \in Seq(Text) /\ n \in Nat
  BY AreLengths DEF IInv, ReaderTypes, Lengths
<1>3. s.op = c.op /\ s.at = 0
  BY <1>1 DEF Sent
<1>4. s = [op |-> c.op, at |-> 0, text |-> s.text] /\ s.text \in Names /\ c.at \in Nat /\ c.text \in Names
  <2>1. s = [op |-> s.op, at |-> s.at, text |-> s.text] /\ s \in Strings /\ c \in Strings
    BY <1>1, <1>3, KindsOfCells
  <2>2. s.text \in Names /\ c.at \in Nat /\ c.text \in Names
    BY <2>1 DEF Strings
  <2> QED
    BY <1>3, <2>1, <2>2
<1>5. \A i \in 1 .. n : strings[i] = written[i]
  BY DEF Follows
<1>6. CASE c.at = 0 /\ c.text = s.text /\ s.text = NoText /\ m = n
  <2>1. Resolves(c) /\ TextOf(c) = s.text
    BY <1>2, <1>6, SMT DEF Resolves, TextOf
  <2>2. Remember(c) => strings' = strings
    BY <1>6 DEF Remember
  <2> QED
    BY <1>2, <1>4, <1>5, <1>6, <2>1, <2>2
<1>7. CASE c.at = 0 /\ c.text = s.text /\ m = n + 1 /\ s.text # NoText /\ written[m] = s.text
  <2>1. Resolves(c) /\ TextOf(c) = s.text
    BY <1>2, <1>7, SMT DEF Resolves, TextOf
  <2>2. s.text \in Text
    BY <1>4, <1>7 DEF Names
  <2>3. ASSUME Remember(c)
        PROVE  /\ strings' \in Seq(Text) /\ Len(strings') = n + 1
               /\ \A i \in 1 .. n + 1 : strings'[i] = written[i]
    <3>1. strings' = Append(strings, s.text)
      BY <1>7, <2>3 DEF Remember
    <3>2. /\ strings' \in Seq(Text) /\ Len(strings') = n + 1 /\ strings'[n + 1] = s.text
          /\ \A i \in 1 .. n : strings'[i] = strings[i]
      BY <1>2, <2>2, <3>1, Longer
    <3>3. ASSUME NEW i \in 1 .. n + 1 PROVE strings'[i] = written[i]
      <4>1. i \in 1 .. n \/ i = n + 1
        BY <1>2, SMT
      <4> QED
        BY <1>5, <1>7, <3>2, <4>1
    <3> QED
      BY <3>2, <3>3
  <2> QED
    BY <1>4, <1>7, <2>1, <2>3
<1>8. CASE c.at \in 1 .. n /\ written[c.at] = s.text /\ m = n
  <2>1. c.at # 0 /\ c.at <= n
    BY <1>2, <1>8, SMT
  <2>2. Resolves(c) /\ TextOf(c) = s.text
    BY <1>5, <1>8, <2>1 DEF Resolves, TextOf
  <2>3. Remember(c) => strings' = strings
    BY <2>1 DEF Remember
  <2> QED
    BY <1>2, <1>4, <1>5, <1>8, <2>2, <2>3
<1> QED
  BY <1>1, <1>3, <1>6, <1>7, <1>8 DEF Sent

\* A value that is no string.
LEMMA PlainIsRead ==
  ASSUME IInv, phase # "writing", Len(tree) < Len(wire), NEW c, c = wire[Len(tree) + 1],
         c.op \notin {"string", "name"}, ExpectsValue,
         \A b, d \in Seq(Frame) :
           Same(stack, b) /\ Owed(b, Len(tree)) = "value" /\ Wrote(b, Len(tree), c, d) => Same(stack', d),
         stack' \in Seq(Call), objects' \in Seq(Slots),
         Emit(c), UNCHANGED <<strings, status>>, UNCHANGED writerVars
  PROVE  IInv'
<1> DEFINE k == Len(tree)
<1>1. PICK then, known : History(then, known) /\ Follows(then, known)
  BY DEF IInv, InStep
<1>2. /\ Sent(written, source[k + 1], c, Len(strings), known[k + 2]) /\ c \in Cell
      /\ source[k + 1] \in Cell /\ then[k + 2] \in Seq(Frame)
  BY <1>1, CellOnWire
<1>3. source[k + 1] = c /\ known[k + 2] = Len(strings)
  <2>1. source[k + 1].op \notin {"string", "name"}
    BY <1>2 DEF Sent
  <2> QED
    BY <1>2, <2>1 DEF Sent
<1>4. Same(stack', then[k + 2])
  <2>1. PICK b \in Seq(Frame) : /\ Same(stack, b) /\ Owed(b, k) = Wants
                                /\ Wrote(b, k, source[k + 1], then[k + 2])
    BY <1>1, ReaderMeets
  <2> QED
    BY <1>2, <1>3, <2>1 DEF Wants
<1>5. status = "reading" /\ tree' = Append(tree, source[k + 1])
  BY <1>3 DEF ExpectsValue, Emit
<1>6. strings' = strings /\ strings \in Seq(Text) /\ \A i \in 1 .. Len(strings) : strings[i] = written[i]
  BY <1>1 DEF Follows, IInv, ReaderTypes
<1> QED
  BY <1>1, <1>3, <1>4, <1>5, <1>6, CellIsRead

\* The entry of a value in the object table, as it is begun.
LEMMA OneSlot ==
  ASSUME ReaderTypes, NEW k \in Leaves \cup {"array", "object"}, NEW from \in Nat, NEW open \in BOOLEAN
  PROVE  Append(objects, Entry(k, from, open)) \in Seq(Slots)
<1>1. Entry(k, from, open) \in Slots
  BY DEF Entry, Slots
<1> QED
  BY <1>1, Longer DEF ReaderTypes

LEMMA ReadAtomStep ==
  ASSUME IInv, phase # "writing", Len(tree) < Len(wire), NEW c, c = wire[Len(tree) + 1],
         ReadAtom(c) \/ ReadLeaf(c), UNCHANGED writerVars
  PROVE  IInv'
<1>1. /\ ExpectsValue /\ c.op \in {"atom", "leaf"} /\ stack' = Taken /\ Emit(c)
      /\ UNCHANGED <<strings, status>>
  BY DEF ReadAtom, ReadLeaf
<1>2. ReaderTypes /\ Len(tree) + 1 \in Nat
  BY LenProperties DEF IInv, ReaderTypes
<1>3. c \in Cell
  BY CellOnWire DEF IInv, InStep
<1>4. objects' \in Seq(Slots)
  <2>1. CASE ReadAtom(c)
    BY <1>2, <2>1 DEF ReadAtom, ReaderTypes
  <2>2. CASE ReadLeaf(c)
    <3>1. c.kind \in Leaves
      BY <1>3, <2>2 DEF ReadLeaf, Cell, Simple, Strings, Arrays, Objects
    <3> QED
      BY <1>2, <2>2, <3>1, OneSlot DEF ReadLeaf
  <2> QED
    BY <2>1, <2>2
<1>5. ASSUME NEW b \in Seq(Frame), NEW d \in Seq(Frame),
             Same(stack, b), Owed(b, Len(tree)) = "value", Wrote(b, Len(tree), c, d)
      PROVE  Taken \in Seq(Call) /\ Same(stack', d)
  <2>1. d = Without(b)
    BY <1>1, <1>5 DEF Wrote
  <2> QED
    BY <1>1, <1>2, <1>5, <2>1, OneTaken
<1>6. stack' \in Seq(Call)
  <2>1. \E b \in Seq(Frame) : Same(stack, b)
    BY DEF IInv, InStep, Follows
  <2> QED
    BY <1>1, <1>2, <2>1, OneTaken
<1> QED
  BY <1>1, <1>4, <1>5, <1>6, PlainIsRead

\* The call that reads an array or object joins the calls of the reader.
LEMMA CallIsMade ==
  ASSUME IInv, phase # "writing", Len(tree) < Len(wire), NEW c, c = wire[Len(tree) + 1],
         c.op \in {"array", "object"}, ExpectsValue, NEW f \in Call, NEW g \in Frame, Agree(f, g),
         \A b, d \in Seq(Frame) :
           Owed(b, Len(tree)) = "value" /\ Wrote(b, Len(tree), c, d) => d = Append(Without(b), g),
         stack' = Append(Taken, f), objects' \in Seq(Slots),
         Emit(c), UNCHANGED <<strings, status>>, UNCHANGED writerVars
  PROVE  IInv'
<1>1. ReaderTypes
  BY DEF IInv
<1>2. ASSUME NEW b \in Seq(Frame), NEW d \in Seq(Frame),
             Same(stack, b), Owed(b, Len(tree)) = "value", Wrote(b, Len(tree), c, d)
      PROVE  Same(stack', d)
  <2>1. d = Append(Without(b), g) /\ Without(b) \in Seq(Frame)
    BY <1>2, WithoutOne
  <2>2. Taken \in Seq(Call) /\ Same(Taken, Without(b))
    BY <1>1, <1>2, OneTaken
  <2> QED
    BY <2>1, <2>2, SameLonger
<1>3. stack' \in Seq(Call)
  <2>1. \E b \in Seq(Frame) : Same(stack, b)
    BY DEF IInv, InStep, Follows
  <2>2. Taken \in Seq(Call)
    BY <1>1, <2>1, OneTaken
  <2> QED
    BY <2>2, Longer
<1>4. c.op \notin {"string", "name"}
  OBVIOUS
<1> QED
  BY <1>2, <1>3, <1>4, PlainIsRead

LEMMA ReadArrayStep ==
  ASSUME IInv, phase # "writing", Len(tree) < Len(wire), NEW c, c = wire[Len(tree) + 1],
         ReadArray(c), UNCHANGED writerVars
  PROVE  IInv'
<1>1. /\ ExpectsValue /\ c.op = "array" /\ stack' = Append(Taken, ArrayCall(c)) /\ Emit(c)
      /\ UNCHANGED <<strings, status>>
  BY DEF ReadArray
<1>2. ReaderTypes /\ Len(tree) + 1 \in Nat /\ Len(objects) + 1 \in Nat
  BY LenProperties DEF IInv, ReaderTypes
<1>3. c \in Cell
  BY CellOnWire DEF IInv, InStep
<1>4. c.dense \in Nat
  BY <1>1, <1>3 DEF Cell, Simple, Strings, Arrays, Objects
<1> DEFINE f == ArrayCall(c)
           g == ArrayFrame(c.dense)
<1>5. f \in Call
  <2>1. <<>> \in Seq(Names) /\ 0 \in Nat
    BY SMT
  <2> QED
    BY <1>2, <1>4, <2>1 DEF ArrayCall, Traits, TraitsEntry, Call
<1>6. g \in Frame /\ Agree(f, g)
  <2>1. ~(0 > 0) /\ 0 \in Nat
    BY SMT
  <2> QED
    BY <1>4, <2>1 DEF ArrayFrame, ArrayCall, Frame, Agree
<1>7. ASSUME NEW b \in Seq(Frame), NEW d \in Seq(Frame), Wrote(b, Len(tree), c, d)
      PROVE  d = Append(Without(b), g)
  BY <1>1, <1>7 DEF Wrote
<1>8. objects' \in Seq(Slots)
  BY <1>2, OneSlot DEF ReadArray
<1> HIDE DEF f, g
<1>9. stack' = Append(Taken, f)
  BY <1>1 DEF f
<1> QED
  BY <1>1, <1>5, <1>6, <1>7, <1>8, <1>9, CallIsMade

LEMMA ReadObjectStep ==
  ASSUME IInv, phase # "writing", Len(tree) < Len(wire), NEW c, c = wire[Len(tree) + 1],
         ReadObject(c), UNCHANGED writerVars
  PROVE  IInv'
<1> DEFINE f == [ObjectCall(Traits(c.ext, c.dyn, <<>>), 0, Len(tree) + 1, 1 + c.sealed) EXCEPT !.run = FALSE]
           g == ObjectFrame(c.dyn, c.sealed)
<1>1. /\ ExpectsValue /\ c.op = "object" /\ stack' = Append(Taken, f) /\ Emit(c)
      /\ UNCHANGED <<strings, objects, status>>
  BY DEF ReadObject
<1>2. ReaderTypes /\ Len(tree) + 1 \in Nat
  BY LenProperties DEF IInv, ReaderTypes
<1>3. PICK then, known : History(then, known) /\ Follows(then, known)
  BY DEF IInv, InStep
<1>4. c \in Cell /\ source[Len(tree) + 1] = c
  <2>1. c \in Cell /\ Sent(written, source[Len(tree) + 1], c, Len(strings), known[Len(tree) + 2])
    BY <1>3, CellOnWire
  <2> QED
    BY <1>1, <2>1 DEF Sent
<1>5. c.ext \in BOOLEAN /\ c.dyn \in BOOLEAN /\ c.sealed \in Nat
  BY <1>1, <1>4 DEF Cell, Simple, Strings, Arrays, Objects
<1>6. c.ext => ~c.dyn /\ c.sealed = 0
  <2>1. \E b \in Seq(Frame) : Wrote(b, Len(tree), c, then[Len(tree) + 2])
    BY <1>1, <1>3, <1>4, ReaderMeets
  <2> QED
    BY <1>1, <2>1 DEF Wrote
<1>7. <<>> \in Seq(Names) /\ Len(<<>>) = 0 /\ 0 \in Nat /\ 1 + c.sealed \in Nat /\ 1 + c.sealed > 0
      /\ c.sealed + 1 = 0 + (1 + c.sealed) /\ 1 + c.sealed # 0
  BY <1>5, SMT
<1>8. /\ f.kind = "object" /\ f.names = 1 + c.sealed
      /\ f.entry = [ext |-> c.ext, dyn |-> c.dyn, names |-> <<>>]
      /\ f \in Call
  <2> DEFINE e == Traits(c.ext, c.dyn, <<>>)
             o == ObjectCall(e, 0, Len(tree) + 1, 1 + c.sealed)
  <2>1. e = [ext |-> c.ext, dyn |-> c.dyn, names |-> <<>>] /\ e.ext = c.ext /\ e.dyn = c.dyn /\ e.names = <<>>
    BY DEF Traits
  <2>2. e \in TraitsEntry
    BY <1>5, <1>7 DEF Traits, TraitsEntry
  <2> HIDE DEF e
  <2>3. (IF e.ext THEN 0 ELSE Len(e.names)) \in Nat /\ (e.dyn /\ ~e.ext) \in BOOLEAN
    BY <1>7, <2>1
  <2>4. o \in Call /\ o.kind = "object" /\ o.names = 1 + c.sealed /\ o.entry = e
    BY <1>2, <1>7, <2>2, <2>3 DEF ObjectCall, Call
  <2>5. f = [o EXCEPT !.run = FALSE]
    BY DEF e
  <2> HIDE DEF o
  <2>6. f \in Call /\ f.kind = o.kind /\ f.names = o.names /\ f.entry = o.entry
    BY <2>4, <2>5 DEF Call
  <2> QED
    BY <2>1, <2>4, <2>6
<1> HIDE DEF f
<1>9. Len(f.entry.names) = 0 /\ f.entry.dyn = c.dyn /\ f.entry.ext = c.ext
  BY <1>7, <1>8
<1>10. g \in Frame /\ Agree(f, g)
  <2>1. g \in Frame
    BY <1>5, <1>7 DEF ObjectFrame, Frame
  <2> QED
    BY <1>5, <1>6, <1>7, <1>8, <1>9, <2>1 DEF ObjectFrame, Agree
<1>11. ASSUME NEW b \in Seq(Frame), NEW d \in Seq(Frame), Wrote(b, Len(tree), c, d)
      PROVE  d = Append(Without(b), g)
  BY <1>1, <1>11 DEF Wrote
<1>12. objects' \in Seq(Slots)
  BY <1>1, <1>2 DEF ReaderTypes
<1> HIDE DEF g
<1>13. stack' = Append(Taken, f)
  BY <1>1 DEF f
<1> QED
  BY <1>1, <1>8, <1>10, <1>11, <1>12, <1>13, CallIsMade

\* A string value, a name or the terminator of a run.
Literal(c) == [op |-> c.op, at |-> 0, text |-> TextOf(c)]

LEMMA StringIsRead ==
  ASSUME IInv, phase # "writing", Len(tree) < Len(wire), NEW c, c = wire[Len(tree) + 1],
         c.op \in {"string", "name"}, ExpectsValue \/ ExpectsName,
         \A b, d \in Seq(Frame) :
           Same(stack, b) /\ Owed(b, Len(tree)) = Wants /\ Wrote(b, Len(tree), Literal(c), d)
             => Same(stack', d),
         stack' \in Seq(Call), objects' \in Seq(Slots),
         Remember(c), Emit(Literal(c)), UNCHANGED status, UNCHANGED writerVars
  PROVE  IInv'
<1> DEFINE k == Len(tree)
<1>1. PICK then, known : History(then, known) /\ Follows(then, known)
  BY DEF IInv, InStep
<1>2. source[k + 1] = Literal(c)
  BY <1>1, TextIsRead DEF Literal
<1>3. /\ strings' \in Seq(Text) /\ Len(strings') = known[k + 2]
      /\ \A i \in 1 .. Len(strings') : strings'[i] = written[i]
  BY <1>1, TextIsRead
<1>4. Same(stack', then[k + 2])
  <2>1. PICK b \in Seq(Frame) : /\ Same(stack, b) /\ Owed(b, k) = Wants
                                /\ Wrote(b, k, source[k + 1], then[k + 2])
    BY <1>1, ReaderMeets
  <2>2. then[k + 2] \in Seq(Frame)
    BY <1>1, CellOnWire
  <2> QED
    BY <1>2, <2>1, <2>2
<1>5. status = "reading" /\ tree' = Append(tree, source[k + 1])
  BY <1>2 DEF ExpectsValue, ExpectsName, Emit
<1> QED
  BY <1>1, <1>3, <1>4, <1>5, CellIsRead

LEMMA ReadStringStep ==
  ASSUME IInv, phase # "writing", Len(tree) < Len(wire), NEW c, c = wire[Len(tree) + 1],
         ReadString(c), UNCHANGED writerVars
  PROVE  IInv'
<1>1. /\ ExpectsValue /\ c.op = "string" /\ stack' = Taken /\ Remember(c) /\ Emit(Literal(c))
      /\ UNCHANGED <<objects, status>>
  BY DEF ReadString, StringCell, Literal
<1>2. ReaderTypes
  BY DEF IInv
<1>3. ASSUME NEW b \in Seq(Frame), NEW d \in Seq(Frame),
             Same(stack, b), Owed(b, Len(tree)) = Wants, Wrote(b, Len(tree), Literal(c), d)
      PROVE  Same(stack', d)
  <2>1. d = Without(b)
    BY <1>1, <1>3 DEF Wrote, Wants, Literal
  <2> QED
    BY <1>1, <1>2, <1>3, <2>1, OneTaken
<1>4. stack' \in Seq(Call)
  <2>1. \E b \in Seq(Frame) : Same(stack, b)
    BY DEF IInv, InStep, Follows
  <2> QED
    BY <1>1, <1>2, <2>1, OneTaken
<1>5. objects' \in Seq(Slots)
  BY <1>1, <1>2 DEF ReaderTypes
<1> QED
  BY <1>1, <1>3, <1>4, <1>5, StringIsRead

\* A name changes the last call, of the reader to f and of the writer to g.
LEMMA NameIsRead ==
  ASSUME IInv, phase # "writing", Len(tree) < Len(wire), NEW c, c = wire[Len(tree) + 1],
         c.op = "name", ExpectsName, ~ExpectsValue, NEW f \in Call,
         \A b, d \in Seq(Frame) :
           b # <<>> /\ Agree(Top, b[Len(b)]) /\ b[Len(b)] \in Frame
             /\ Owed(b, Len(tree)) = Wants /\ Wrote(b, Len(tree), Literal(c), d)
             => \E g \in Frame : d = LastIs(b, g) /\ Agree(f, g),
         stack' = LastIs(stack, f), objects' \in Seq(Slots),
         Remember(c), Emit(Literal(c)), UNCHANGED status, UNCHANGED writerVars
  PROVE  IInv'
<1>1. ReaderTypes /\ stack # <<>> /\ stack \in Seq(Call)
  BY DEF IInv, ExpectsName, ReaderTypes
<1>2. ASSUME NEW b \in Seq(Frame), NEW d \in Seq(Frame),
             Same(stack, b), Owed(b, Len(tree)) = Wants, Wrote(b, Len(tree), Literal(c), d)
      PROVE  Same(stack', d)
  <2>1. b # <<>> /\ Agree(Top, b[Len(b)]) /\ b[Len(b)] \in Frame
    BY <1>1, <1>2, TopAgrees
  <2>2. PICK g \in Frame : d = LastIs(b, g) /\ Agree(f, g)
    BY <1>2, <2>1
  <2>3. Same(LastIs(stack, f), LastIs(b, g))
    BY <1>1, <1>2, <2>1, <2>2, SameLast
  <2> QED
    BY <2>2, <2>3
<1>3. stack' \in Seq(Call)
  BY <1>1, LastIsLast
<1> QED
  BY <1>2, <1>3, StringIsRead

LEMMA NamesAreNoValues ==
  ASSUME ReaderTypes, ExpectsName
  PROVE  ~ExpectsValue /\ Top \in Call /\ stack # <<>> /\ (Top.names = 0 \/ Top.names > 0)
<1>1. stack # <<>> /\ WantsName(Top)
  BY DEF ExpectsName
<1>2. Top \in Call
  BY <1>1, LastIsLast DEF Top, ReaderTypes
<1>3. /\ Top.names \in Nat /\ Top.values \in Nat /\ Top.run \in BOOLEAN /\ Top.keyed \in BOOLEAN
      /\ Top.kind \in {"array", "object"}
  BY <1>2 DEF Call
<1>4. (Top.names = 0 \/ Top.names > 0) /\ ~(Top.names = 0 /\ Top.names > 0) /\ ~(Top.values = 0 /\ Top.values > 0)
  BY <1>3, SMT
<1>5. ~WantsValue(Top)
  BY <1>1, <1>3, <1>4 DEF WantsName, WantsValue
<1> QED
  BY <1>1, <1>2, <1>4, <1>5 DEF ExpectsValue

LEMMA ReadKeyStep ==
  ASSUME IInv, phase # "writing", Len(tree) < Len(wire), NEW c, c = wire[Len(tree) + 1],
         ReadKey(c), UNCHANGED writerVars
  PROVE  IInv'
<1> DEFINE f == IF TextOf(c) = NoText THEN [Top EXCEPT !.run = FALSE] ELSE [Top EXCEPT !.keyed = TRUE]
<1>1. /\ ExpectsName /\ c.op = "name" /\ stack' = LastIs(stack, f) /\ Remember(c) /\ Emit(Literal(c))
      /\ Top.names = 0 /\ UNCHANGED <<objects, status>>
  BY DEF ReadKey, NameCell, Literal, LastIs
<1>2. ReaderTypes /\ ~ExpectsValue /\ Top \in Call
  BY <1>1, NamesAreNoValues DEF IInv
<1>3. f \in Call
  BY <1>2 DEF Call
<1>4. ASSUME NEW b \in Seq(Frame), NEW d \in Seq(Frame), b # <<>>, Agree(Top, b[Len(b)]), b[Len(b)] \in Frame,
             Owed(b, Len(tree)) = Wants, Wrote(b, Len(tree), Literal(c), d)
      PROVE  \E g \in Frame : d = LastIs(b, g) /\ Agree(f, g)
  <2> DEFINE h == b[Len(b)]
             g == IF TextOf(c) = NoText THEN [h EXCEPT !.run = FALSE] ELSE [h EXCEPT !.keyed = TRUE]
  <2>1. Wants = "key"
    <3>1. ~(0 > 0)
      BY SMT
    <3> QED
      BY <1>1, <1>2, <3>1 DEF Wants
  <2>2. d = LastIs(b, g)
    BY <1>4, <2>1 DEF Wrote, Literal
  <2>3. g \in Frame
    BY <1>4 DEF Frame
  <2>4. Agree(f, g)
    <3>1. ~(0 > 0)
      BY SMT
    <3> QED
      BY <1>1, <1>2, <1>4, <3>1 DEF Agree, Call, Frame
  <2> QED
    BY <2>2, <2>3, <2>4
<1>5. objects' \in Seq(Slots)
  BY <1>1, <1>2 DEF ReaderTypes
<1> HIDE DEF f
<1> QED
  BY <1>1, <1>2, <1>3, <1>4, <1>5, NameIsRead

LEMMA OneName ==
  ASSUME NEW s \in Seq(Names), NEW x \in Names
  PROVE  /\ Append(s, x) \in Seq(Names) /\ Len(Append(s, x)) = Len(s) + 1
         /\ Tail(Append(s, x)) \in Seq(Names) /\ Len(Tail(Append(s, x))) = Len(s)
<1>1. Append(s, x) \in Seq(Names) /\ Len(Append(s, x)) = Len(s) + 1
  BY Longer
<1>2. Len(s) \in Nat
  BY LenProperties
<1>3. Append(s, x) # <<>>
  BY <1>1, <1>2, SMT
<1>4. Tail(Append(s, x)) \in Seq(Names) /\ Len(Tail(Append(s, x))) = Len(Append(s, x)) - 1
  BY <1>1, <1>3, HeadTailProperties
<1> QED
  BY <1>1, <1>2, <1>4, SMT

LEMMA ReadTraitNameStep ==
  ASSUME IInv, phase # "writing", Len(tree) < Len(wire), NEW c, c = wire[Len(tree) + 1],
         ReadTraitName(c), UNCHANGED writerVars
  PROVE  IInv'
<1>1. /\ ExpectsName /\ c.op = "name" /\ Remember(c) /\ Emit(Literal(c))
      /\ Top.names > 0 /\ UNCHANGED status
  BY DEF ReadTraitName, NameCell, Literal
<1>2. ReaderTypes /\ ~ExpectsValue /\ Top \in Call /\ Wants = "name"
  BY <1>1, NamesAreNoValues DEF IInv, Wants
<1> DEFINE entry == [Top.entry EXCEPT !.names = Append(@, TextOf(c))]
           whole == [entry EXCEPT !.names = Tail(@)]
<1>3. TextOf(c) \in Names
  <2>1. PICK then, known : History(then, known) /\ Follows(then, known)
    BY DEF IInv, InStep
  <2> QED
    BY <1>1, <2>1, TextIsRead
<1>4. Top.entry \in TraitsEntry /\ Top.entry.names \in Seq(Names)
      /\ Len(Top.entry.names) \in Nat /\ Top.names \in Nat
  <2>1. Top.entry \in TraitsEntry /\ Top.names \in Nat
    BY <1>2 DEF Call
  <2>2. Top.entry.names \in Seq(Names)
    BY <2>1 DEF TraitsEntry
  <2> QED
    BY <2>1, <2>2, LenProperties
<1>5. /\ entry \in TraitsEntry /\ Len(entry.names) = Len(Top.entry.names) + 1
      /\ entry.ext = Top.entry.ext /\ entry.dyn = Top.entry.dyn
      /\ entry.names = Append(Top.entry.names, TextOf(c))
  BY <1>3, <1>4, OneName DEF TraitsEntry
<1>6. /\ whole \in TraitsEntry /\ Len(whole.names) = Len(Top.entry.names)
      /\ whole.ext = Top.entry.ext /\ whole.dyn = Top.entry.dyn
  BY <1>3, <1>4, <1>5, OneName DEF TraitsEntry
<1> HIDE DEF entry, whole
\* What the writer does with its call.
<1>7. ASSUME NEW b \in Seq(Frame), NEW d \in Seq(Frame), b # <<>>, Agree(Top, b[Len(b)]), b[Len(b)] \in Frame,
             Owed(b, Len(tree)) = Wants, Wrote(b, Len(tree), Literal(c), d)
      PROVE  /\ d = LastIs(b, [b[Len(b)] EXCEPT !.names = @ - 1])
             /\ [b[Len(b)] EXCEPT !.names = @ - 1] \in Frame
  <2>1. d = LastIs(b, [b[Len(b)] EXCEPT !.names = @ - 1])
    BY <1>2, <1>7 DEF Wrote
  <2>2. b[Len(b)].names - 1 \in Nat
    BY <1>1, <1>4, <1>7, SMT DEF Agree
  <2> QED
    BY <1>7, <2>1, <2>2 DEF Frame
<1>8. CASE Top.names > 1
  <2> DEFINE f == [Top EXCEPT !.names = @ - 1, !.entry = entry]
  <2>1. stack' = LastIs(stack, f) /\ UNCHANGED <<objects, traits>>
    <3>1. Top.names # 1
      BY <1>4, <1>8, SMT
    <3> QED
      BY <3>1 DEF ReadTraitName, LastIs, entry
  <2>2. Top.names - 1 \in Nat /\ Top.names - 1 > 0
    BY <1>4, <1>8, SMT
  <2>3. f \in Call
    BY <1>2, <1>5, <2>2 DEF Call
  <2>4. ASSUME NEW b \in Seq(Frame), NEW d \in Seq(Frame), b # <<>>, Agree(Top, b[Len(b)]), b[Len(b)] \in Frame,
               Owed(b, Len(tree)) = Wants, Wrote(b, Len(tree), Literal(c), d)
        PROVE  \E g \in Frame : d = LastIs(b, g) /\ Agree(f, g)
    <3> DEFINE h == b[Len(b)]
               g == [h EXCEPT !.names = @ - 1]
    <3>1. d = LastIs(b, g) /\ g \in Frame
      BY <1>7, <2>4
    <3>2. h \in Frame /\ h.values \in Nat
      BY <2>4 DEF Frame
    <3>3. h.values + 1 = (Len(Top.entry.names) + 1) + (Top.names - 1)
      <4>1. h.values + 1 = Len(Top.entry.names) + Top.names
        BY <1>1, <2>4 DEF Agree
      <4>2. \A v, l, n \in Nat : v + 1 = l + n => v + 1 = (l + 1) + (n - 1)
        BY SMT
      <4> QED
        BY <1>4, <3>2, <4>1, <4>2
    <3>4. Agree(f, g)
      <4>1. /\ f.kind = Top.kind /\ f.names = Top.names - 1 /\ f.entry = entry /\ f.values = Top.values
            /\ f.run = Top.run /\ f.keyed = Top.keyed
        BY <1>2 DEF Call
      <4>2. /\ g.kind = h.kind /\ g.names = h.names - 1 /\ g.values = h.values
            /\ g.run = h.run /\ g.keyed = h.keyed
        BY <3>2 DEF Frame
      <4>3. Top.names - 1 # 0
        BY <2>2, SMT
      <4> HIDE DEF f, g, h
      <4>4. Agree(Top, h)
        BY <2>4 DEF h
      <4> QED
        BY <1>1, <1>5, <2>2, <3>3, <4>1, <4>2, <4>3, <4>4 DEF Agree
    <3> QED
      BY <3>1, <3>4
  <2>5. objects' \in Seq(Slots)
    BY <1>2, <2>1 DEF ReaderTypes
  <2> HIDE DEF f
  <2> QED
    BY <1>1, <1>2, <2>1, <2>3, <2>4, <2>5, NameIsRead
<1>9. CASE Top.names = 1
  <2> DEFINE f == ObjectCall(whole, Len(objects) + 1, Top.cell, 0)
  <2>1. stack' = LastIs(stack, f) /\ objects' = Append(objects, Entry("object", Top.cell, TRUE))
    <3>1. ~(Top.names > 1)
      BY <1>9, SMT
    <3> QED
      BY <3>1 DEF ReadTraitName, LastIs, entry, whole
  <2>2. Len(objects) + 1 \in Nat /\ Top.cell \in Nat
    BY <1>2, LenProperties DEF ReaderTypes, Call
  <2>3. /\ f.kind = "object" /\ f.names = 0 /\ f.values = (IF whole.ext THEN 0 ELSE Len(whole.names))
        /\ f.run = (whole.dyn /\ ~whole.ext) /\ f.keyed = FALSE
    BY DEF ObjectCall
  <2>4. f \in Call
    <3>1. (IF whole.ext THEN 0 ELSE Len(whole.names)) \in Nat /\ 0 \in Nat
      BY <1>4, <1>6
    <3> QED
      BY <1>6, <2>2, <3>1 DEF ObjectCall, Call
  <2>5. ASSUME NEW b \in Seq(Frame), NEW d \in Seq(Frame), b # <<>>, Agree(Top, b[Len(b)]), b[Len(b)] \in Frame,
               Owed(b, Len(tree)) = Wants, Wrote(b, Len(tree), Literal(c), d)
        PROVE  \E g \in Frame : d = LastIs(b, g) /\ Agree(f, g)
    <3> DEFINE h == b[Len(b)]
               g == [h EXCEPT !.names = @ - 1]
    <3>1. d = LastIs(b, g) /\ g \in Frame
      BY <1>7, <2>5
    <3>2. h \in Frame /\ h.values \in Nat /\ h.keyed \in BOOLEAN
      BY <2>5 DEF Frame
    <3>3. /\ h.kind = "object" /\ h.names = 1 /\ ~h.keyed /\ h.values + 1 = Len(Top.entry.names) + 1
          /\ h.run = (Top.entry.dyn /\ ~Top.entry.ext) /\ (Top.entry.ext => h.values = 0)
      BY <1>1, <1>9, <2>5 DEF Agree
    <3>4. h.values = Len(Top.entry.names)
      <4>1. \A v, l \in Nat : v + 1 = l + 1 => v = l
        BY SMT
      <4> QED
        BY <1>4, <3>2, <3>3, <4>1
    <3>5. Agree(f, g)
      <4>1. /\ g.kind = h.kind /\ g.names = h.names - 1 /\ g.values = h.values
            /\ g.run = h.run /\ g.keyed = h.keyed
        BY <3>2 DEF Frame
      <4>2. 1 - 1 = 0 /\ ~(0 > 0)
        BY SMT
      <4>3. f.values = h.values
        BY <1>6, <2>3, <3>3, <3>4
      <4> HIDE DEF f, g, h
      <4> QED
        BY <1>6, <2>3, <3>2, <3>3, <4>1, <4>2, <4>3 DEF Agree
    <3> QED
      BY <3>1, <3>5
  <2>6. objects' \in Seq(Slots)
    BY <1>2, <2>1, <2>2, OneSlot
  <2> HIDE DEF f
  <2>7. stack' = LastIs(stack, f)
    BY <2>1
  <2> QED
    BY <1>1, <1>2, <2>4, <2>5, <2>6, <2>7, NameIsRead
<1>10. Top.names > 1 \/ Top.names = 1
  BY <1>1, <1>4, SMT
<1> QED
  BY <1>8, <1>9, <1>10

\* No cell the writer emits is turned down, and none is a reference to a complex value.
LEMMA NothingIsTurnedDown ==
  ASSUME IInv, Len(tree) < Len(wire), NEW c, c = wire[Len(tree) + 1]
  PROVE  ~ReadReference(c) /\ ~ReadObjectByTraits(c) /\ ~Reject(c)
<1>1. PICK then, known : History(then, known) /\ Follows(then, known)
  BY DEF IInv, InStep
<1>2. /\ c \in Cell
      /\ Sent(written, source[Len(tree) + 1], c, Len(strings), known[Len(tree) + 2])
  BY <1>1, CellOnWire
<1>3. ~IsReference(c) \/ c.op \in {"string", "name"}
  BY <1>2, KindsOfCells
<1>4. c.op \in {"string", "name"} => ~IsReference(c)
  BY DEF IsReference
<1>5. c.op = "object" => c.by # "traits"
  BY <1>2, KindsOfCells
<1>6. c.op \in {"string", "name"} => Resolves(c)
  BY <1>1, TextIsRead
<1>7. ASSUME c.op = "object", c.ext, ExpectsValue PROVE c.sealed = 0
  <2>1. source[Len(tree) + 1] = c
    BY <1>2, <1>7 DEF Sent
  <2>2. \E b \in Seq(Frame) : Wrote(b, Len(tree), c, then[Len(tree) + 2])
    BY <1>1, <1>7, <2>1, ReaderMeets
  <2> QED
    BY <1>7, <2>2 DEF Wrote
<1>8. ~Reject(c)
  BY <1>3, <1>4, <1>5, <1>6, <1>7 DEF Reject, Invalid
<1> QED
  BY <1>3, <1>4, <1>5, <1>8 DEF ReadReference, ReadObjectByTraits

LEMMA ReadCellStep ==
  ASSUME IInv, phase # "writing", Len(tree) < Len(wire), ReadCell(wire[Len(tree) + 1]),
         UNCHANGED writerVars
  PROVE  IInv'
<1> DEFINE c == wire[Len(tree) + 1]
<1>1. ~ReadReference(c) /\ ~ReadObjectByTraits(c) /\ ~Reject(c)
  BY NothingIsTurnedDown
<1>2. CASE ReadAtom(c) \/ ReadLeaf(c)
  BY <1>2, ReadAtomStep
<1>3. CASE ReadString(c)
  BY <1>3, ReadStringStep
<1>4. CASE ReadArray(c)
  BY <1>4, ReadArrayStep
<1>5. CASE ReadObject(c)
  BY <1>5, ReadObjectStep
<1>6. CASE ReadTraitName(c)
  BY <1>6, ReadTraitNameStep
<1>7. CASE ReadKey(c)
  BY <1>7, ReadKeyStep
<1> QED
  BY <1>1, <1>2, <1>3, <1>4, <1>5, <1>6, <1>7 DEF ReadCell

\* The writer and the reader have nothing left of a whole value that is read.
LEMMA CallsThatOwe ==
  ASSUME IInv, NEW then, NEW known, History(then, known), Follows(then, known), stack = <<>>
  PROVE  /\ Returned(then[Len(tree) + 1], <<>>)
         /\ tree # <<>> => Len(tree) = Len(source) /\ phase # "refused"
<1> DEFINE k == Len(tree)
<1>1. WriterTypes /\ ReaderTypes /\ Lengths /\ Stopped
  BY AreLengths DEF IInv
<1>2. Returned(then[k + 1], <<>>)
  <2>1. PICK b \in Seq(Frame) : Returned(then[k + 1], b) /\ Same(stack, b)
    BY DEF Follows
  <2>2. b = <<>>
    BY <1>1, <2>1, TopAgrees
  <2> QED
    BY <2>1, <2>2
<1>3. ASSUME tree # <<>> PROVE k = Len(source)
  <2> SUFFICES ASSUME k # Len(source) PROVE FALSE
    OBVIOUS
  <2>1. k # 0
    BY <1>1, <1>3, EmptySeq DEF ReaderTypes
  <2>2. k <= Len(wire)
    BY DEF Follows
  <2>3. k + 1 \in 1 .. Len(source) /\ k + 1 - 1 = k
    BY <1>1, <2>2, SMT DEF Lengths, Stopped
  <2>4. \A i \in 1 .. Len(source) :
          \E b \in Seq(Frame) : Returned(then[i], b) /\ Wrote(b, i - 1, source[i], then[i + 1])
    BY DEF History
  <2>5. PICK b \in Seq(Frame) : Returned(then[k + 1], b) /\ Wrote(b, k, source[k + 1], then[k + 1 + 1])
    BY <2>3, <2>4
  <2>6. b # <<>> /\ FrameDue(b[Len(b)]) # "none"
    BY <2>1, <2>5 DEF Wrote, Owed
  <2> QED
    BY <1>2, <2>5, <2>6, OneBase
<1>4. ASSUME tree # <<>>, phase = "refused" PROVE FALSE
  <2>1. Returned(then[Len(source) + 1], calls) /\ Len(source) # 0
    BY <1>1, <1>3, <1>4, EmptySeq DEF History, ReaderTypes
  <2>2. Owed(calls, Len(source)) \in {"key", "value"}
    BY <1>1, <1>4 DEF Stopped
  <2>3. calls # <<>> /\ FrameDue(calls[Len(calls)]) # "none"
    BY <2>1, <2>2 DEF Owed
  <2> QED
    BY <1>2, <1>3, <1>4, <2>1, <2>3, OneBase
<1> QED
  BY <1>2, <1>3, <1>4

LEMMA TruncatedStep ==
  ASSUME IInv, phase # "writing", Len(tree) = Len(wire), Truncated, UNCHANGED writerVars
  PROVE  IInv'
<1>1. /\ status' = "invalid"
      /\ ExpectsValue \/ ExpectsName
      /\ UNCHANGED <<stack, strings, objects, tree>>
  BY DEF Truncated
<1>2. WriterTypes /\ ReaderTypes /\ Lengths /\ Stopped /\ UNCHANGED <<phase, calls, written, source, wire>>
  BY AreLengths DEF IInv, writerVars
<1>3. PICK then, known : History(then, known) /\ Follows(then, known)
  BY DEF IInv, InStep
<1>4. ASSUME Whole, phase = "reading" PROVE FALSE
  <2>1. Len(tree) = Len(source) /\ Len(source) # 0 /\ calls = <<>>
    BY <1>2, <1>4, EmptySeq DEF Whole, Stopped, WriterTypes
  <2>2. Returned(then[Len(tree) + 1], <<>>)
    BY <1>3, <2>1 DEF History
  <2>3. PICK b \in Seq(Frame) : Returned(then[Len(tree) + 1], b) /\ Same(stack, b)
    BY <1>3 DEF Follows
  <2>4. Owed(b, Len(tree)) = Wants /\ (b # <<>> => FrameDue(b[Len(b)]) # "none")
    BY <1>1, <1>2, <2>3, OwesWhatIsWanted
  <2>5. b = <<>>
    BY <2>2, <2>3, <2>4, OneBase
  <2> QED
    BY <2>1, <2>4, <2>5 DEF Owed, Wants
<1>5. WriterTypes' /\ ReaderTypes' /\ Stopped'
  BY <1>1, <1>2 DEF WriterTypes, ReaderTypes, Stopped
<1>6. Outcome'
  BY <1>1, <1>2, <1>4 DEF Outcome, Whole, WriterTypes
<1>7. History(then, known)' /\ Follows(then, known)'
  BY <1>1, <1>2, <1>3 DEF History, Follows
<1> QED
  BY <1>5, <1>6, <1>7 DEF IInv, InStep

LEMMA CompleteStep ==
  ASSUME IInv, phase # "writing", Complete, UNCHANGED writerVars
  PROVE  IInv'
<1>1. /\ status' = "done" /\ stack = <<>> /\ tree # <<>>
      /\ UNCHANGED <<stack, strings, objects, tree>>
  BY DEF Complete, Begun
<1>2. WriterTypes /\ ReaderTypes /\ Stopped /\ UNCHANGED <<phase, calls, written, source, wire>>
  BY DEF IInv, writerVars
<1>3. WriterTypes' /\ ReaderTypes' /\ Stopped' /\ Outcome'
  BY <1>1, <1>2 DEF WriterTypes, ReaderTypes, Stopped, Outcome
<1>4. PICK then, known : History(then, known) /\ Follows(then, known)
  BY DEF IInv, InStep
<1>5. History(then, known)' /\ Follows(then, known)'
  BY <1>1, <1>2, <1>4 DEF History, Follows
<1> QED
  BY <1>3, <1>5 DEF IInv, InStep

LEMMA ReturnStep ==
  ASSUME IInv, phase # "writing", Return, UNCHANGED writerVars
  PROVE  IInv'
<1>1. /\ status = "reading" /\ stack # <<>> /\ Finished(Top)
      /\ stack' = SubSeq(stack, 1, Len(stack) - 1)
      /\ objects' = [objects EXCEPT ![Top.slot].open = FALSE]
      /\ UNCHANGED <<strings, tree, status>>
  BY DEF Return
<1>2. WriterTypes /\ ReaderTypes /\ Stopped /\ UNCHANGED <<phase, calls, written, source, wire>>
  BY DEF IInv, writerVars
<1>3. PICK then, known : History(then, known) /\ Follows(then, known)
  BY DEF IInv, InStep
<1>4. PICK b \in Seq(Frame) : Returned(then[Len(tree) + 1], b) /\ Same(stack, b)
  BY <1>3 DEF Follows
<1>5. b # <<>> /\ Top \in Call /\ b[Len(b)] \in Frame /\ Agree(Top, b[Len(b)])
  BY <1>1, <1>2, <1>4, TopAgrees
<1>6. FrameDue(b[Len(b)]) = "none"
  BY <1>1, <1>5, DueOfCall
<1> DEFINE d == SubSeq(b, 1, Len(b) - 1)
<1>7. Returned(then[Len(tree) + 1], d) /\ d \in Seq(Frame)
  BY <1>4, <1>5, <1>6, OneMore DEF Returned
<1>8. stack' \in Seq(Call) /\ Same(stack', d)
  BY <1>1, <1>2, <1>4, SameFront DEF ReaderTypes
<1> HIDE DEF d
<1>9. objects' \in Seq(Slots)
  <2>1. objects \in Seq(Slots)
    BY <1>2 DEF ReaderTypes
  <2>2. CASE Top.slot \in 1 .. Len(objects)
    <3>1. objects[Top.slot] \in Slots
      BY <2>1, <2>2, ElementOfSeq
    <3>2. [objects[Top.slot] EXCEPT !.open = FALSE] \in Slots
      BY <3>1 DEF Slots
    <3>3. objects' = [objects EXCEPT ![Top.slot] = [objects[Top.slot] EXCEPT !.open = FALSE]]
      BY <1>1
    <3> QED
      BY <2>1, <2>2, <3>2, <3>3, ExceptSeq
  <2>3. CASE Top.slot \notin 1 .. Len(objects)
    <3>1. DOMAIN objects = 1 .. Len(objects) /\ objects = [i \in DOMAIN objects |-> objects[i]]
      BY <2>1, SeqDef, LenProperties
    <3>2. objects' = objects
      BY <1>1, <2>3, <3>1
    <3> QED
      BY <2>1, <3>2
  <2> QED
    BY <2>2, <2>3
<1>10. WriterTypes' /\ ReaderTypes' /\ Stopped' /\ Outcome'
  BY <1>1, <1>2, <1>8, <1>9 DEF WriterTypes, ReaderTypes, Stopped, Outcome, IInv
<1>11. History(then, known)' /\ Follows(then, known)'
  BY <1>1, <1>2, <1>3, <1>7, <1>8 DEF History, Follows
<1> QED
  BY <1>10, <1>11 DEF IInv, InStep

(***************************************************************************)
(* The theorems.                                                           *)
(***************************************************************************)
\* Every step of the writer and of the reader keeps the invariant.
LEMMA IInvStep ==
  ASSUME IInv, [CodecNext]_codecVars PROVE IInv'
<1>1. CASE Write
  <2>1. 0 .. MaxCount \subseteq Nat
    BY SMT
  <2> QED
    BY <1>1, <2>1, ScalarStep, StringStep, ArrayStep, ObjectStep, ExternalizableStep, TraitNameStep,
       KeyStep, EndOfRunStep, RefuseStep, WriterReturnStep, CutOffStep DEF Write, Names
<1>2. CASE ReadBack
  <2>1. phase # "writing" /\ UNCHANGED writerVars
    BY <1>2 DEF ReadBack
  <2>2. Len(tree) \in Nat /\ Len(wire) \in Nat
    BY LenProperties DEF IInv, WriterTypes, ReaderTypes
  <2> QED
    BY <1>2, <2>1, ReadCellStep, TruncatedStep, ReturnStep, CompleteStep DEF ReadBack
<1>3. CASE UNCHANGED codecVars
  <2>1. UNCHANGED <<stack, strings, objects, tree, status, phase, calls, written, source, wire>>
    BY <1>3 DEF codecVars, decoderVars, writerVars
  <2>2. WriterTypes' /\ ReaderTypes' /\ Stopped' /\ Outcome'
    BY <2>1 DEF IInv, WriterTypes, ReaderTypes, Stopped, Outcome, Whole
  <2>3. InStep'
    BY <2>1 DEF IInv, InStep, History, Follows
  <2> QED
    BY <2>2, <2>3 DEF IInv
<1> QED
  BY <1>1, <1>2, <1>3 DEF CodecNext

THEOREM CodecIsInStep == CodecSpec => []IInv
<1>1. IInv /\ [CodecNext]_codecVars => IInv'
  BY IInvStep
<1> QED
  BY <1>1, IInvStarts, PTL DEF CodecSpec

\* Types, and a reference to a string is never sent to a place the writer's table
\* does not have (write_string of EncState).
THEOREM CodecTypes == CodecSpec => []CodecTypeOK
<1>1. IInv => CodecTypeOK
  <2> SUFFICES ASSUME IInv PROVE CodecTypeOK
    OBVIOUS
  <2>1. WriterTypes /\ Stopped /\ Len(wire) \in Nat /\ Len(source) \in Nat /\ Len(written) \in Nat
    BY LenProperties DEF IInv, WriterTypes
  <2>2. \A i \in 1 .. Len(written) : written[i] \in Text
    BY <2>1, ElementOfSeq DEF WriterTypes
  <2>3. PICK then, known : History(then, known)
    BY DEF IInv, InStep
  <2>4. ASSUME NEW j \in 1 .. Len(wire), wire[j].op \in {"string", "name"}
        PROVE  wire[j].at \in 0 .. Len(written)
    <3>1. Sent(written, source[j], wire[j], known[j], known[j + 1])
      BY <2>3 DEF History
    <3>2. j \in 1 .. Len(source) /\ j \in 1 .. Len(source) + 1
      BY <2>1, SMT DEF Stopped
    <3>3. source[j].op \in {"string", "name"}
      <4>1. source[j].op \notin {"string", "name"} => wire[j] = source[j]
        BY <3>1 DEF Sent
      <4> QED
        BY <2>4, <4>1
    <3>4. wire[j].at = 0 \/ wire[j].at \in 1 .. known[j]
      BY <3>1, <3>3 DEF Sent
    <3>5. known[j] \in Nat /\ known[j] <= Len(written)
      BY <2>3, <3>2, ElementOfSeq DEF History
    <3> QED
      BY <2>1, <3>4, <3>5, SMT
  <2>5. phase = "writing" => Whole
    BY <2>1 DEF Stopped, Whole
  <2> QED
    BY <2>1, <2>2, <2>4, <2>5 DEF CodecTypeOK, WriterTypes
<1> QED
  BY <1>1, CodecIsInStep, PTL

\* What parse_amf3_value makes of the output of write_amf3_value is the value that
\* was written, whatever its size and depth; a part of a value never passes for one.
THEOREM CodecRoundTrip == CodecSpec => []RoundTrip
<1>1. IInv => RoundTrip
  <2> SUFFICES ASSUME IInv PROVE RoundTrip
    OBVIOUS
  <2>1. PICK then, known : History(then, known) /\ Follows(then, known)
    BY DEF IInv, InStep
  <2>2. \A j \in 1 .. Len(tree) : tree[j] = source[j]
    BY <2>1 DEF Follows
  <2>3. status = "done" => Len(tree) = Len(source) /\ phase # "refused"
    BY <2>1, CallsThatOwe DEF IInv, Outcome
  <2> QED
    BY <2>2, <2>3 DEF IInv, Outcome, RoundTrip
<1> QED
  BY <1>1, CodecIsInStep, PTL

\* EncState of the writer and State of the reader hold the same strings at the
\* same cell, so every reference means to the reader what it meant to the writer.
THEOREM CodecTablesAgree == CodecSpec => []TablesAgree
<1>1. IInv => TablesAgree
  <2> SUFFICES ASSUME IInv PROVE TablesAgree
    OBVIOUS
  <2>1. PICK then, known : History(then, known) /\ Follows(then, known)
    BY DEF IInv, InStep
  <2>2. WriterTypes /\ ReaderTypes /\ Lengths /\ Stopped
    BY AreLengths DEF IInv
  <2>3. Len(strings) = known[Len(tree) + 1] /\ \A i \in 1 .. Len(strings) : strings[i] = written[i]
    BY <2>1 DEF Follows
  <2>4. Len(strings) <= Len(written)
    <3>1. Len(tree) + 1 \in 1 .. Len(known)
      <4>1. Len(tree) <= Len(wire) /\ Len(wire) <= Len(source) /\ Len(known) = Len(source) + 1
        BY <2>1, <2>2 DEF Follows, History, Stopped
      <4> QED
        BY <2>2, <4>1, SMT DEF Lengths
    <3> QED
      BY <2>1, <2>3, <3>1 DEF History
  <2>5. ASSUME status = "done" PROVE strings = written
    <3>1. Len(tree) = Len(source)
      BY <2>1, <2>5, CallsThatOwe DEF IInv, Outcome
    <3>2. Len(strings) = Len(written)
      BY <2>1, <2>3, <3>1 DEF History
    <3> QED
      BY <2>2, <2>3, <3>2, SeqEqual DEF WriterTypes, ReaderTypes
  <2> QED
    BY <2>3, <2>4, <2>5 DEF TablesAgree
<1> QED
  BY <1>1, CodecIsInStep, PTL
=============================================================================
