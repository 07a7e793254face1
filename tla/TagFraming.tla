----------------------------- MODULE TagFraming -----------------------------
(***************************************************************************)
(* The bytes of a file behind its nine byte header: write_tag and          *)
(* write_filtered_tag put tags behind each other, and the three ways in    *)
(* which the demuxer gets past a tag find them again.                      *)
(***************************************************************************)
EXTENDS Integers, Sequences

CONSTANTS
  Radix,       \* how many values a byte has: 256
  IvLength,    \* bytes of an initialization vector: 16
  Tags,        \* what the writers may be given
  Files,       \* which sequences of them make a file
  Noise,       \* files that were not written by this code
  None         \* of an Option

\* The names of the two filters are made of the values that a byte has, without 0.
ASSUME WidthsAssumption == Radix \in Nat /\ Radix > 2 /\ IvLength \in Nat

ASSUME NoneAssumption == None \notin Nat /\ None \notin [1 .. IvLength -> Nat]

VARIABLES
  file,        \* its bytes, from PreviousTagSize0 on
  written,     \* the tags that were accepted
  cut,         \* the file ends before the last of them does
  phase,       \* what the file is used for, or how the last call ended
  cursor,      \* how many bytes the reader has consumed
  seen         \* what it made of each tag it came past

vars == <<file, written, cut, phase, cursor, seen>>

(***************************************************************************)
(* Fixed widths.  Number*(b, c) is what stands behind c bytes.  The lead   *)
(* byte of a tag has its three fields in bits, whatever Radix is.          *)
(***************************************************************************)
UI24Max == Radix * Radix * Radix - 1

UI24(n) == <<n \div (Radix * Radix), (n \div Radix) % Radix, n % Radix>>
UI32(n) == <<n \div (UI24Max + 1)>> \o UI24(n % (UI24Max + 1))

Number24(b, c) == Radix * Radix * b[c + 1] + Radix * b[c + 2] + b[c + 3]
Number32(b, c) == (UI24Max + 1) * b[c + 1] + Number24(b, c + 1)

FilterBit == 32
KindNumber == [audio |-> 8, video |-> 9, script |-> 18]
HeaderLength == 11
TrailerLength == 4

(***************************************************************************)
(* The EncryptionTagHeader.  The two names are spelled with fewer letters. *)
(***************************************************************************)
Encryption == <<Radix - 1, 1>>
Selective == <<Radix - 2>>

Flag == Radix \div 2

PreambleIsValid(p) ==
  /\ p.name \in {Encryption, Selective}
  /\ p.name = Encryption \/ p.encrypted => p.iv # None

FilterParams(p) ==
  IF p.name = Encryption THEN p.iv
  ELSE IF p.encrypted THEN <<Flag>> \o p.iv ELSE <<0>>

PreambleBytes(p) ==
  <<1>> \o p.name \o <<0>> \o UI24(Len(FilterParams(p))) \o FilterParams(p)

\* Where the name ends, counting the bytes up to and with its NUL; 0 for none.
NameEnd(b) ==
  IF \E i \in 2 .. Len(b) : b[i] = 0
  THEN CHOOSE i \in 2 .. Len(b) : b[i] = 0 /\ \A j \in 2 .. i - 1 : b[j] # 0
  ELSE 0

NameOf(b) == SubSeq(b, 2, NameEnd(b) - 1)

\* What is in front of the payload.
Consumed(b) == NameEnd(b) + 3 + Number24(b, NameEnd(b))

ParamsOf(b) == SubSeq(b, NameEnd(b) + 4, Consumed(b))

ParamsFit(b) == Len(b) >= NameEnd(b) + 3 /\ Len(b) >= Consumed(b)

IsFlagged(b) == ParamsOf(b)[1] >= Flag

Parses(b) ==
  /\ b # <<>> /\ b[1] = 1
  /\ NameEnd(b) # 0
  /\ ParamsFit(b)
  /\ \/ NameOf(b) = Encryption /\ Len(ParamsOf(b)) >= IvLength
     \/ /\ NameOf(b) = Selective /\ ParamsOf(b) # <<>>
        /\ IsFlagged(b) => Len(ParamsOf(b)) >= 1 + IvLength

Parsed(b) ==
  [name |-> NameOf(b),
   encrypted |-> NameOf(b) = Encryption \/ IsFlagged(b),
   iv |-> IF NameOf(b) = Encryption THEN SubSeq(ParamsOf(b), 1, IvLength)
          ELSE IF IsFlagged(b) THEN SubSeq(ParamsOf(b), 2, 1 + IvLength)
          ELSE None]

(***************************************************************************)
(* The arguments of the writers, by their types.                           *)
(***************************************************************************)
Preamble ==
  [name : Seq(Nat), encrypted : BOOLEAN, iv : [1 .. IvLength -> Nat] \cup {None}]

Tag ==
  [kind : DOMAIN KindNumber, preamble : Preamble \cup {None}, ts : Nat, stream : Nat,
   payload : Seq(Nat)]

ASSUME TagsAssumption == Tags \subseteq Tag

ASSUME NoiseAssumption == Noise \subseteq Seq(Nat)

(***************************************************************************)
(* Writing a tag.  preamble is None when the tag is not filtered.          *)
(***************************************************************************)
BodyOf(t) == (IF t.preamble = None THEN <<>> ELSE PreambleBytes(t.preamble)) \o t.payload

\* Mutant: off by one.
FitsBarely(n) == n <= UI24Max + 1

Fits(n) == n <= UI24Max

Writable(t) ==
  /\ t.preamble # None => PreambleIsValid(t.preamble)
  /\ Fits(Len(BodyOf(t)))
  /\ t.stream <= UI24Max

Header(t) ==
  <<KindNumber[t.kind] + (IF t.preamble = None THEN 0 ELSE FilterBit)>>
    \o UI24(Len(BodyOf(t)) % (UI24Max + 1))
    \o UI24(t.ts % (UI24Max + 1)) \o <<t.ts \div (UI24Max + 1)>>
    \o UI24(t.stream)

\* Mutant: the trailer counts the body only.
TrailerOfBody(t) == UI32(Len(BodyOf(t)))

Trailer(t) == UI32(HeaderLength + Len(BodyOf(t)))

Init ==
  /\ file = UI32(0)
  /\ written = <<>> /\ seen = <<>>
  /\ phase = "writing"
  /\ cut = FALSE /\ cursor = 0

WriteTag(t) ==
  /\ phase \in {"writing", "refused"}
  /\ Append(written, t) \in Files
  /\ Writable(t)
  /\ file' = file \o Header(t) \o BodyOf(t) \o Trailer(t)
  /\ written' = Append(written, t)
  /\ phase' = "writing"
  /\ UNCHANGED <<cut, cursor, seen>>

RefuseTag(t) ==
  /\ phase = "writing"
  /\ ~Writable(t)
  /\ phase' = "refused"
  /\ UNCHANGED <<file, written, cut, cursor, seen>>

\* The writer has stopped, on purpose or anywhere.
Deliver(m) ==
  /\ phase \in {"writing", "refused"}
  /\ file' = SubSeq(file, 1, m)
  /\ cut' = (m < Len(file))
  /\ phase' = "opening"
  /\ UNCHANGED <<written, cursor, seen>>

Receive(bytes) ==
  /\ phase = "writing" /\ written = <<>>
  /\ file' = bytes
  /\ written' = None
  /\ phase' = "opening"
  /\ UNCHANGED <<cut, cursor, seen>>

(***************************************************************************)
(* Reading.                                                                *)
(***************************************************************************)
Left(n) == cursor + n <= Len(file)

\* PreviousTagSize0 is not looked at.
Open ==
  /\ phase = "opening"
  /\ phase' = IF Left(TrailerLength) THEN "reading" ELSE "failed"
  /\ cursor' = IF Left(TrailerLength) THEN cursor + TrailerLength ELSE cursor
  /\ UNCHANGED <<file, written, cut, seen>>

Size == Number24(file, cursor + 1)

KindAt(c) ==
  IF \E k \in DOMAIN KindNumber : KindNumber[k] = file[c + 1] % 32
  THEN CHOOSE k \in DOMAIN KindNumber : KindNumber[k] = file[c + 1] % 32
  ELSE "unknown"

\* The header, without a body.
HeaderHere ==
  [at |-> cursor,
   kind |-> KindAt(cursor),
   filter |-> (file[cursor + 1] \div FilterBit) % 2 = 1,
   ts |-> (UI24Max + 1) * file[cursor + 8] + Number24(file, cursor + 4),
   stream |-> Number24(file, cursor + 8),
   lead |-> None, body |-> None]

BodyFits == Left(HeaderLength + Size)

\* Mutant: the trailer is not read.
TrailerIgnored == TRUE

TrailerFits == Left(HeaderLength + Size + TrailerLength)

\* Mutant: the size is taken for that of the whole tag.
PastBody == cursor + Size + TrailerLength

Past == cursor + HeaderLength + Size + TrailerLength

ReadTag ==
  /\ phase = "reading"
  /\ Left(HeaderLength) /\ BodyFits /\ TrailerFits
  /\ seen' = Append(seen, [HeaderHere EXCEPT
       !.body = SubSeq(file, cursor + HeaderLength + 1, cursor + HeaderLength + Size)])
  /\ cursor' = Past
  /\ UNCHANGED <<file, written, cut, phase>>

\* The skip goes as far as the header says, past the end if need be.
SkipTag ==
  /\ phase = "reading"
  /\ Left(HeaderLength)
  /\ seen' = Append(seen, HeaderHere)
  /\ cursor' = Past
  /\ UNCHANGED <<file, written, cut, phase>>

\* A scan looks at the first byte of a video body before it skips the tag.
PeekTag ==
  /\ phase = "reading"
  /\ Left(HeaderLength)
  /\ KindAt(cursor) = "video" /\ Size > 0 /\ Left(HeaderLength + 1)
  /\ seen' = Append(seen, [HeaderHere EXCEPT !.lead = file[cursor + HeaderLength + 1]])
  /\ cursor' = Past
  /\ UNCHANGED <<file, written, cut, phase>>

ReadEof ==
  /\ phase = "reading"
  /\ cursor >= Len(file)
  /\ phase' = "eof"
  /\ UNCHANGED <<file, written, cut, cursor, seen>>

\* A partial header, a body that is longer than the rest, a partial trailer, or
\* nothing to peek at.
ReadFails ==
  /\ phase = "reading"
  /\ cursor < Len(file)
  /\ \/ ~Left(HeaderLength)
     \/ Left(HeaderLength) /\ ~(BodyFits /\ TrailerFits)
  /\ phase' = "failed"
  /\ UNCHANGED <<file, written, cut, cursor, seen>>

Write ==
  \/ \E t \in Tags : WriteTag(t) \/ RefuseTag(t)
  \/ \E m \in 0 .. Len(file) : Deliver(m)
  \/ \E bytes \in Noise : Receive(bytes)

Next == Write \/ Open \/ ReadTag \/ SkipTag \/ PeekTag \/ ReadEof \/ ReadFails

Spec == Init /\ [][Next]_vars

-----------------------------------------------------------------------------
(***************************************************************************)
(* What should come of it.                                                 *)
(***************************************************************************)
Phases == {"writing", "refused", "opening", "reading", "eof", "failed"}

WasRead(x) == x.body # None

\* What the header of a tag says of its body.
BodySize(x) == Number24(file, x.at + 1)

NextAt(i) == IF i = Len(seen) THEN cursor ELSE seen[i + 1].at

\* Header, body and trailer of x lie behind each other up to where the next tag
\* begins; a body that was read is in the file, all of it.
Fills(x, next) ==
  /\ x.at + HeaderLength <= Len(file)
  /\ next = x.at + HeaderLength + BodySize(x) + TrailerLength
  /\ WasRead(x) =>
       /\ next <= Len(file)
       /\ x.body = SubSeq(file, x.at + HeaderLength + 1, x.at + HeaderLength + BodySize(x))

TagsTile ==
  /\ seen # <<>> => seen[1].at = TrailerLength
  /\ \A i \in 1 .. Len(seen) : Fills(seen[i], NextAt(i))

\* Where the ciphertext begins.
PayloadAt(x) == x.at + HeaderLength + Consumed(x.body)

\* A payload behind an EncryptionTagHeader ends with its body, and the vector that
\* goes with it is there just when it is needed: whole, behind the tag's header and in
\* front of the payload, however long FilterParams claim to be.
VectorFits(x, next) ==
  LET iv == Parsed(x.body).iv
  IN  /\ PayloadAt(x) <= next - TrailerLength
      /\ Parsed(x.body).encrypted <=> iv # None
      /\ iv # None =>
           /\ Len(iv) = IvLength
           /\ \E c \in x.at + HeaderLength .. PayloadAt(x) - IvLength :
                iv = SubSeq(file, c + 1, c + IvLength)

VectorsFit ==
  \A i \in 1 .. Len(seen) :
    WasRead(seen[i]) /\ Parses(seen[i].body) => VectorFits(seen[i], NextAt(i))

\* The type invariant, on any bytes: the tags that the reader comes past tile the file
\* from its first tag to the cursor, and no part of an EncryptionTagHeader or of what it
\* encrypts is outside of the body that it is in.
TypeOK ==
  /\ phase \in Phases
  /\ cursor \in Nat
  /\ TagsTile
  /\ VectorsFit

IsOurs == written # None

IsWhole == IsOurs /\ ~cut

\* The fields of a preamble agree: what to_bytes leaves out is not there.
Consistent(p) ==
  /\ p.name = Encryption => p.encrypted
  /\ p.encrypted <=> p.iv # None

\* x is what becomes of t when it is read, skipped or peeked at.
Matches(x, t) ==
  /\ x.kind = t.kind /\ x.ts = t.ts /\ x.stream = t.stream
  /\ x.filter <=> t.preamble # None
  /\ x.lead # None => BodyOf(t) # <<>> /\ x.lead = BodyOf(t)[1]
  /\ x.body # None => x.body = BodyOf(t)

\* write_filtered_tag is "the write-side inverse of the demuxer's filtered-tag
\* path": the preamble and what stands behind it come back.
CipherMatches(x, t) ==
  t.preamble # None /\ WasRead(x) =>
    /\ Parses(x.body)
    /\ SubSeq(x.body, Consumed(x.body) + 1, Len(x.body)) = t.payload
    /\ Consistent(t.preamble) => Parsed(x.body) = t.preamble

\* A whole file: each tag is found once, in order, with its kind, 32 bit time and
\* filter, in whatever way the reader gets past it, then comes Eof.
RoundTrip ==
  IsWhole =>
    /\ Len(seen) <= Len(written)
    /\ \A i \in 1 .. Len(seen) : Matches(seen[i], written[i]) /\ CipherMatches(seen[i], written[i])
    /\ phase = "eof" => Len(seen) = Len(written)
    /\ phase # "failed"

\* A writer that was stopped: what is found is what was written first, a tag that
\* is read is whole, and Eof behind it means that the file ends between two tags.
CutIsNoticed ==
  IsOurs =>
    /\ Len(seen) <= Len(written)
    /\ \A i \in 1 .. Len(seen) : Matches(seen[i], written[i]) /\ CipherMatches(seen[i], written[i])
    /\ phase = "eof" /\ seen # <<>> /\ WasRead(seen[Len(seen)]) =>
         cursor = Len(file)

\* PreviousTagSize is the size of the tag in front of it "exactly as a demuxer's
\* reverse walk expects": one step back from where the reader came to is where it
\* was before, and zero stands in front of the first tag.
BackPointersLead ==
  IsWhole /\ phase = "reading" =>
    Number32(file, cursor - TrailerLength) =
      IF seen = <<>> THEN 0 ELSE cursor - TrailerLength - seen[Len(seen)].at
=============================================================================
