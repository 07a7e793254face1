---------------------------- MODULE AmfMessages ----------------------------
(***************************************************************************)
(* Two peers: one writes AMF0 values one after the other, or a command, by *)
(* this code or by another; the other peer reads what arrives of it.       *)
(***************************************************************************)
EXTENDS RtmpCommands, FiniteSets

CONSTANTS
  Values,       \* what may be written as a script body
  Unreadable,   \* those of them that the reader does not know or accept
  Forms,        \* the legal forms other writers choose
  MaxValues,    \* bound: how many of them follow each other
  Commands,     \* connect objects of this code
  Infos,        \* onStatus objects of this code
  Pairs,        \* members in the commands of other writers
  MaxPairs      \* bound: how many of them are in one

ASSUME BoundAssumption == MaxValues \in Nat /\ MaxPairs \in Nat

VARIABLES
  kind,         \* "values", "connect" or "onStatus"
  meant,        \* the values, or the members of the command's object
  ends,         \* where each of the values ends
  wire,         \* the bytes
  phase,        \* "writing", "refused", "sent", or how the reading ended
  cursor,       \* how many bytes have been read
  got           \* the values read, or the command

vars == <<kind, meant, ends, wire, phase, cursor, got>>

Init ==
  /\ kind = "values" /\ meant = <<>> /\ ends = <<>> /\ wire = <<>>
  /\ phase = "writing" /\ cursor = 0 /\ got = <<>>

WriteValue(v, how) ==
  LET out == Write(v, how)
  IN /\ phase = "writing" /\ Len(meant) < MaxValues
     /\ wire' = wire \o out.bytes
     /\ IF out.ok
        THEN meant' = Append(meant, v) /\ ends' = Append(ends, Len(wire')) /\ UNCHANGED phase
        ELSE phase' = "refused" /\ UNCHANGED <<meant, ends>>
     /\ UNCHANGED <<kind, cursor, got>>

Finish ==
  /\ phase = "writing"
  /\ phase' = "sent"
  /\ UNCHANGED <<kind, meant, ends, wire, cursor, got>>

SendCommand(k, members, out) ==
  /\ phase = "writing" /\ meant = <<>>
  /\ kind' = k /\ meant' = members /\ wire' = out.bytes
  /\ phase' = IF out.ok THEN "sent" ELSE "refused"
  /\ UNCHANGED <<ends, cursor, got>>

\* What a connect object has been told, in the order in which it is written.
MembersOf(cmd) ==
  LET map(option, name) ==
        [i \in 1 .. Len(option) |->
           Member(name, Object([j \in 1 .. Len(option[i]) |->
                                  Member(option[i][j].codec, Number(option[i][j].mask))]))]
  IN cmd.extra
       \o [i \in 1 .. Len(cmd.list) |->
             Member(FourCcList, StrictArray([j \in 1 .. Len(cmd.list[i]) |-> String(cmd.list[i][j])]))]
       \o map(cmd.video, VideoFourCcInfoMap) \o map(cmd.audio, AudioFourCcInfoMap)
       \o [i \in 1 .. Len(cmd.caps) |-> Member(CapsEx, Number(cmd.caps[i]))]

MembersOfInfo(info) ==
  <<Member(Code, String(info.code)), Member(Level, String(info.level))>>
    \o [i \in 1 .. Len(info.description) |-> Member(Description, String(info.description[i]))]
    \o [i \in 1 .. Len(info.tcUrl) |-> Member(TcUrl, String(info.tcUrl[i]))]
    \o info.extra

SendConnect(cmd) == SendCommand("connect", MembersOf(cmd), WriteConnect(1, cmd))

SendOnStatus(info) == SendCommand("onStatus", MembersOfInfo(info), WriteOnStatus(info))

\* Another writer may use an ECMA array.
SendForeign(k, members, how) ==
  \E object \in {Object(members), EcmaArray(members)} :
    LET front == IF k = "connect" THEN <<String(ConnectName), Number(2)>>
                 ELSE <<String(OnStatusName), Number(0), Undefined>>
        values == Append(front, object)
    IN SendCommand(k, members, InOrder([i \in 1 .. Len(values) |-> Write(values[i], how)]))

\* Only a part of it arrives.
LoseTail ==
  /\ phase = "sent"
  /\ \E n \in 0 .. Len(wire) - 1 : wire' = SubSeq(wire, 1, n)
  /\ phase' = "cut"
  /\ UNCHANGED <<kind, meant, ends, cursor, got>>

Arrived == phase \in {"sent", "cut", "refused", "reading"}

ReadValue ==
  /\ Arrived /\ kind = "values"
  /\ LET r == Parse(wire, cursor)
     IN \/ /\ r.ok
           /\ got' = Append(got, r.v) /\ cursor' = r.p /\ phase' = "reading"
        \/ /\ ~r.ok
           /\ phase' = (IF cursor = Len(wire) THEN "done" ELSE "invalid")
           /\ UNCHANGED <<got, cursor>>
  /\ UNCHANGED <<kind, meant, ends, wire>>

ReadCommand ==
  /\ Arrived /\ kind # "values"
  /\ \E r \in {IF kind = "connect" THEN ParseConnect(wire) ELSE ParseOnStatus(wire)} :
       \/ /\ r.ok
          /\ got' = <<IF kind = "connect" THEN ConnectOf(r.v) ELSE InfoOf(r.v)>> /\ cursor' = r.p
          /\ phase' = (IF phase = "sent" THEN "done" ELSE "mistaken")
       \/ /\ ~r.ok
          /\ phase' = (IF phase = "sent" THEN "failed" ELSE "invalid")
          /\ UNCHANGED <<got, cursor>>
  /\ UNCHANGED <<kind, meant, ends, wire>>

Next ==
  \/ \E v \in Values, how \in Forms \cup {Own} : WriteValue(v, how)
  \/ Finish
  \/ \E cmd \in Commands : SendConnect(cmd)
  \/ \E info \in Infos : SendOnStatus(info)
  \/ \E members \in UNION {[1 .. n -> Pairs] : n \in 0 .. MaxPairs}, how \in Forms, k \in {"connect", "onStatus"} :
       SendForeign(k, members, how)
  \/ LoseTail
  \/ ReadValue
  \/ ReadCommand

Spec == Init /\ [][Next]_vars

-----------------------------------------------------------------------------
\* How many values have arrived as a whole.
Arrivals == Cardinality({i \in 1 .. Len(ends) : ends[i] <= Len(wire)})

\* parse_amf0_value inverts the writers and every other legal form: a value ends
\* where the next begins, so the values come back one by one, and reading stops
\* with an error only at one that was cut, refused half way or cannot be read.
ValuesComeBack ==
  kind = "values" =>
    /\ IsPrefix(got, meant)
    /\ phase = "done" => Len(got) = Arrivals
    /\ phase = "invalid" =>
         \/ Len(got) = Arrivals
         \/ Len(got) < Len(meant) /\ meant[Len(got) + 1] \in Unreadable

(***************************************************************************)
(* What the members of a command's object say: the last of that name       *)
(* counts, among those that have a fitting value.                          *)
(***************************************************************************)
Said(name, types) ==
  LET at == {i \in 1 .. Len(meant) : meant[i].key = name /\ meant[i].value.m \in types}
  IN IF at = {} THEN <<>> ELSE <<meant[CHOOSE i \in at : \A j \in at : j <= i].value>>

AnyType == {m : m \in DOMAIN Marker}

\* A flag is declared for a codec: under its own name or under the wildcard.
Declares(map, codec, flag) ==
  LET v == Said(map, AnyType)
  IN /\ v # <<>> /\ v[1].m \in {"object", "ecma"}
     /\ \E i \in 1 .. Len(v[1].members) :
          LET e == v[1].members[i]
          IN /\ e.key \in {codec, Wildcard} /\ e.value.m = "number"
             /\ e.value.n \in 0 .. Unflaggable - 1
             /\ (e.value.n \div flag) % 2 = 1

ScalarsBesides(names, types) ==
  SelectSeq(meant, LAMBDA e : e.key \notin names /\ e.value.m \in types)

Texts(option) == [i \in 1 .. Len(option) |-> option[i].s]

ConnectIsRead(cmd) ==
  /\ \A codec \in {Letter(20), Letter(21)}, flag \in {CanDecode, CanEncode, CanForward} :
       /\ Can(cmd.video, codec, flag) <=> Declares(VideoFourCcInfoMap, codec, flag)
       /\ Can(cmd.audio, codec, flag) <=> Declares(AudioFourCcInfoMap, codec, flag)
  /\ \A feature \in {Reconnect, Multitrack, ModEx, TimestampNanoOffset} :
       Supports(cmd, feature) <=>
         \E i \in 1 .. Len(Said(CapsEx, {"number"})) :
           LET n == Said(CapsEx, {"number"})[i].n
           IN n \in 0 .. Unflaggable - 1 /\ (n \div feature) % 2 = 1
  /\ Len(cmd.list) = Len(Said(FourCcList, {"strict"}))
  /\ \A i \in 1 .. Len(cmd.list) :
       cmd.list[i] = Texts(SelectSeq(Said(FourCcList, {"strict"})[i].items, LAMBDA v : v.m = "string"))
  /\ cmd.extra = ScalarsBesides({FourCcList, VideoFourCcInfoMap, AudioFourCcInfoMap, CapsEx},
                                {"string", "number", "boolean"})

OnStatusIsRead(info) ==
  /\ <<info.code>> = IF Said(Code, {"string"}) = <<>> THEN <<<<>>>> ELSE Texts(Said(Code, {"string"}))
  /\ <<info.level>> = IF Said(Level, {"string"}) = <<>> THEN <<<<>>>> ELSE Texts(Said(Level, {"string"}))
  /\ info.description = Texts(Said(Description, {"string"}))
  /\ info.tcUrl = Texts(Said(TcUrl, {"string"}))
  /\ info.extra = ScalarsBesides({Code, Level, Description, TcUrl}, {"string"})

\* A peer reads from a command what its last words say, whoever wrote it: a
\* capability exactly when one was declared for the codec or for all of them. A
\* command that was refused half way or cut off is never taken for one.
CommandsAreUnderstood ==
  /\ phase \notin {"mistaken", "failed"}
  /\ kind = "connect" /\ phase = "done" => ConnectIsRead(got[1])
  /\ kind = "onStatus" /\ phase = "done" => OnStatusIsRead(got[1])
=============================================================================
