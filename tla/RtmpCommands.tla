---------------------------- MODULE RtmpCommands ----------------------------
(***************************************************************************)
(* The connect command of connect.rs and the onStatus command of           *)
(* on_status.rs, written as AMF0 and taken apart again.                    *)
(*                                                                         *)
(* A name of the protocol, and a codec, is a text of one letter.  An       *)
(* Option is a sequence of at most one element.                            *)
(***************************************************************************)
EXTENDS Amf0Codec, Bitwise

Letter(i) == <<31 + i>>

ConnectName == Letter(1)
OnStatusName == Letter(2)
FourCcList == Letter(3)
VideoFourCcInfoMap == Letter(4)
AudioFourCcInfoMap == Letter(5)
CapsEx == Letter(6)
TcUrl == Letter(7)
Code == Letter(8)
Description == Letter(9)
Level == Letter(10)
Wildcard == Letter(11)
ReconnectRequest == Letter(12)
Status == Letter(13)

CanDecode == 1
CanEncode == 2
CanForward == 4

Reconnect == 1
Multitrack == 2
ModEx == 4
TimestampNanoOffset == 8

\* Stands for a number that is not finite, or above the 32 bits of a mask.
Unflaggable == 99999

(***************************************************************************)
(* ConnectCommandObject: maps are sequences of pairs in the order of the   *)
(* builder's calls.                                                        *)
(***************************************************************************)
Flagged(codec, mask) == [codec |-> codec, mask |-> mask]

Command0 == [extra |-> <<>>, list |-> <<>>, video |-> <<>>, audio |-> <<>>, caps |-> <<>>]

\* Mutant: the wildcard replaces what is said about the codec.
InfoMapCapsReplaced(map, codec) ==
  LET matching == SelectSeq(IF map = <<>> THEN <<>> ELSE map[1],
                            LAMBDA e : e.codec \in {codec, Wildcard})
  IN FoldLeft(LAMBDA caps, e : IF e.codec = Wildcard THEN e.mask ELSE caps | e.mask, 0, matching)

InfoMapCaps(map, codec) ==
  LET matching == SelectSeq(IF map = <<>> THEN <<>> ELSE map[1],
                            LAMBDA e : e.codec \in {codec, Wildcard})
  IN FoldLeft(LAMBDA caps, e : caps | e.mask, 0, matching)

Supports(cmd, feature) == cmd.caps # <<>> /\ (cmd.caps[1] & feature) # 0

Can(map, codec, what) == (InfoMapCaps(map, codec) & what) # 0

(***************************************************************************)
(* write_connect_command.                                                  *)
(***************************************************************************)
WriteProperty(name, out) == Then(WriteText16(name), out)

WriteObject(properties) ==
  InOrder(<<Mark("object")>> \o properties \o <<WriteObjectEnd>>)

\* ScalarValue; a string has no long form here.
WriteScalar(v) ==
  CASE v.m = "string"  -> WriteString(v.s)
    [] v.m = "number"  -> WriteNumber(v.n)
    [] v.m = "boolean" -> WriteBoolean(v.b)

WriteInfoMap(map) ==
  WriteObject([i \in 1 .. Len(map) |-> WriteProperty(map[i].codec, WriteNumber(map[i].mask))])

WriteStrings(texts) ==
  InOrder(<<Mark("strict"), Out(UI32(Len(texts)))>> \o [i \in 1 .. Len(texts) |-> WriteString(texts[i])])

IfSome(option, name, W(_)) ==
  [i \in 1 .. Len(option) |-> WriteProperty(name, W(option[i]))]

WriteCommandObject(cmd) ==
  WriteObject(
    [i \in 1 .. Len(cmd.extra) |-> WriteProperty(cmd.extra[i].key, WriteScalar(cmd.extra[i].value))]
      \o IfSome(cmd.list, FourCcList, WriteStrings)
      \o IfSome(cmd.video, VideoFourCcInfoMap, WriteInfoMap)
      \o IfSome(cmd.audio, AudioFourCcInfoMap, WriteInfoMap)
      \o IfSome(cmd.caps, CapsEx, WriteNumber))

WriteConnect(transaction, cmd) ==
  InOrder(<<WriteString(ConnectName), WriteNumber(transaction), WriteCommandObject(cmd)>>)

(***************************************************************************)
(* parse_connect_command.  An entry that does not fit is passed over, and  *)
(* of two that do the later one counts.                                    *)
(***************************************************************************)
HasMembers(v) == v.m \in {"object", "ecma"}

Flags(n) == IF n >= 0 /\ n # Unflaggable THEN n ELSE 0

ParseInfoMap(v) ==
  LET ms == SelectSeq(IF HasMembers(v) THEN v.members ELSE <<>>, LAMBDA e : e.value.m = "number")
  IN [i \in 1 .. Len(ms) |-> Flagged(ms[i].key, Flags(ms[i].value.n))]

ParseList(v) ==
  LET texts == SelectSeq(v.items, LAMBDA i : i.m = "string") IN [i \in 1 .. Len(texts) |-> texts[i].s]

Take(cmd, e) ==
  CASE e.key = FourCcList ->
         IF e.value.m = "strict" THEN [cmd EXCEPT !.list = <<ParseList(e.value)>>] ELSE cmd
    [] e.key = VideoFourCcInfoMap -> [cmd EXCEPT !.video = <<ParseInfoMap(e.value)>>]
    [] e.key = AudioFourCcInfoMap -> [cmd EXCEPT !.audio = <<ParseInfoMap(e.value)>>]
    [] e.key = CapsEx ->
         IF e.value.m = "number" THEN [cmd EXCEPT !.caps = <<Flags(e.value.n)>>] ELSE cmd
    [] OTHER ->
         IF e.value.m \in {"string", "number", "boolean"} THEN [cmd EXCEPT !.extra = Append(@, e)] ELSE cmd

\* The values of a command; the last of them is its object, and gives its members.
Arguments(b, name, count) ==
  LET valueAt == [p \in 0 .. Len(b) |-> Parse(b, p)]
      read[i \in 0 .. count] ==
        IF i = 0 THEN Got(<<>>, 0)
        ELSE LET r == valueAt[read[i - 1].p]
             IN IF read[i - 1].ok /\ r.ok THEN Got(Append(read[i - 1].v, r.v), r.p) ELSE Failed
  IN IF read[count].ok /\ read[count].v[1] = String(name) /\ HasMembers(read[count].v[count])
     THEN Got(read[count].v[count].members, read[count].p) ELSE Failed

ParseConnect(b) == Arguments(b, ConnectName, 3)

ConnectOf(members) == FoldLeft(Take, Command0, members)

(***************************************************************************)
(* OnStatusInfo, written and parsed.                                       *)
(***************************************************************************)
Info(code, level) ==
  [code |-> code, level |-> level, description |-> <<>>, tcUrl |-> <<>>, extra |-> <<>>]

ReconnectInfo(tcUrl, description) ==
  [Info(ReconnectRequest, Status) EXCEPT !.tcUrl = tcUrl, !.description = description]

WriteInfo(info) ==
  WriteObject(
    IfSome(info.tcUrl, TcUrl, WriteString)
      \o <<WriteProperty(Code, WriteString(info.code))>>
      \o IfSome(info.description, Description, WriteString)
      \o <<WriteProperty(Level, WriteString(info.level))>>
      \o [i \in 1 .. Len(info.extra) |-> WriteProperty(info.extra[i].key, WriteString(info.extra[i].value.s))])

WriteOnStatus(info) ==
  InOrder(<<WriteString(OnStatusName), WriteNumber(0), Mark("null"), WriteInfo(info)>>)

TakeInfo(info, e) ==
  CASE e.value.m # "string"  -> info
    [] e.key = Code          -> [info EXCEPT !.code = e.value.s]
    [] e.key = Level         -> [info EXCEPT !.level = e.value.s]
    [] e.key = Description   -> [info EXCEPT !.description = <<e.value.s>>]
    [] e.key = TcUrl         -> [info EXCEPT !.tcUrl = <<e.value.s>>]
    [] OTHER                 -> [info EXCEPT !.extra = Append(@, e)]

ParseOnStatus(b) == Arguments(b, OnStatusName, 4)

InfoOf(members) == FoldLeft(TakeInfo, Info(<<>>, <<>>), members)
=============================================================================
