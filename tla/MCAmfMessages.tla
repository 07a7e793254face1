--------------------------- MODULE MCAmfMessages ---------------------------
(***************************************************************************)
(* Values of every type and depth at the limits of their lengths, and      *)
(* commands that repeat, mix up or misuse their properties.                *)
(***************************************************************************)
EXTENDS AmfMessages

Short == Letter(20)
Other == Letter(21)
Long == [i \in 1 .. UI16Max + 1 |-> 40]
Limit == [i \in 1 .. UI16Max |-> 40]
Bad == <<40, Garbled>>

Scalars ==
  { Number(-3), Number(9), Boolean(TRUE), Boolean(FALSE), String(<<>>), String(Short), String(Long),
    Xml(Long), Null, Undefined, Unsupported, Reference(0), Date(0, -60), AvmPlus(1) }

Nested ==
  { Object(<<>>), Object(<<Member(<<>>, Null), Member(Short, Number(0)), Member(Short, Null)>>),
    EcmaArray(<<Member(Short, Boolean(TRUE)), Member(<<>>, EcmaArray(<<>>))>>),
    StrictArray(<<>>), StrictArray(<<Number(9), Object(<<>>), StrictArray(<<Null>>)>>),
    TypedObject(<<>>, <<Member(Limit, Number(9))>>), TypedObject(Short, <<>>),
    Object(<<Member(Short, Null), Member(Long, Null)>>) }

SomeUnreadable ==
  { Movieclip, AvmPlus(9), String(Bad), Object(<<Member(Short, Null), Member(Bad, Null)>>),
    StrictArray(<<Null, Movieclip>>) }

SomeValues == Scalars \cup Nested \cup SomeUnreadable

SomeForms == { [long |-> TRUE, surplus |-> 2, true |-> 7] }

SomeCommands ==
  { [Command0 EXCEPT !.extra = x, !.list = l, !.video = v, !.audio = a, !.caps = c] :
      x \in { <<>>, <<Member(Letter(22), String(Short)), Member(Letter(22), Number(-1))>>,
              <<Member(CapsEx, Number(15)), Member(VideoFourCcInfoMap, Boolean(TRUE))>>,
              <<Member(Letter(22), String(Long))>> },
      l \in { <<>>, <<<<Wildcard>>>>, <<<<Short, Other>>>> },
      v \in { <<>>, <<<<Flagged(Short, 1), Flagged(Other, 2), Flagged(Short, 4)>>>>,
              <<<<Flagged(Short, 1), Flagged(Wildcard, 4)>>>> },
      a \in { <<>>, <<<<Flagged(Other, 3)>>>> },
      c \in { <<>>, <<0>>, <<9>> } }

SomeInfos ==
  { [Info(Letter(22), Level) EXCEPT !.extra = x] :
      x \in { <<>>, <<Member(Short, String(Short))>>, <<Member(Code, String(Short))>>,
              <<Member(Short, String(Long))>> } }
    \cup { ReconnectInfo(u, d) : u \in { <<>>, <<Short>> }, d \in { <<>>, <<Limit>> } }

SomePairs ==
  { Member(k, v) :
      k \in { CapsEx, VideoFourCcInfoMap, FourCcList, Code },
      v \in { Number(6), Number(Unflaggable), Number(-1), String(Short),
              StrictArray(<<String(Short), Null, String(Wildcard)>>),
              EcmaArray(<<Member(Wildcard, Number(4)), Member(Short, Number(1)), Member(Other, Boolean(TRUE))>>) } }
=============================================================================
