---------------------------- MODULE PacketStream ----------------------------
(***************************************************************************)
(* What the Demuxer trait promises a caller: a recording of replies, each  *)
(* at a position of its own, and the set of those still to come.           *)
(* next_packet gives the earliest reply that is left; when none is left it *)
(* gives Eof for ever; a reply that is an error is passed like any other.  *)
(* seek_to may go to any position, and only seek_to brings a reply back.   *)
(* How a recording is spread over the tags of a file, and that a call is a *)
(* loop, is not visible here.                                              *)
(***************************************************************************)
EXTENDS Integers

CONSTANTS
  Reply,        \* what next_packet may return while there is something left
  Eof,          \* what it returns at the end
  SeekReply,    \* what seek_to may return
  OpenReply     \* what open may return

VARIABLES phase, items, left, reply

streamVars == <<phase, items, left, reply>>

Nothing == [i \in {} |-> Eof]

StreamInit ==
  /\ phase = "opening"
  /\ items = Nothing
  /\ left = {}
  /\ reply \notin Reply \cup SeekReply \cup {Eof}

\* The recording is fixed when open returns.
OpenStream ==
  /\ phase = "opening"
  /\ \/ /\ phase' = "ready"
        /\ DOMAIN items' \subseteq Nat
        /\ \A i \in DOMAIN items' : items'[i] \in Reply
        /\ left' = DOMAIN items'
     \/ /\ phase' = "closed"
        /\ UNCHANGED <<items, left>>
  /\ reply' \in OpenReply

NextReply ==
  /\ phase = "ready"
  /\ \/ \E i \in left : /\ \A j \in left : i <= j
                        /\ reply' = items[i]
                        /\ left' = left \ {i}
     \/ /\ left = {}
        /\ reply' = Eof
        /\ UNCHANGED left
  /\ UNCHANGED <<phase, items>>

\* A seek that scans rewinds first.
StartSeek ==
  /\ phase = "ready"
  /\ phase' = "seeking"
  /\ left' = DOMAIN items
  /\ UNCHANGED <<items, reply>>

FinishSeek ==
  /\ phase \in {"ready", "seeking"}
  /\ phase' = "ready"
  /\ left' \subseteq DOMAIN items
  /\ \A i \in left', j \in DOMAIN items : i <= j => j \in left'
  /\ reply' \in SeekReply
  /\ UNCHANGED items

StreamNext == OpenStream \/ NextReply \/ StartSeek \/ FinishSeek

StreamSpec == StreamInit /\ [][StreamNext]_streamVars
=============================================================================
