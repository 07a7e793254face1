------------------------------ MODULE FlvSession ------------------------------
(***************************************************************************)
(* A producer writes a file with the writers of tag.rs and script.rs; a    *)
(* consumer opens it with open_concrete and reads it to the end, and looks *)
(* at what it was given: streams, packets, metadata, typed views.          *)
(***************************************************************************)
EXTENDS TypedMetadata, SessionCalls

CONSTANTS
  Modes,       \* what a producer may be about
  Calls,       \* Calls[mode]: the calls it makes
  AtMost       \* bound: AtMost[mode], how many of them

ASSUME CallsAssumption ==
  \A mode \in Modes :
    AtMost[mode] \in Nat /\ \A c \in Calls[mode] : c \in MediaCalls \/ IsScriptCall(c)

VARIABLES
  mode,        \* what this producer is about
  calls,       \* the calls so far that wrote a tag
  phase,       \* "writing", "opening", "reading", "failed"
  cursor,      \* the consumer's position: the next tag
  scanned,     \* how many tags discovery took
  found,       \* what discovery has found in script tags
  streams,     \* per kind, None or its StreamInfo
  bag,         \* metadata()
  packets      \* what next_packet has returned

producer == <<mode, calls>>
vars == <<producer, phase, cursor, scanned, found, streams, bag, packets>>

Tag0(i) == calls[i].tags[1]
Says(i) == calls[i].says

Init ==
  /\ mode \in Modes
  /\ calls = <<>>
  /\ phase = "writing"
  /\ cursor = 1 /\ scanned = 0
  /\ found = NothingFound
  /\ streams = [k \in Media |-> None]
  /\ bag = <<>>
  /\ packets = <<>>

(***************************************************************************)
(* The producer.                                                           *)
(***************************************************************************)
Produce ==
  /\ phase = "writing"
  /\ Len(calls) < AtMost[mode]
  /\ \E c \in Calls[mode] : c.tags # Refused /\ calls' = Append(calls, c)
  /\ UNCHANGED <<mode, phase, cursor, scanned, found, streams, bag, packets>>

Close ==
  /\ phase = "writing"
  /\ phase' = "opening"
  /\ UNCHANGED <<producer, cursor, scanned, found, streams, bag, packets>>

(***************************************************************************)
(* open_concrete.                                                          *)
(***************************************************************************)
HasStream(k) == streams[k] # None

Discovering ==
  phase = "opening" /\ cursor <= Len(calls) /\ ~(HasStream("audio") /\ HasStream("video"))

DiscoverScript ==
  /\ Discovering
  /\ Tag0(cursor).kind = "script"
  /\ found' = ParseScriptTag(found, Tag0(cursor).amf)
  /\ cursor' = cursor + 1 /\ scanned' = cursor
  /\ UNCHANGED <<producer, phase, streams, bag, packets>>

StreamOf(t) == IF t.kind = "audio" THEN AudioStream(t, found.bag) ELSE VideoStream(t, found.bag)

\* The first body of a kind makes its stream, from the metadata read so far.
DiscoverMedia ==
  /\ Discovering
  /\ Tag0(cursor).kind \in Media
  /\ LET t == Tag0(cursor) IN
       streams' = IF HasStream(t.kind) \/ t.fields = <<>> THEN streams
                  ELSE [streams EXCEPT ![t.kind] = <<StreamOf(t)>>]
  /\ cursor' = cursor + 1 /\ scanned' = cursor
  /\ UNCHANGED <<producer, phase, found, bag, packets>>

OpenDone ==
  /\ phase = "opening" /\ ~Discovering
  /\ \E k \in Media : HasStream(k)
  /\ phase' = "reading"
  /\ cursor' = 1
  /\ bag' = Published(found)
  /\ UNCHANGED <<producer, scanned, found, streams, packets>>

OpenFails ==
  /\ phase = "opening" /\ ~Discovering
  /\ \A k \in Media : ~HasStream(k)
  /\ phase' = "failed"
  /\ UNCHANGED <<producer, cursor, scanned, found, streams, bag, packets>>

(***************************************************************************)
(* next_packet, one step per tag.                                          *)
(***************************************************************************)
StreamIndex(k) == IF k = "video" /\ HasStream("audio") THEN 1 ELSE 0

\* The packet of the i-th tag, for the stream of that index.
PacketsOf(t, i, stream) ==
  LET b == [body |-> AsBody(t), kind |-> t.kind, ts |-> i]
  IN IF Yields(b)
     THEN << [packet |-> PacketOf(i, b, stream), data |-> DataOf(t), amf |-> t.amf] >>
     ELSE <<>>

IsLayout(t) == t.kind = "audio" /\ IsEx(t) /\ ExPacket(t) = MultichannelType
IsMetadata(t) == t.kind = "video" /\ IsEx(t) /\ ExPacket(t) = Metadata

ReadTag(t) ==
  /\ phase = "reading" /\ cursor <= Len(calls)
  /\ t = Tag0(cursor)
  /\ cursor' = cursor + 1
  /\ UNCHANGED <<producer, phase, scanned, found>>

\* Script tags are only read in discovery; tags without a stream are passed over.
ReadIgnored ==
  \E t \in {Tag0(i) : i \in {cursor} \cap DOMAIN calls} :
    /\ ReadTag(t)
    /\ t.kind \in Media => ~HasStream(t.kind)
    /\ UNCHANGED <<streams, bag, packets>>

ReadMedia ==
  \E t \in {Tag0(i) : i \in {cursor} \cap DOMAIN calls} :
    /\ ReadTag(t)
    /\ t.kind \in Media /\ HasStream(t.kind)
    /\ bag' = IF IsLayout(t) THEN HarvestLayout(bag, DataOf(t))
              ELSE IF IsMetadata(t) THEN HarvestPairs(bag, t.amf) ELSE bag
    /\ streams' = IF IsLayout(t)
                  THEN [streams EXCEPT !.audio[1].channels = ChannelsAfter(@, DataOf(t))]
                  ELSE streams
    /\ packets' = packets \o PacketsOf(t, cursor, StreamIndex(t.kind))

Next ==
  \/ Produce \/ Close
  \/ DiscoverScript \/ DiscoverMedia \/ OpenDone \/ OpenFails
  \/ ReadIgnored \/ ReadMedia

Spec == Init /\ [][Next]_vars
=============================================================================
