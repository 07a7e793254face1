# Verification of oxideav-flv in TLA+

`oxideav-flv` reads and writes Flash Video files. The demuxer (`src/src/demuxer.rs`) is the
stateful part: it discovers the streams of a file, hands out packets, keeps side channels
that describe the last packet, and seeks, over input it cannot trust. Everything else in the
crate is a codec for one kind of body that the demuxer (or an application) calls.

Contents: [inventory](#inventory), [plan](#plan), what the modules model ([demuxer](#the-demuxer-model),
[sessions](#the-model-of-a-session), [AMF0 and commands](#the-model-of-amf0-and-commands), [AMF3](#the-amf3-model),
[enhanced bodies](#the-model-of-enhanced-bodies), [tag framing](#the-model-of-tag-framing)),
[what the runs check](#runs), [fairness](#fairness), [what is proved](#proofs),
[what the code and its documents disagree on](#findings), [what is left out](#not-modelled).

## Inventory

| component | state | operations | hard part | what makes it correct |
|---|---|---|---|---|
| **demuxer** `demuxer.rs` | reader position; streams with their indices; duration; keyframes table; encryption flag; metadata bag; `last_multitrack`, `last_mod_ex` | `open_concrete`, `next_packet`, `seek_to`, accessors | every operation is a loop over untrusted tags with early returns; each of them leaves state behind that the next call starts from | streams do not depend on luck; a packet goes to its own stream; side channels describe the packet returned last; a seek lands where it should from anywhere; every call returns |
| **tag reader** `tag.rs` | none | `TagHeader::read`, `AudioTagHeader::parse`, `VideoTagHeader::parse`, `EncryptedTagPreamble::parse` | partial headers, sizes beyond the file, bodies that end early | an error or a value, and the reader where the demuxer expects it |
| **enhanced headers** `ex_audio.rs`, `ex_video.rs` | none | `parse`, `to_bytes` | ModEx chain in front of a multitrack byte in front of a FourCC, each optional | `parse` undoes `to_bytes`; the body starts where the header ends |
| **multitrack** `multitrack.rs` | none | `split_tracks`, `join_tracks` | three layouts with and without FourCC and size per track | `split` undoes `join`; no track reads another's bytes |
| **ModEx** `mod_ex.rs` | none | `walk`, `emit` | size escape at 256 bytes, chain length | `walk` undoes `emit` |
| **AMF0** `amf0.rs` | none: a reference is handed to the caller as its index | decode, encode | nesting, truncated bodies, the AVM+ switch to an AMF3 value with fresh tables | decoding ends, and undoes encoding |
| **AMF3** `amf3.rs` | string, object and traits tables of the reader, string table of the writer, each for one value | `parse_amf3_value`, `write_amf3_value` | recursive values that take part in the numbering before they are complete; two tables that must stay in step without ever being sent | a reference gives the value that was meant; what is read back is what was written |
| **multichannel, colour info** `multichannel.rs`, `color_info.rs` | none | parse, serialise, apply to metadata | partial content replaces complete content | the demuxer reports the last frame read |
| **tag writers** `tag.rs` | none | `write_tag`, `write_filtered_tag`, `EncryptedTagPreamble::to_bytes`, a writer per codec | 24-bit sizes, 24+8-bit timestamps, signed composition times | the reader gives back what was written |
| **script builders** `script.rs` | the members added so far | `MetadataBag`, `ObjectBuilder`, `TrackInfoMap`, `write_on_metadata` and the other script tags | builder and demuxer validate separately; names may be given twice | a property comes back; what is accepted is usable |
| **script reading** `demuxer.rs` | metadata bag, images, keyframes table, encryption headline, XMP packet | `parse_script_body`, `harvest_*`, `build_audio_stream`, `build_video_stream` | entries of several tags, and of frames in mid-file, in one bag; first-wins and last-wins side by side | streams and bag tell the same story, that of the writer |
| **typed views** `typed_meta.rs` | none | accessors over the bag, track iterator | the first entry of a key against the first usable one | a view and a stream never show different numbers |
| **connect, onStatus** `connect.rs`, `on_status.rs` | the members added so far | build, write, parse, capability queries | repeated and mistyped properties of other writers, wildcards | a peer reads what the last words say |
| **header, lib** | none | nine bytes; registration | none | |

The components interact by calls only. One thread owns the demuxer (`&mut self`); there is
no callback, no lock and no message. What makes it hard to test is the *history*: any
sequence of `next_packet` and `seek_to` over any sequence of well-formed and broken tags,
with state that survives early returns, errors and seeks. `PROJECT.json` lists these places,
line by line, as hazards.

## Plan

1. *(done)* `FlvTags`, `FlvDemuxer`: discovery, reading, harvesting, side channels, both kinds of
   seek. `PacketStream`: the abstract promise of the `Demuxer` trait. Properties, runs, and
   proofs for every set of files.
2. *(done)* `ExBody`: the bodies of enhanced tags, with ModEx chains and tracks, and what a refused
   header leaves behind. `TagFraming`: tags behind each other in a file, EncryptionTagHeaders.
   All their invariants that hold are proved, for every body and every file.
3. *(done)* `Amf3Decoder`, `Amf3References`, `Amf3Codec`: reader and writer of one AMF3 value,
   their tables step by step. The numbering of the reader's object table is proved for messages of
   any length and depth. `Amf0Codec`, `RtmpCommands`, `AmfMessages`: AMF0 and the two commands.
4. *(done)* `TagWriters`, `SideFrames`, `ScriptWriters`, `MetadataReader`, `TypedMetadata`: the
   metadata bag with everything that writes to it and reads from it, and the stream descriptions.
   `FlvSession` composes them: a producer's calls, the demuxer's loops, and the views.
5. *(done)* The round trips as theorems, each by an invariant that keeps reader and writer in step:
   `RoundTrip`, `CutIsNoticed` and `BackPointersLead` of `TagFraming`, `RoundTrip` and
   `TablesAgree` of `Amf3Codec`, `RoundTrip` and `CutIsNoticed` of `ExBody`.
6. *(done)* What a session promises of media as theorems: `EveryWriteIsAnswered` and
   `StreamsAreAsWritten` of `FlvSessionProps`, by one lemma for each writer of `TagWriters`, with any
   arguments, and an invariant over calls of any number in any order. The values (`AmfValues`) and
   their flattening (`MetadataBag`) are written without recursive operators for this; the builders
   that need them are `ScriptBuilders`, behind the modules that are proved about.
7. *(open)* The other properties of `FlvSessionProps`, about what the metadata bag says, and those of `AmfMessages`:
   see the end of [proofs](#proofs). U29 and the 29-bit integers for every value. The attributes of
   tags that `FlvDemuxer` takes as given, computed from the bytes of `ExBody` and `TagFraming`;
   `FlvSession` computes those of the tags that the crate's own writers give.

## The demuxer model

`FlvTags` says what a file is: a sequence of tags, each with its kind, whether it can be read
(`size`), the outcome of its EncryptionTagHeader (`preamble`), its time, and the decisions the
code takes on its body or script. It holds the pure functions of `demuxer.rs` from one tag to
at most one packet. Bytes are gone; a position in the file is the index of a tag, and a packet,
a stream or a side channel names the tag it came from. A broken file is a sequence too: a tag
of size `over` is followed by whatever its own body parses as, because that is what the code
reads next, and fewer than eleven bytes are a `stray`.

`FlvDemuxer` is the state machine. One step is one turn of a loop of the code.

| variable | code |
|---|---|
| `cursor` | the reader's position |
| `pc` | which call is running (`opening`, `idle`, `reading`, `seeking`, `failed`) |
| `scanned`, `minted` | `tags_scanned`, and for each kind the tag its `StreamInfo` was built from |
| `duration`, `keyframeIndex`, `isEncrypted` | the fields of the same names |
| `colorInfo`, `layout`, `channels` | the frame behind `colorinfo.*`, `multichannelconfig.*` and the channel count |
| `lastMultitrack`, `lastModEx` | the tag that `last_multitrack_tracks()` and `last_mod_ex_entries()` describe |
| `target`, `landed` | argument and result of the last seek |
| `result`, `packet` | what the last call returned |
| `start` | history, not in the code: where the current run of reading began |

| actions | code |
|---|---|
| `DiscoverUnknown`, `DiscoverScript`, `DiscoverMedia`, `OpenUnreadable`, `OpenMalformed`, `OpenDone` | the arms, error returns and end of `open_concrete` |
| `CallNext`, `ReadEof`, `ReadUnreadable`, `ReadIgnored`, `ReadFiltered`, `ReadMedia` | the arms of `next_packet`, in the order of the code: filter bit, routing, harvest, build, side channels |
| `SeekRejected`, `SeekByIndex`, `SeekByScan` | the head of `seek_to`: index check, keyframes table, rewind |
| `ScanEof`, `ScanUnreadable`, `ScanMatch`, `ScanSkip` | the arms of its scan loop |

Times in a keyframes table are floating point seconds in the code. They are compared as such
and rounded to milliseconds only for the returned timestamp; the model counts them in half
milliseconds, so that entries between two milliseconds exist, and rounds halves away from zero
as `f64::round` does.

`PacketStream` is the promise of the `oxideav_core::Demuxer` trait, which is not part of this
repository: a recording of replies at positions; `next_packet` gives the earliest that is left,
errors included, then Eof for ever; only a seek brings a reply back. `FlvDemuxerProps` maps the
demuxer to it (`Stream == INSTANCE PacketStream WITH ...`): the recording is the set of tags
that answer a call, and what is left are those at or behind `cursor`.

`FlvDemuxerProps` states the properties, `MCFlvDemuxer` the pools of tags for the runs.

## The model of a session

`FlvSession` is a file from one end to the other. A producer calls writers; each call is the tag
it gave and what its caller may expect of it at the other end (`says`). The consumer runs
`open_concrete` and `next_packet` to the end of the file and looks at what it was given. The
bytes of framing are `TagFraming`'s, the reader's errors are `FlvDemuxer`'s; what
is looked at here is what the two ends say about the *content*.

| module | code |
|---|---|
| `AmfValues` | the values of `AmfValue` and `Amf3Value` |
| `MetadataBag` | the metadata bag, and `flatten_amf_value` and `flatten_amf3_value`: how a value becomes its entries, under a key that is a sequence of its parts |
| `TagWriters` | every writer of `tag.rs` for media, by the fields it puts in front of its payload; `AudioTagHeader`, `VideoTagHeader` and codec names; `AsBody`, the decisions the demuxer takes on such a tag, given to `FlvTags` for the packet |
| `SideFrames` | `MultichannelConfig` and `ColorInfo` with their validation, and how the demuxer harvests them into the bag and the stream |
| `ScriptWriters`, `ScriptBuilders` | the builders and tags of `script.rs`; a builder that returns an error gives no tag. The second has those that walk a value (`write_meta_value` and what calls it) |
| `MetadataReader` | `parse_script_body` with `parse_keyframes_object`, cue points, images, XMP, the encryption headline; `build_audio_stream` and `build_video_stream` |
| `TypedMetadata` | the accessors of `typed_meta.rs`, by what they let through; track maps and their iterator; the colour view |
| `SessionCalls` | the writers of `tag.rs` for media with all their arguments (`MediaCalls`), each with what its caller may expect |
| `FlvSession`, `FlvSessionProps`, `MCFlvSession` | the state machine, its properties, three producers |

| variable | meaning |
|---|---|
| `mode`, `calls` | what the producer is about, and the calls that gave a tag |
| `phase`, `cursor`, `scanned` | the consumer's loop, its position, how many tags discovery took |
| `found` | what discovery has found in script tags |
| `streams`, `bag`, `packets` | `streams()`, `metadata()`, and what `next_packet` has returned |

`Produce` and `Close` are the producer, `DiscoverScript`, `DiscoverMedia`, `OpenDone` and
`OpenFails` the discovery loop, `ReadIgnored` and `ReadMedia` turns of `next_packet`. A time is
the index of its tag. Numbers of the bag are integers, HDR numbers ten-thousandths; `Infinite`
stands for NaN and the infinities, `MaxU32` for the greatest number that 32 bits hold: TLC's integers end
before it, so it is set just below their end, and one number in between is finite and does not fit. The
bounds of 64 bits, for `filesize` and `moovposition`, are left out. Frame rates are not snapped to fractions. The cap of 256 tags is
left to `FlvDemuxer`.

`Flatten` opens a value one level after the other, the class of an object in front of its members,
until only scalars are left; the code does the same by recursion, in the same order. It does so
`MaxDepth` times, which is the depth of the deepest value a run writes; the code has no such limit
but that of its own readers.

## The model of AMF0 and commands

`Amf0Codec` is `amf0.rs` on bytes: every writer, and `parse_amf0_value` with every marker. A
length has two or four bytes of `Radix` values, so that the 16-bit limit can be reached; a
double, a time zone and an index are one byte, and `Garbled` is a byte of no UTF-8 text. Writers return what they
appended also when they fail (`Then` stops at the first failure but keeps the bytes), because
that is what the caller's buffer holds. `Write(v, how)` covers the legal forms of other writers as
well: long strings for short ones, surplus counts of ECMA arrays, other bytes for true. Of an AMF3
value behind the AVM+ marker only its marker is there; the rest is the AMF3 model.

`RtmpCommands` is `connect.rs` and `on_status.rs` on top of it. Names of the protocol are texts of
one letter; an entry may repeat a name or have a value of the wrong type.

`AmfMessages` are two peers. `WriteValue` and `Finish` send values one after the other,
`SendConnect` and `SendOnStatus` a command of this code, `SendForeign` one of another writer,
with any members; a refusal leaves what was written so far on the wire, and `LoseTail` cuts the wire
anywhere. `ReadValue` and `ReadCommand` are the other peer. What a command means is defined on
its members (`Said`, `Declares`), not on bytes.

## The AMF3 model

`Amf3Decoder` is `parse_amf3_value`. Its recursion is the variable `stack`: a call of
`read_array` or `read_object` is a record that says what it reads next, and a step reads one
*cell* of the wire (a marker with its U29 header and scalar body, or one name) or lets a call
return. `strings`, `objects` and `traits` are the three tables of `State`. An entry of the object table says
where in the value its literal began (`from`) and whether it still is the placeholder
(`open`); `tree` is the value read so far, with names resolved and each reference replaced by
an alias of the cell it stands for. References count from 1 in the model, 0 marks a literal.

| actions | code |
|---|---|
| `ReadAtom`, `ReadString`, `ReadLeaf`, `ReadReference`, `ReadArray` | the arms of `parse_value`; the xml arms store what they return in either case (`StoredAgain`) |
| `ReadObject`, `ReadObjectByTraits`, `ReadTraitName` | `read_object` up to the slot |
| `ReadKey`, `Return` | the loops over members and the end of `read_array` and `read_object`, where the slot is filled |
| `Reject`, `Truncated`, `Complete` | errors and the end of the value |

`Amf3References` lets the decoder read any message over a set of cells. `Amf3Codec` puts
the writer in front of it: the value is chosen cell by cell while `write_value` walks it
(`calls` is its recursion, `written` is `EncState`), so the writer is followed on every value
up to the bound. Then the wire, whole or cut off anywhere, goes to the reader. A cell that
does not fit the call that is to read it would stop the reader, which
`ReadsToTheEnd` would show. With `Refuse` the writer returns an error; what it has written so far
is in the caller's buffer, goes to the reader as well, and must not pass for a value.

## The model of enhanced bodies

`ExBody` follows one body from writer to reader, in bytes, because what can go wrong is where a
field begins. A header of any form is given to `to_bytes` (`Steps` are its steps in order, each the
bytes it appends or an error; `Accepted` says that there is none, `HeaderBytes` is what comes in front of the
first) with tracks for `join_tracks` or a payload; the body arrives
whole, cut off anywhere (`CutOff`), or is one of another writer (`Receive`); the bytes that a
refused header leaves behind (`Refuse`) are read, too. The reader is a
cursor: `ParseLead`, `WalkEntry` (one turn of the ModEx loop), `ParseMultitrack`, `ParseFourCc`,
`ParseCto`, `ParseCommand` and `EndHeader` are `parse` in its order, `ParseFails` its error
returns, `SplitTrack` one turn of `split_tracks`, `SplitFails` its errors. On these `next_packet` gives
no packet for the tag; where a decoder configuration or a speaker layout is looked for, the rest of the
body is taken as one piece (`default_track_payload`). Audio and video are one model, since the two files
differ in the packet type of multitrack and in the fields video adds. A FourCC is four bytes,
packet and frame types are numbers, so that a reserved type and a named one with the same
number are the same thing, as they are on the wire.

## The model of tag framing

`TagFraming` is the file behind its nine bytes. `WriteTag` is `write_tag`, and with a preamble
`write_filtered_tag`; `RefuseTag` is any of their errors, all of which come before a byte is
written. `Deliver` hands what there is to the reader, whole or cut off anywhere. The reader has
the three ways of the code to get past a tag: `ReadTag` (header, body, PreviousTagSize),
`SkipTag` (unknown types, tags a scan has no use for) and `PeekTag` (the first byte of a video
body in a scan), in any mix. A tag in `seen` has a `body` if it was read and a `lead` byte if it was
peeked at. The reader stops at the first error; what calls after an error find is the
subject of `FlvDemuxer`. This is also the ground for what `FlvTags` says of tags: `size` is
"fit" where `ReadTag` is possible, "over" and "cut" where `BodyFits` and `TrailerFits` fail,
a `stray` is what has no room for a header, and `preamble` is `Parses`.

The number of values of a byte is the constant `Radix`. With 256 the limits of 24 and 32 bits
could not be reached in a run; nothing in the code depends on the number but those limits.
`Tag` and `Preamble` are the types of what the writers are given; the theorems hold for any
tags of these types.

## Runs

The demuxer runs explore all files of up to three (or four) tags from a pool chosen for one
question, and all interleavings of the calls on them. Three tags are enough for "before, at,
after" of every property that relates a tag to an earlier one; four where a property relates
two tags across a third one and a scan or a cap.

| run | question | instances | states |
|---|---|---|---|
| `demux_reading` | Do packets, their stream, their flags, the side channels and the reported metadata match what was read, after any reads and seeks? Does discovery depend on file order only, and miss a stream only at the cap? | length 3: tracks, ModEx, both, neither, no packet, good and bad ciphertext; length 3: MultichannelConfig and Metadata with content, zero channels, unparsable, filtered, multitrack; length 4: all kinds; cap of 2 | 1,249,573 |
| `demux_seek` | Does a seek land at or before the target through the table, and on the first fitting tag of the whole file by scan? What does a failed scan leave? | tables with equal, negative, fractional, unsorted times and an offset past the end, length 3; keyframes of every form, audio, broken tags, strays, length 4 | 2,432,479 |
| `demux_stream` | Does the demuxer implement `PacketStream`? Does every call return, does a drain end? | everything `next_packet` tells apart, malformed Ex headers among it, with fairness; length 3 | 84,401 |
| `write_read` | Does the consumer learn what the producer wrote: packets, streams, channel counts, metadata, views? | every writer of media in pairs; every builder of `script.rs`, and layout and colour frames of this code and of others, in threes | 214,755 |
| `amf0_roundtrip` | Do values and commands of any writer come back, and nothing for less? | pairs of values of every type at the limits of their lengths; commands with every combination of capabilities; foreign commands of two members, repeated and mistyped | 214,867 |
| `amf3_references` | Do references of every kind give what the message means, through any nesting? | messages of up to 7 cells, references resolving and not | 113,620 |
| `amf3_roundtrip` | Does the reader give back what the writer was given, and nothing for less? | values of up to 7 cells over two strings, whole, refused or cut off | 536,721 |
| `ex_bodies` | Does `parse` with `split_tracks` undo `to_bytes` with `join_tracks`? Is a cut or a refusal noticed? Do tracks tile any body? | every combination of form, type, layout, FourCC, offset and command; batches of up to two tracks; foreign bodies of up to eleven bytes | 142,490 |
| `tag_framing` | Is every tag found once, in any mix of reading, skipping and peeking? Is a cut noticed? Do the back pointers lead back? | two tags of any kind at the limits of their fields, or three short ones; foreign files with any sizes and any FilterParams | 168,473 |
| `stale_side_channels`, `amf3_xml_reference`, `ex_accepted` | one sentence of the documentation each, refuted: see [findings](#findings) | | |

Bounds: the length of files and the pools (`MCFlvDemuxer`); `MaxDiscoveryTags`, 256 in the
code, is 2 in `demux_reading` so that the cap is met, and the code's 256 elsewhere; `SeekStreams` contains an index
that is in range and, where rejection matters, one that is not; `SeekTimes` lie before, at,
between and after the times in the pool, and include a negative one where the clamp matters.
Seven cells (`MaxCells`) hold an array in an array with a member in each, an object
with a class, a sealed name, its value and a dynamic member, and a string that comes back as
value, key and name; two strings tell every mix-up of indices from the right one; `MaxCount`
= 1 dense or sealed value per cell leaves these cells to nesting (the messages of
`amf3_references` have up to two). In `ex_bodies` entries and tracks have sizes on both sides of 255, 256
and of one byte, offsets are the least, the greatest and -1; foreign bodies begin with every lead byte
that opens a header. `MaxNanos` is the saturation limit (`u32::MAX` in the code, beyond the
integers of TLC), set so that two entries meet it. In `tag_framing` a byte has four values and an IV two
bytes, so that 63, 64 and 255 are the limits of 24 and 32 bits; in `amf0_roundtrip` it has three, so
that 8 is the longest short string. `AtMost` is the number of calls in a file of `write_read`: two for
media, where a property relates a tag to the stream's first or to one onMetaData in front of or behind
it; three for script tags and frames, where two tags of a kind meet and media must follow; `CueNumbers` and
`TrackIds` are more than three calls can use. `MaxDepth` is 3, one more than
the deepest value that is flattened there (TLC would stop at the text of a value with parts). `MaxValues` and `MaxPairs` are 2: a value that ends where
the next begins, a property that is repeated. There is no state constraint: every behaviour ends or stays within
its file. Deadlock is not checked: a demuxer whose `open` failed does not exist, so the model stops
there; a session, a message, a value, a body and a file end, too.

## Fairness

`FairSpec` has weak fairness of `Open \/ Read \/ Scan`: a call runs on its caller's thread, and
a loop that can take another turn takes it. Nothing else is needed for `CallsReturn`.
`DrainReachesEof` is about a caller that keeps calling `next_packet` (weak fairness of
`CallNext`); its third disjunct lets the caller seek for ever instead. There is no fairness on
seeks: the code does not make anyone seek. `CodecFairSpec` has weak fairness of `ReadBack`:
the reader is one loop on one thread; nothing makes the writer finish.

## Proofs

The proofs are in modules of their own: `FlvDemuxerProofs` (types, packets, harvest, discovery,
seeks, and the refinement), `Amf3ReferencesProofs` (the decoder's object table), `Amf3CodecProofs`
(writer and reader of a value), `ExBodyProofs` (an enhanced body, from its fields to the round trip),
`TagFramingProofs` (the file), `SessionCallsProofs` (the tag of each writer, and what the demuxer
makes of it), `FlvSessionProofs` (a session of such writers), and `SequenceFacts` (induction,
flattened sequences) for those of them that need it.

The theorems about the demuxer hold for every `Files`, `MaxDiscoveryTags`, `SeekStreams` and `SeekTimes` that
satisfy the assumptions of `FlvDemuxer`: files are sequences of `Tag`, of any length, on which
nothing but strays follows a tag whose trailer is short or a stray (`LayoutAssumption`: there
are not enough bytes for anything else); the cap is a natural number; seek arguments are a
`u32` and an integer. TLC evaluates the assumptions in every run.

| theorem | says | argument |
|---|---|---|
| `TypeCorrect` | `[]TypeOK`: whatever names a tag names one of this file, or none | inductive as it stands, one lemma per group of actions; the file never changes (`FileStays`) |
| `PacketsCorrect`, with `PacketsNameTheirStream`, `CiphertextStaysMarked` | `PacketsCarryTheirStream`, `CiphertextIsDiscarded`, `SideChannelsDescribeClearPacket` | `PacketInv`: the stream set is fixed once a packet exists, since `minted` changes in `opening` only, where `packet.tag = 0` |
| `HarvestCorrect` | `HarvestIsLatest` | `HarvestInv` extends it to the state in which a call is running and adds that a harvest variable never names a tag at or behind `cursor` in the current run |
| `DiscoveryCorrect`, with `StreamsAreFound` | `DiscoveryFollowsFileOrder`, `NoStreamIsMissed` | `PositionInv`: while opening, `cursor = scanned + 1` unless a skip went past the end, so "the tags looked at" are `1 .. scanned`; the properties are not inductive without it |
| `SeeksLand`, with `IndexedSeeksLand` | `IndexLandsAtOrBefore`, `ScanLandsOnFirst` | `ScanInv`: during a scan no tag in front of `cursor` that can be reached fits, and `cursor` itself can be reached or is past the end |
| `FailedScanLeft` | `FailedScanLeavesNothing` | from `LayoutAssumption`, and that a peek can only fail on the last tag |
| `DemuxerImplementsPacketStream` | `ImplementsPacketStream` | refinement mapping: `left` is the set of answering tags at or behind `cursor`; a tag that does not answer is a stutter, one that does is the minimum of `left` |
| `DecoderTypeCorrect` | `[]TypeOK` of `Amf3References` | `Types` and `Places`: every part of a call, a slot and a node has its type, and lies in the table and the value |
| `PlaceholdersAreCalls` | `OpenSlotsAreCalls` | `Places`: calls nest, so their places in the value increase with the stack, and an entry of the table lies in the value; then the call that returns is the one whose slot is filled |
| `ReferencesGiveEarlierLiterals` | `ReferencesGoBack` | an entry's place and kind never change, and a node of the value is never taken back |
| `IndexNumbersLiterals` | `IndexIsNthLiteralWithoutXml` | `TableInv`: the entries number, in order, the beginnings of the literals that have a place, except the one of an array or object whose header is read and which takes its place next (`WaitsLast`); one lemma per way |
| `CodecTypes` | `[]CodecTypeOK` of `Amf3Codec` | `History`: a reference on the wire is below the length the table had when it was written |
| `CodecRoundTrip` | `RoundTrip` of `Amf3Codec` | `InStep`: there is a history of the writer's calls, cell by cell, and the reader's calls `Agree` with those the writer had at the cell the reader has come to |
| `CodecTablesAgree` | `TablesAgree` | `InStep`: the length of the reader's table is the one the writer's had there, and the writer's only grows |
| `SizesComeBack` | `DecodeSize` and `SizeWidth` undo `EncodeSize`, for every size from 1 to 65536, wherever it stands | one byte up to 255; from 256 on the first byte is 255 and the other two are quotient and remainder of `n - 1` |
| `OffsetsComeBack` | `Signed24` undoes `SI24`, for every offset from -2^23 to 2^23 - 1 | `TriplesComeBack` (three bytes are read as written) and the two's complement of 24 bits |
| `ReaderStaysInside` | `[]TypeOK` of `ExBody` | `Held`: the wire is a sequence of bytes, so a size that was read is a natural number, and the guards of `parse` and `split_tracks` bound it; `Splits`: only the last stages have tracks |
| `TracksTileBodies` | `TracksTile` | `Splits`, which orders `from`, `to` and `cursor`, and one step per turn of `split_tracks` |
| `BodiesRoundTrip` | `RoundTrip` of `ExBody` | `InStep`: the reader is at a mark of the writer and holds what was written up to it |
| `CutsAreNoticed` | `CutIsNoticed` of `ExBody` | `InStep`, which says the same of a body that is cut, or ends where `to_bytes` gave up: the steps that were passed are those whose bytes are there |
| `TagsDoNotOverlap` | `[]TypeOK` of `TagFraming` | `Held`, on any bytes: header, body of the stated size and trailer of a tag are behind each other, and `cursor` is behind them; what `parse` accepts has its vector in front of its payload (`ParsedVector`) |
| `TagsComeBack` | `RoundTrip` of `TagFraming` | `InStep`: there is a file `full`, of which the reader has the front, and a place `ends[i]` for every tag at which its bytes stand; the reader is at one of them, having made of each tag before it what was written (`Framed`, `Arrived`, `Passed`) |
| `CutsAreNoticed` | `CutIsNoticed` of `TagFraming` | `InStep`, which says the same of a file cut anywhere |
| `BackPointersLeadBack` | `BackPointersLead` | `InStep`: the four bytes in front of `ends[i + 1]` are `ends[i + 1] - 4 - ends[i]` |
| `WritersKeepTheirWord` | of the tag of every call in `MediaCalls`, the demuxer's functions make the packet, codec, configuration, fixed rate and channel count that the call promises | one lemma for each writer: the fields it writes, what `AsBody` and `PacketOf` decide on them, what `AudioStream` and `VideoStream` make of them under any metadata |
| `LayoutComesBack` | `ParseLayout` undoes `LayoutBytes`, whatever follows | the three forms of a layout; `ValidIsComplete`: what `to_bytes` accepts is of one of them |
| `SeekTablesComeBack` | `ParseKeyframes` gives back what `KeyframesObject` was given if `KeyframesValid`, and nothing if not | the two arrays of the object are found by name, and both sides ask the same of them |
| `HeadlinesComeBack` | `Headline` undoes `WriteAdditionalHeader` | one member of each name at each level |
| `PacketsAreAsWritten` | `EveryWriteIsAnswered`, early silences as the code has them | `SessionInv`: `Given`, on the set of streams, which does not change any more when the first packet is given |
| `StreamsComeFromTheirFirstBody` | `StreamsAreAsWritten` | `SessionInv`: `StreamsMade`, through discovery and through the layouts read afterwards; a layout that counts was read from an audio tag with a body, so there is a stream that follows it (`Searched`) |

The theorems about the decoder hold for every set of cells and every bound on a message. They assume what a
cell is (`CellsAssumption`: `Cells` is a subset of `Cell`) and that texts are told from nothing
(`TextAssumption`). The actions of the decoder do seven kinds of things to stack, tables and value:
pass over a value, refer, store, call, enter, return, rest. `StepsGoTheirWay` shows that every step
goes one of these ways, and the rest of the proof only looks at them.

The theorems about the codec hold for every `Text`, `MaxCells` and `MaxCount`; they assume that the empty
string is not in `Text` and that the bounds are natural numbers (`BoundAssumption`). The reader starts when
the writer has stopped, so nothing in a state says what the writer's calls and table were when it
wrote the cell that is read now. `History` keeps it: `then[i]` are the writer's calls right behind the
cell in front of the i-th, `known[i]` is the length its table had there. Calls return between two cells, and
on both sides only when they owe nothing (`Returned`), so the calls that owe the next cell are the same
on both sides (`OneBase`). `ReaderMeets` concludes that the reader expects what the writer
wrote; one lemma per kind of cell shows that their calls agree again behind it. An object is where this is not obvious:
the writer counts its sealed values down from the header, the reader takes their number from the names
it has collected, and until the last name they are related by a sum (`Agree`).

`SizesComeBack` and `OffsetsComeBack` need no assumption: they are about the two fields of `ExBody` whose
bytes do not show their value directly, and the runs can only sample them. The other theorems of
`ExBodyProofs` hold for every set of headers, batches, payloads and foreign bodies that have their
types: `HeadersAssumption` is what the structs can hold (nibbles, bytes, a ModEx chain of any
length; an audio header has none of the video fields), `BodiesAssumption` that ids, FourCCs and
payloads are bytes, and `None` is not a number (`NoneAssumption`). No length is bounded.

`RoundTrip` and `CutIsNoticed` speak of what came out in the end and are not inductive. The invariant is
`IInv /\ InStep`. `IInv` has the types and `Splits`. `InStep` says two things. First, what there is to
read is the front of what was written (`Given`): all of it, unless it was cut. Second, for each
stage, where the reader is. `Steps` numbers what `to_bytes` does to a header: the lead byte, one step
for each ModEx entry, then multitrack byte, FourCC, offset and command. `Mark(h, i)` is where the bytes
of step `i` end, `Passed(h, i)` that no step up to it raised an error. The reader is at some mark, all in
front of it was passed, and `read` is the part of the sent header that the steps up to there write, with
`nanos` the sum of the entries walked. Behind the header, `Ends` has the end of each joined track,
and the tracks split off are the first of those joined. The mark is needed because a body
does not say where its fields are: that a byte is the FourCC and not the end of a ModEx chain holds
only as long as reader and writer have agreed on every earlier width. One lemma for each action of
the reader shows that it goes from one mark to the next (`WalkInStep`, `MultitrackInStep`,
`FourCcInStep`, `CtoInStep`, `CommandInStep`, `SplitInStep`), and one for each error that it is only raised
on what was cut or refused (`FailureInStep`, `GivingUpInStep`). They rest on lemmas about the layout
(`StepsAre`, `MarksAre`, `EndsAre`) and about the records (`EntryIsRead`, with the size escape).

How far a chain or a batch reaches is a recursive function of its length. What such a function
gives is proved by induction over a set of numbers, with the least-element argument of
`WellFoundedInduction`, which needs no operator parameter (`Least`, `Induction`, `Recursion`); this is how
`Sums`, `Ends` and the `FlattenSeq` of the community modules are dealt with.

The theorems of `TagFramingProofs` hold for every `Files`, any tags and foreign bytes of the right
types (`TagsAssumption`, `NoiseAssumption`), any `Radix` above 2, so that the names of the two filters
have no zero in them, and any length of an IV (`WidthsAssumption`); `None` must be neither a number nor
a vector (`NoneAssumption`). `TagsDoNotOverlap` is about files of other writers as well, in which every
size is the file's own word: `TagsTile` says that the first tag begins behind the trailer of the header,
the next one eleven bytes, a body of the size in its header and four bytes further on, the last of them ends at
`cursor`, and a body that was read is the bytes of the file at that place, inside it. `VectorsFit` says of an
EncryptionTagHeader that its vector has its full length and lies in the file between header and payload,
and that the payload is what is left of the body. `RoundTrip` is not inductive: it says nothing of the bytes that are still to be read.
`InStep` does, and rests on lemmas that a number of three or four digits is read as written
(`ThreeDigits`, `BytesOf24`, `BytesOf32`) and that `parse` undoes `to_bytes` on a preamble, whatever
stands behind it (`PreambleComesBack`). With 256 for `Radix` they are about the limits of the code
itself.

The theorems about sessions hold for every producer of which `CallsAssumption` is true: any number of
calls, each in `MediaCalls` (with `Payloads`, `Octets`, `Offsets` and `Layouts` that have the types of the
writers' arguments, `ArgumentsAssumption`), or of a script tag, of which nothing is assumed but that no
packet and no speaker layout is expected of it. So metadata may say what it likes, wherever it stands,
and the theorems say that it does not reach what they are about. `ColorInfos` and `AmfBodies`, the
contents of Metadata frames, can be anything at all. `MaxDepth` is a natural number
(`MaxDepthAssumption`). `Kept` states what a writer owes, by the functions the demuxer uses, without a state; for
most writers the tag is four or five known bytes and a payload, and the proof follows the code's
decisions on them. Not obvious are the offsets, which must be read back as signed 24-bit numbers for
both kinds of header (`WriteAvcNalu`, `WriteCodedFrames`), and the layouts, whose count reaches the stream
only if `parse` gets to the end of what `to_bytes`, or another writer, has put there.

The two properties are not inductive: they speak of reading only, and not of where discovery
stopped. `SessionInv` is. `Places` relates the phases to `cursor` and `scanned`; `Searched` says that
discovery ended at the end of the file or with both kinds found, so that what comes behind
`scanned` is no first body; `StreamsMade` says from `opening` on that a kind has a stream exactly if
discovery passed a body of it, and that the stream is that of the first one, but for the channel
count, which is that of the last layout read that counts (`Told`); `Given` says which packets were given so far.

Model-checked only:

* liveness (`CallsReturn`, `DrainReachesEof`, `ReadsToTheEnd`), which is out of the prover's reach;
* what the metadata bag says in a session: `TypedViewsAgree`, `CuesAndImagesStayApart`,
  `TrackMapsComeBack`, `ColorInfoIsLatest`, `LayoutIsLatest`, `FoundIsAsWritten`. These are true of what the
  crate's own builders write and of some of what others do: a foreign script tag or frame can use
  any name, and which ones are harmless is a matter of texts (`"x[0]"`, the `ToString` of a number)
  that the provers cannot take apart. Of single tags `LayoutComesBack`, `SeekTablesComeBack` and
  `HeadlinesComeBack` say it for any content;
* `TypeOK` of sessions. Its positions are in `Places`, its streams in `StreamsMade`; the rest is the
  type of texts in the bag, which would need types for the recursive values of other writers, of
  which the theorems above assume nothing;
* `ValuesComeBack` and `CommandsAreUnderstood` of `AmfMessages`, about recursive data that RECURSIVE
  operators write and parse.

## Findings

Three sentences of the documentation are refuted here, each by a run of its own that
exhibits a shortest history.

* `stale_side_channels`: the packet of a filtered tag is returned before the side channels are
  refreshed, so they describe an earlier tag; the doc of `last_multitrack_tracks` says they never
  do. With `SideChannelsDescribeClearPacket` the rest of the promise is proved.
* `amf3_xml_reference`: an xml value sent by reference takes a new place in the object table,
  against the comment on `is_object_ref`. `IndexIsNthLiteralWithoutXml` is the rest of the
  promise, and is proved.
* `ex_accepted`: `to_bytes` writes a ModEx entry of subtype 0 whose payload is `Reserved` and too
  short, which `walk` refuses, against the doc of `emit`. A single-track header of type
  Multitrack or ModEx and a sum of nanoseconds that is not that of the entries are accepted and
  not given back, too. `Consistent` names the headers that are; for them `RoundTrip` holds.

Three sentences of the writers' docs are not true either. No run has them as a property; the
runs show what the code does instead.

* The doc of `write_audio_silence` says that a silence tag emitted first "mints no stream and is skipped
  on the read side" (`tag.rs:439-441`). Discovery does pass it over, but makes the stream of a later body
  and rewinds to the first tag: `next_packet` then gives a header and discard packet for it, as for any
  other silence. It is skipped only in a file without an audio body. `EveryWriteIsAnswered` covers
  `<<Silence, audio>>` and states what the code does; its comment names the case.
* The doc of `write_mp3_8k_tag` says "with the rate pinned to 8 kHz on the read side" (`tag.rs:408-411`).
  The formats whose rate `build_audio_stream` pins are Nellymoser at 8 and 16 kHz and Speex; an
  `audiosamplerate` in front of 8 kHz MP3 becomes its rate (`<<Full, Mp38k>>` in `write_read` gives 48 kHz).
  `TypedViewsAgree` states both: the rate is the one stated in front of the stream, and 8 kHz if the
  metadata has none. `StreamsAreAsWritten` is about the rates the code does pin.
* The doc of `MetadataBag::video_track_info_map` says "trackId 0 is rejected" (`script.rs:286`). It is
  written, and its fields are in the metadata as `videotrackidinfomap.0.*`; the typed views pass it over, as
  the doc of `TrackInfoMap::track` says. `TrackMapsComeBack` is checked on a map with a track 0 (`Variants`)
  and states that the views know nothing of it.

Noted, without a run:

* `write_amf3_value` promises to fail for nothing but lengths, and before any bytes beyond the
  marker; an empty key fails too (`Refuse`), with the array's header and earlier members in the
  buffer.
* Without a keyframes table `seek_to(0)` lands on the first keyframe, after any audio tags, while
  its doc speaks of the start.
* A scan decides by the first body byte and can land on a tag that becomes no packet (an end of
  sequence typed as key frame); `tests/seek.rs` expects a keyframe packet after a scan.
* Discovery does not look at the Filter bit and reads codec parameters from the bytes of a
  filtered first tag.
* A filtered script tag is dropped, while the comment in `build_encrypted_packet` says that it
  is forwarded through the audio stream.
* `EncryptedTagPreamble::to_bytes` leaves the IV of an `SE` preamble out when `is_encrypted` is
  unset, and cannot say that an `Encryption` one is not encrypted.
* `to_bytes` of an enhanced header leaves what it has written in the caller's buffer when it
  fails; this may read as the same header without the FourCC, the offset or the command that was
  refused, and as nothing else (`CutIsNoticed`). `encode_amf_into` of a colour and `write_string` do the same.
* A colour reset by an empty object leaves no entry in the bag: `color_info()` is then absent, as for
  a file that never had one, and not a reset.
* The harvest of a frame drops the entries under its name (`name.*`), against its doc not those of an
  array (`name[i]`).
* The additional properties of `connect` are documented as strings and numbers; booleans are kept,
  too. One that is named `capsEx`, or `code` in an onStatus object, is taken for the property of that
  name when it is read back.
* `TypedAudioTrackInfo::audio_sample_rate` says that it rejects 0, and does not.
* An `audiosamplerate` of zero, or one that 32 bits do not hold, is what the typed view shows, while the stream
  keeps the rate of its tag header.
* `write_avc_nalu` says that it truncates the composition time; it returns an error.
* The channel count of a Speex or Nellymoser stream, fixed by the format, is overridden by a later
  MultichannelConfig. A frame rate in an onMetaData behind the first video tag reaches the typed
  view and not the stream. A video command in front of the first frame makes the stream
  (`flv:video:0`).

## Not modelled

* I/O errors of the reader other than a short read, and offsets above `i64::MAX`.
* Keyframes offsets into the middle of a tag: an offset points at a tag or past the end.
* `f64_to_rational` and the snapping of frame rates; texts in the bag beyond what the accessors tell
  apart; the limit of 2^53 on positions in a keyframes table.
* The bytes of doubles in AMF0, and a complete AMF3 value behind the AVM+ marker.
* `pending_packet`, which nothing sets, and the `FlvHeader`, read once before discovery.
* The bytes of AMF3: U29, doubles, UTF-8, and with them the limits of 28 bits; the contents of
  leaves. A value the writer drops silently (dynamic members of an object that is not dynamic,
  anything in an externalizable one) is not a value `Amf3Codec` chooses.
* The components marked `not_modelled` in `PROJECT.json`, each with its reason.
