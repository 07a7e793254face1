----------------------------- MODULE SideFrames -----------------------------
(***************************************************************************)
(* Frames without media: the speaker layout of multichannel.rs, the HDR    *)
(* description of color_info.rs, how they are written, and how the demuxer *)
(* takes them into its metadata bag.                                       *)
(***************************************************************************)
EXTENDS TagWriters, MetadataBag, FiniteSets

None == <<>>     \* Option::None; Some(x) is <<x>>

(***************************************************************************)
(* Speaker layouts.  AudioChannelOrder and AudioChannel are their bytes.   *)
(***************************************************************************)
Unspecified == 0
Native == 1
Custom == 2

OrderLabel(order) ==
  CASE order = Unspecified -> "unspecified" [] order = Native -> "native"
    [] order = Custom -> "custom" [] OTHER -> "reserved:" \o ToString(order)

MaskBits == 24

SpeakerLabels ==
  << "frontleft", "frontright", "frontcenter", "lowfrequency1", "backleft", "backright",
     "frontleftcenter", "frontrightcenter", "backcenter", "sideleft", "sideright", "topcenter",
     "topfrontleft", "topfrontcenter", "topfrontright", "topbackleft", "topbackcenter",
     "topbackright", "lowfrequency2", "topsideleft", "topsideright", "bottomfrontcenter",
     "bottomfrontleft", "bottomfrontright" >>

Unused == 254

SpeakerLabel(channel) ==
  IF channel < MaskBits THEN SpeakerLabels[channel + 1]
  ELSE IF channel = Unused THEN "unused"
  ELSE IF channel = 255 THEN "unknown" ELSE "reserved:" \o ToString(channel)

Joined(labels) ==
  FoldLeft(LAMBDA text, l : IF text = "" THEN l ELSE text \o "," \o l, "", labels)

\* The channels whose bit is set, lowest first.
MaskChannels(flags) ==
  SelectSeq([i \in 1 .. MaskBits |-> i - 1], LAMBDA bit : (flags \div 2^bit) % 2 = 1)

MaskChannelLabels(flags) == [i \in 1 .. Len(MaskChannels(flags)) |-> SpeakerLabel(MaskChannels(flags)[i])]

Layout(order, count, mapping, flags) ==
  [order |-> order, count |-> count, mapping |-> mapping, flags |-> flags]

\* MultichannelConfig::to_bytes validates before it writes.
LayoutValid(c) ==
  CASE c.order = Unspecified -> c.mapping = None /\ c.flags = None
    [] c.order = Custom -> c.flags = None /\ c.mapping # None /\ Len(c.mapping[1]) = c.count
    [] c.order = Native -> /\ c.mapping = None /\ c.flags # None
                           /\ c.flags[1] < 2^MaskBits
                           /\ Len(MaskChannels(c.flags[1])) = c.count
    [] OTHER -> FALSE

LayoutBytes(c) ==
  <<c.order, c.count>> \o (IF c.mapping = None THEN <<>> ELSE c.mapping[1])
                       \o (IF c.flags = None THEN <<>> ELSE c.flags)

WriteMultichannelConfig(fourcc, c) ==
  IF LayoutValid(c) THEN WriteExAudio(MultichannelType, fourcc, LayoutBytes(c)) ELSE Refused

\* MultichannelConfig::parse: None when the bytes end too early; what follows
\* the layout, and the count of a mask, are not looked at.
ParseLayout(bytes) ==
  IF Len(bytes) < 2 THEN None
  ELSE LET order == bytes[1]
           count == bytes[2]
           rest  == SubSeq(bytes, 3, Len(bytes))
       IN IF \/ order = Custom /\ Len(rest) < count
             \/ order = Native /\ Len(rest) < 1
          THEN None
          ELSE << Layout(order, count,
                         IF order = Custom THEN <<SubSeq(rest, 1, count)>> ELSE None,
                         IF order = Native THEN <<rest[1]>> ELSE None) >>

PresentChannels(c) ==
  CASE c.order = Native -> MaskChannels(c.flags[1])
    [] c.order = Custom -> SelectSeq(c.mapping[1], LAMBDA ch : ch # Unused)
    [] OTHER -> <<>>

HasChannel(c, ch) ==
  /\ ch # Unused
  /\ CASE c.order = Native -> ch < MaskBits /\ (c.flags[1] \div 2^ch) % 2 = 1
       [] c.order = Custom -> \E i \in 1 .. Len(c.mapping[1]) : c.mapping[1][i] = ch
       [] OTHER -> FALSE

LayoutKey(field) == <<"multichannelconfig", field>>

\* What harvest_multichannel_config puts into the bag.
LayoutEntries(c) ==
  << Entry(LayoutKey("order"), Word(OrderLabel(c.order))),
     Entry(LayoutKey("channelcount"), Numeral(c.count)) >>
    \o (IF c.flags = None THEN <<>>
        ELSE << Entry(LayoutKey("flags"), Word("0x" \o ToString(c.flags[1]))),
                Entry(LayoutKey("layout"), Word(Joined(MaskChannelLabels(c.flags[1])))) >>)
    \o (IF c.mapping = None THEN <<>>
        ELSE << Entry(LayoutKey("mapping"),
                      Word(Joined([i \in 1 .. Len(c.mapping[1]) |-> SpeakerLabel(c.mapping[1][i])]))) >>)

\* Mutant: entries of an earlier layout stay.
HarvestLayoutOver(bag, bytes) ==
  LET parsed == ParseLayout(bytes)
  IN IF parsed = None THEN bag ELSE LayoutEntries(parsed[1]) \o bag

HarvestLayout(bag, bytes) ==
  LET parsed == ParseLayout(bytes)
  IN IF parsed = None THEN bag
     ELSE Without(bag, <<"multichannelconfig">>) \o LayoutEntries(parsed[1])

\* Mutant: a count of zero is taken, too.
ChannelsAfterZero(channels, bytes) ==
  LET parsed == ParseLayout(bytes)
  IN IF parsed = None THEN channels ELSE <<parsed[1].count>>

\* The channel count of the stream after it.
ChannelsAfter(channels, bytes) ==
  LET parsed == ParseLayout(bytes)
  IN IF parsed = None THEN channels
     ELSE IF parsed[1].count > 0 THEN <<parsed[1].count>> ELSE channels

(***************************************************************************)
(* Colour.  A ColorInfo is a function from the groups that are there to    *)
(* functions from the fields that are there.  The HDR numbers are counted  *)
(* in ten-thousandths.                                                     *)
(***************************************************************************)
Groups == <<"colorConfig", "hdrCll", "hdrMdcv">>

Fields ==
  [colorConfig |-> <<"bitDepth", "colorPrimaries", "transferCharacteristics", "matrixCoefficients">>,
   hdrCll      |-> <<"maxFall", "maxCLL">>,
   hdrMdcv     |-> <<"redX", "redY", "greenX", "greenY", "blueX", "blueY",
                     "whitePointX", "whitePointY", "maxLuminance", "minLuminance">>]

InRange(field, n) ==
  CASE field = "bitDepth" -> n \in 8 .. 16
    [] field \in {"colorPrimaries", "transferCharacteristics", "matrixCoefficients"} -> n \in 0 .. 255
    [] field \in {"redX", "greenX", "blueX", "whitePointX"} -> n \in 1 .. 7400
    [] field \in {"redY", "greenY", "blueY", "whitePointY"} -> n \in 1 .. 8400
    [] field \in {"maxFall", "maxCLL"} -> n \in 1 .. 100000000
    [] field = "maxLuminance" -> n \in 50000 .. 100000000
    [] field = "minLuminance" -> n \in 1 .. 50000

ColorEncodable(ci) == \A g \in DOMAIN ci : \A f \in DOMAIN ci[g] : InRange(f, ci[g][f])

\* The members of those names that are there, in their order.
MembersOf(names, f, value(_)) ==
  LET there == SelectSeq(names, LAMBDA n : n \in DOMAIN f)
  IN [i \in 1 .. Len(there) |-> Member(there[i], value(f[there[i]]))]

\* encode_amf_into: the name and the object.
EncodeColor(ci) ==
  LET group(g) == Object(MembersOf(Fields[g], ci[g], Number))
      there == SelectSeq(Groups, LAMBDA g : g \in DOMAIN ci)
  IN <<String("colorInfo"), Object([i \in 1 .. Len(there) |-> Member(there[i], group(there[i]))])>>

WriteColorInfo(fourcc, ci) ==
  IF ColorEncodable(ci) THEN WriteExVideoMetadata(fourcc, EncodeColor(ci)) ELSE Refused

WriteColorInfoReset(fourcc) == WriteExVideoMetadata(fourcc, <<String("colorInfo"), Undefined>>)

\* harvest_video_metadata_frame: pairs of a name and a value, each replacing what
\* stood under the name, up to the first that is none.
Lowered(name) == IF name = "colorInfo" THEN "colorinfo" ELSE name

\* Mutant: what stood under the name stays in front.
HarvestPairKeeping(bag, name, v) == bag \o Flatten(v, <<Lowered(name)>>)

HarvestPair(bag, name, v) ==
  Without(bag, <<Lowered(name)>>) \o Flatten(v, <<Lowered(name)>>)

HarvestPairs(bag, amf) ==
  LET after[i \in 0 .. Len(amf) \div 2] ==
        IF i = 0 THEN bag
        ELSE IF \E h \in 1 .. i : amf[2 * h - 1].m # "string" THEN after[i - 1]
        ELSE HarvestPair(after[i - 1], amf[2 * i - 1].text.s, amf[2 * i])
  IN after[Len(amf) \div 2]
=============================================================================
