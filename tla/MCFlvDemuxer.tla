---------------------------- MODULE MCFlvDemuxer ----------------------------
(***************************************************************************)
(* Small pools of tags for FlvDemuxer, one per question, and the files     *)
(* made of them: all sequences up to a length that a file can have.        *)
(***************************************************************************)
EXTENDS FlvDemuxerProps, FiniteSets

NoScript == [name |-> "other", valid |-> FALSE, duration |-> -1, keyframes |-> <<>>]

Plain == [form |-> "legacy", codec |-> "plain", frame |-> "inter", unit |-> "data",
          multitrack |-> FALSE, tracks |-> <<>>, modex |-> "none", cto |-> 0,
          info |-> "bad"]

Make(k, b, t) == [kind |-> k, size |-> "fit", preamble |-> "clear", ts |-> t,
                  body |-> b, script |-> NoScript]

MakeScript(s) == [Make("script", Plain, 0) EXCEPT !.script = s]
Keyed(b) == [b EXCEPT !.frame = "key"]
Ex(u) == [Plain EXCEPT !.form = "ex", !.unit = u]
Tracks(u, ids) == [Ex(u) EXCEPT !.multitrack = TRUE, !.tracks = ids]
Empty == [Plain EXCEPT !.form = "empty"]
Avc(u) == [Plain EXCEPT !.codec = "avc", !.unit = u]
Cipher(t) == [t EXCEPT !.preamble = "good"]
Forged(t) == [t EXCEPT !.preamble = "bad"]
Over(t) == [t EXCEPT !.size = "over"]
Cut(t) == [t EXCEPT !.size = "cut"]
Stray == Make("stray", Empty, 0)
Unknown == Make("unknown", Plain, 0)

FilesOver(pool, n) == {f \in UNION {[1 .. m -> pool] : m \in 1 .. n} : IsFile(f)}

(***************************************************************************)
(* Packets and side channels: tags with tracks, with ModEx, with both or   *)
(* neither, tags that become no packet, and filtered tags.                 *)
(***************************************************************************)
PacketPool ==
  { Make("audio", Plain, 1),
    Make("audio", Tracks("data", <<2, 0>>), 1),
    Make("audio", Tracks("end", <<0>>), 2),
    Make("video", [Keyed(Ex("data")) EXCEPT !.codec = "avc", !.modex = "nano", !.cto = 1], 1),
    Make("video", [Tracks("data", <<1>>) EXCEPT !.modex = "reserved"], 2),
    Make("video", Tracks("data", <<>>), 2),
    Make("video", [Tracks("data", <<>>) EXCEPT !.frame = "command"], 2),
    Cipher(Make("video", Plain, 2)),
    Forged(Make("audio", Tracks("data", <<0>>), 2)) }

(***************************************************************************)
(* Harvested frames, with and without channels, unparsable, filtered.      *)
(***************************************************************************)
InfoAudio(i) == Make("audio", [Ex("info") EXCEPT !.info = i], 1)
InfoVideo(i) == Make("video", [Ex("info") EXCEPT !.info = i], 1)

HarvestPool ==
  { InfoAudio("some"), InfoAudio("zero"), InfoAudio("bad"), InfoVideo("some"), InfoVideo("bad"),
    Make("video", [Tracks("info", <<0>>) EXCEPT !.info = "bad"], 1),
    Make("video", [Tracks("info", <<2>>) EXCEPT !.info = "some"], 1),
    Make("audio", [Tracks("info", <<0>>) EXCEPT !.info = "some"], 1),
    Forged(InfoAudio("some")),
    Make("video", Keyed(Plain), 2) }

PacketFiles == FilesOver(PacketPool, 3) \cup FilesOver(HarvestPool, 3)
ReadingTimes == {-1, 2}

(***************************************************************************)
(* Discovery: every kind of tag, in every order, and a cap of two tags.    *)
(***************************************************************************)
Entry(t, d) == [time |-> t, dest |-> d]

MetaData(d, k) == MakeScript([name |-> "onMetaData", valid |-> TRUE, duration |-> d, keyframes |-> k])
Header(v) == MakeScript([NoScript EXCEPT !.name = "|AdditionalHeader", !.valid = v])

DiscoveryPool ==
  { MetaData(1, <<Entry(1, 2)>>), MetaData(2, <<Entry(2, 1)>>), MetaData(-1, <<>>), Header(TRUE), Header(FALSE),
    Make("audio", Plain, 0), Make("audio", Empty, 0), Cipher(Make("audio", Plain, 0)),
    Make("video", Keyed(Plain), 0), Make("video", [Plain EXCEPT !.form = "malformed"], 0),
    Unknown, Over(Unknown) }

DiscoveryFiles == FilesOver(DiscoveryPool, 4)

ReadingFiles == PacketFiles \cup DiscoveryFiles

(***************************************************************************)
(* Seeking through keyframes tables: unsorted, with equal times, pointing  *)
(* beyond the end, and honest ones, in a file with and without video.      *)
(***************************************************************************)
IndexPool ==
  { MetaData(1, k) : k \in { <<Entry(1, 2), Entry(6, 3)>>, <<Entry(-1, 2), Entry(4, 3), Entry(4, 4)>>,
                             <<Entry(4, 2), Entry(2, 3)>>, <<Entry(3, 9)>> } }
    \cup { Make("video", Keyed(Plain), 1), Make("video", Plain, 2), Make("audio", Plain, 3) }

(***************************************************************************)
(* Seeking by scanning: key frames of every form, at several times, broken *)
(* tags and strays.                                                        *)
(***************************************************************************)
ScanPool ==
  { Make("video", Keyed(Avc("data")), 1), Make("video", Keyed(Avc("data")), 3),
    Make("video", Keyed(Avc("end")), 2), Make("video", Avc("data"), 2),
    Make("video", [Keyed(Plain) EXCEPT !.form = "malformed"], 2),
    Over(Make("video", Keyed(Plain), 2)),
    Make("audio", Plain, 1), Make("audio", Plain, 2),
    Over(Unknown), Cut(Make("audio", Plain, 3)), Stray }

SeekFiles == FilesOver(IndexPool, 3) \cup FilesOver(ScanPool, 4)

(***************************************************************************)
(* Everything next_packet tells apart, for the refinement and liveness.    *)
(***************************************************************************)
StreamPool ==
  { Make("audio", Plain, 0), Make("audio", [Plain EXCEPT !.codec = "aac", !.unit = "other"], 1),
    Make("video", Keyed(Avc("data")), 1), Make("video", Keyed(Avc("end")), 2),
    Make("audio", [Plain EXCEPT !.form = "malformed"], 2),
    Make("video", [Keyed(Avc("data")) EXCEPT !.form = "malformed"], 2),
    Cipher(Make("audio", Plain, 1)), Forged(Make("video", Plain, 1)),
    MakeScript(NoScript), Unknown, Over(Unknown), Over(Make("audio", Plain, 2)),
    Cut(Make("video", Plain, 2)), Stray }

StreamFiles == FilesOver(StreamPool, 3)

=============================================================================
