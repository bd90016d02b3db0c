----------------------------- MODULE Transcoder -----------------------------
(***************************************************************************)
(* A run of the converter over a file from its beginning: the tags come in *)
(* any order and with any time stamps, reads may fail at any of them, and  *)
(* each file the run creates, the playlist or a segment, may be refused.   *)
(***************************************************************************)
EXTENDS HlsSegmenter, SequencesExt, FiniteSetsExt

CONSTANTS
  Tag,         (* The tags a file may consist of.                          *)
  Options,     (* The options -t and -m to run with.                       *)
  SegmentNums, (* The values judge_segment_num may arrive at.              *)
  Refusals,    (* The sets of attempts to create a file that may fail.     *)
  MaxTags      (* The longest file.  Bounds the model.                     *)

(* Every frame fits the writer's buffers; HlsFragment covers those that do *)
(* not.  Of the other tags nothing behind the type is read.  A file has    *)
(* fewer tags than 32-bit counters can count: 2^32 would be 64 GB.         *)
ASSUME TagAssumption ==
  /\ \A t \in Tag :
       /\ t.ts \in 0 .. U32 - 1
       /\ t.size \in Nat
       /\ t.type \in {"avcc", "key", "inter", "aac", "other"}
       /\ t.damage \in {"none", "type", "body"}
       /\ t.damage = "body" => t.type \in {"key", "inter", "aac"}
       /\ t.type = "aac" => t.size + 7 <= AudioBufferSize - 7
       /\ t.type \in {"key", "inter"} => t.size + 6 <= VideoBufferSize
  /\ Options \subseteq [ts : {0, 1}, m3u8 : {0, 1}]
  /\ SegmentNums \subseteq 0 .. 6
  /\ Refusals \subseteq SUBSET ({"segment", "playlist"} \X Nat)
  /\ MaxTags \in Nat /\ MaxTags < U32

VARIABLES
  p,    (* The parser.                                                     *)
  read  (* History: the tags read; only the last may be damaged.           *)

vars == <<p, read>>

Init ==
  /\ \E options \in Options, n \in SegmentNums, refused \in Refusals :
       p = NewParser(options, 0, n, refused, NewContext(0, 0, 0, 0))
  /\ read = <<>>

(* A round of the loop of flv_get_raw_av. *)
ReadTag(types) ==
  /\ Running(p)
  /\ Len(read) < MaxTags
  /\ \E t \in Tag : /\ t.type \in types
                    /\ p' = HandleTag(p, t)
                    /\ read' = Append(read, t)

ReadHeader  == ReadTag({"avcc"})
ReadPicture == ReadTag({"key", "inter"})
ReadSound   == ReadTag({"aac"})
ReadOther   == ReadTag({"other"})

(* The previous tag size behind a tag cannot be read: an early return. *)
LoseTrailer ==
  /\ Running(p)
  /\ read # <<>>
  /\ p' = Abort(p)
  /\ UNCHANGED read

(* flv_read_tag finds no further tag (the end of the file, or a tag header *)
(* cut short), or the end of the range has been reached.                   *)
EndOfFile ==
  /\ Running(p)
  /\ p' = FinishSegments(p)
  /\ UNCHANGED read

Next == ReadHeader \/ ReadPicture \/ ReadSound \/ ReadOther \/ LoseTrailer \/ EndOfFile

Spec == Init /\ [][Next]_vars

-----------------------------------------------------------------------------
(* What the tags say, for the properties. *)
Media(i) == read[i].type \in {"key", "inter", "aac"} /\ read[i].damage # "type"
Whole(i) == read[i].damage = "none"
IsKey(i) == \/ read[i].type = "avcc" /\ read[i].damage # "type"
            \/ read[i].type = "key" /\ Whole(i)

KeysTo(i) == Quantify(1 .. i, IsKey)

(* The tags that open a segment, in order: the first with media, and each  *)
(* n-th key from then on.  A file that starts with a key frame opens two   *)
(* with it.                                                                *)
OpenedBy(i) ==
  LET media == {j \in 1 .. i : Media(j)}
      first == IF media = {i} THEN <<i>> ELSE <<>>
      cut   == IF /\ media # {} /\ IsKey(i) /\ (KeysTo(i) - 1) % p.segment_num = 0
                  /\ read[i].type = "avcc" => KeysTo(i) > 1
               THEN <<i>> ELSE <<>>
  IN  first \o cut

OpeningsTo(i) == FlattenSeq([j \in 1 .. i |-> OpenedBy(j)])

Openings == OpeningsTo(Len(read))

(* The time at tag i: that of the last frame up to it. *)
TimeAt(i) == read[Max({j \in 1 .. i : Media(j) /\ Whole(j)})].ts

(* The frames of a sound or picture tag, as the writer gets them. *)
Sound(t)   == [ts |-> t.ts, size |-> t.size + 7]
Picture(t) == [ts |-> t.ts, size |-> t.size, key |-> IF t.type = "key" THEN 1 ELSE 0]

Segments == p.ctx.segments

FramesOf(i, pid) == FramesIn(Segments[i], pid)

(* Whether the k-th segment has a place in the output: a run that writes no *)
(* files needs none.                                                       *)
Created(k) == ~HasFiles(p) \/ <<"segment", k>> \notin p.refused

(* The pictures of the file whose segments were created, in order. *)
Pictures ==
  FlattenSeq([ i \in 1 .. Len(read) |->
                 IF read[i].type \in {"key", "inter"} /\ Created(Len(OpeningsTo(i)))
                 THEN <<Picture(read[i])>> ELSE <<>> ])

Finished == p.status = "finished"

(* The playlist, in memory or written.  Behind its header a segment has    *)
(* the lines of its duration and its name; the open one has no duration.   *)
Playlist    == IF Finished THEN p.written ELSE p.hls_content
Complete(i) == i < Len(Segments) \/ p.ts_start_flag = 0
NameLine(i) == Len(Header) + 2 * i - IF Complete(i) THEN 0 ELSE 1
Duration(i) == Playlist[NameLine(i) - 1]

-----------------------------------------------------------------------------
(* Properties. *)

(* The playlist names the segments written, each once and in their order,  *)
(* and every name but that of the open segment has its duration before it, *)
(* although names are appended when a segment opens and durations slipped  *)
(* in before the last line when it closes.                                 *)
PlaylistListsSegments ==
  HasPlaylist(p) /\ p.refused = {} /\ Playlist # <<>> =>
    LET last == NameLine(Len(Segments))
    IN  /\ \A i \in 1 .. Len(Segments) :
             /\ Playlist[NameLine(i)] = Uri(Segments[i].name)
             /\ Complete(i) => Duration(i).line = "EXTINF"
        /\ Len(Playlist) = IF Finished THEN last + 1 ELSE last
        /\ Finished => Playlist[last + 1] = Endlist

(* The durations are the distances between the times at which segments     *)
(* open, the last one that to the last frame, as 32-bit numbers: they add  *)
(* up to the length of the file wherever it was cut.  The target duration  *)
(* is no shorter than any of them.                                         *)
DurationsRight ==
  HasPlaylist(p) /\ Playlist # <<>> /\ p.refused = {} =>
    LET o == Openings
        to(i) == IF i < Len(o) THEN TimeAt(o[i + 1]) ELSE TimeAt(Len(read))
    IN  \A i \in 1 .. Len(Segments) :
          Complete(i) =>
            /\ Duration(i).value = (to(i) - TimeAt(o[i])) % U32
            /\ Finished => Duration(i).value <= Playlist[3].value * 1000

(* A segment's name says where in the file it starts: the index of the key *)
(* frame that opened it, counting sequence headers, and its own number.    *)
(* With these a later run finds its place; no two segments share a name.   *)
NamesLocate ==
  p.refused = {} =>
    \A i \in 1 .. Len(Segments) :
      LET name == Segments[i].name
      IN  /\ name.count = i - 1
          /\ name.key = IF i = 1 THEN 0 ELSE KeysTo(Openings[i]) - 1

(* A segment's name carries the continuity counters its own frames start   *)
(* from, the audio that waited in the buffer having gone into the segment  *)
(* before.                                                                 *)
NamesResume ==
  \A i \in 1 .. Len(Segments) : \A j \in 1 .. Len(Segments[i].frames) :
    LET f == Segments[i].frames[j]
        first == \A k \in 1 .. j - 1 : Segments[i].frames[k].pid # f.pid
    IN  first => f.cc % U32 = CASE f.pid = AudioPid -> Segments[i].name.ac
                                [] f.pid = VideoPid -> Segments[i].name.vc

(* The playlist reaches the disk only from a run that read all of its      *)
(* file; a run that failed before leaves it empty.  It names a segment for *)
(* each place where one starts, those that could not be created too, and   *)
(* the pictures on the disk are all those that fall in the others.  Audio  *)
(* is left over only if the last segment is missing.                       *)
PublishedAllOrNothing ==
  p.written # <<>> =>
    /\ Finished /\ p.ctx.opened = 0
    /\ \A i \in 1 .. Len(read) : Whole(i)
    /\ Quantify(1 .. Len(p.written), LAMBDA i : p.written[i].line = "URI") = Len(Openings)
    /\ FlattenSeq([i \in 1 .. Len(Segments) |-> FramesOf(i, VideoPid)]) = Pictures
    /\ p.ctx.used > 0 => ~Created(Len(Openings))

(* A run crashes only where the code divides by hls_segment_num before it  *)
(* has a value other than 0 (a second sequence header before the first     *)
(* frame, or a segment time that makes judge_segment_num return 0), ends a *)
(* playlist no attempt could open, or takes more audio than its buffer     *)
(* holds while the segment it should go to is missing.                     *)
CrashesExplained ==
  p.status = "crashed" =>
    \/ p.segment_num = 0
    \/ ~(\E i \in 1 .. Len(read) : Media(i)) /\ KeysTo(Len(read)) = 2
    \/ /\ HasPlaylist(p) /\ p.flag_over = 1
       /\ \A k \in 1 .. Len(Openings) + 1 : <<"playlist", k>> \in p.refused
    \/ /\ p.ctx.used > AudioBufferSize
       /\ ~Created(Len(Openings))

-----------------------------------------------------------------------------
(* The run implements SegmentedStream: audio counts as put where it waits. *)
Tracks ==
  [ i \in 1 .. Len(Segments) |->
      [ video |-> FramesOf(i, VideoPid),
        audio |-> FramesOf(i, AudioPid) \o
                    IF i = Len(Segments) THEN p.ctx.held ELSE <<>> ] ]

Stream == INSTANCE SegmentedStream WITH
  AudioFrame <- {Sound(t) : t \in {u \in Tag : u.type = "aac"}},
  VideoFrame <- {Picture(t) : t \in {u \in Tag : u.type \in {"key", "inter"}}},
  n          <- p.segment_num,
  segments   <- Tracks,
  keys       <- p.key_frame_count,
  listed     <- Cardinality({i \in 1 .. Len(p.written) : p.written[i].line = "URI"}),
  state      <- CASE Running(p) -> "open" [] Finished -> "complete" [] OTHER -> "incomplete"

(* Every behaviour of the converter is one of SegmentedStream.             *)
ImplementsStream == Stream!Spec
=============================================================================
