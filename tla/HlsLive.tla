------------------------------ MODULE HlsLive ------------------------------
(***************************************************************************)
(* The live path of the HLS writer: a stream is published, audio and video *)
(* messages arrive, fragments are cut by their time stamps and listed in a *)
(* sliding playlist, and the stream ends or is published again.            *)
(*                                                                         *)
(* The caller is nginx's RTMP server, which is not part of the program: it *)
(* may do all of this in any order.  `ctx` is the writer's context; the    *)
(* fields playlist, var_playlist, dirs and keyfiles stand for the files,   *)
(* and segments, closed and failed are history.  `fail` names the one file *)
(* operation that fails in a call, if any.                                 *)
(***************************************************************************)
EXTENDS HlsContext, HlsWindow, NalUnits

CONSTANTS
  Configuration,  (* The configurations (hacf).                            *)
  AudioMessage,   (* The audio messages: [ts, size].                       *)
  VideoMessage,   (* The video messages: [ts, cts, key, nals, cut].        *)
  AvcHeader,      (* The video sequence headers: [nals, cut].              *)
  Failure,        (* The file operations that may fail.                    *)
  U64,            (* 2^64 in the code.                                     *)
  Bound           (* The number of messages, publishes, ends and failures. *)
                  (* Bounds the model.                                     *)

(* A message's time stamp is a number of 32 bits (ngx_rtmp_header_t). *)
ASSUME LiveAssumption ==
  /\ \A hacf \in Configuration :
       /\ hacf.winfrags \in Nat \ {0} /\ hacf.fraglen \in Nat \ {0} /\ hacf.max_fraglen \in Nat
       /\ hacf.granularity \in Nat /\ hacf.frags_per_key \in Nat
       /\ {hacf.nested, hacf.keys, hacf.continuous, hacf.variant} \subseteq {0, 1}
       /\ hacf.key_dir \in {"ts", "key"} /\ hacf.slicing \in {"plain", "aligned"}
       /\ hacf.naming \in {"sequential", "timestamp"} /\ hacf.type \in {"live", "event"}
  /\ \A a \in AudioMessage : a.ts \in Nat /\ a.ts * 90 < U64 /\ a.size \in Nat /\ a.size > 7
  /\ \A v \in VideoMessage : v.ts \in Nat /\ v.ts * 90 < U64 /\ v.cts \in Nat /\ v.key \in {0, 1}
  /\ U64 \in Nat \ {0}
  /\ BufSize = VideoBufferSize

VARIABLES
  hacf,   (* The configuration.                                            *)
  codec,  (* The sequence headers seen: avc is {} or the one header; aac   *)
          (* is "none", "good", or "bad" if parse_aac_header refuses it.   *)
  ctx,    (* The writer's context.                                         *)
  heard,  (* History: audio messages taken since the stream was published. *)
  calls   (* Messages, publishes, ends and failures so far.                *)

vars == <<hacf, codec, ctx, heard, calls>>

-----------------------------------------------------------------------------
(* Opening and closing a fragment. *)

FragmentId(w, ts) ==
  LET id == IF hacf.naming = "timestamp" THEN ts ELSE w.frag + w.nfrags
  IN  IF hacf.granularity = 0 THEN id ELSE (id \div hacf.granularity) * hacf.granularity

(* Creating a directory fails when it is there already. *)
CanEnsure(w, dir) == hacf.nested = 0 \/ dir \notin w.dirs
EnsureDirectory(w, dir) == IF hacf.nested = 0 THEN w ELSE [w EXCEPT !.dirs = @ \cup {dir}]

(* A fragment that needs a new key is never opened: fwrite of one item of  *)
(* 16 bytes returns 1, which is not 16.  The next attempt finds key_frags  *)
(* set and goes on with the key's id.                                      *)
NewKey(w, id, fail) ==
  [w EXCEPT !.key_frags = (hacf.frags_per_key - 1) % U64, !.key_id = id,
            !.keyfiles = IF fail = "key" THEN @ ELSE @ \cup {id},
            !.failed = IF fail = "key" THEN @ \cup {id} ELSE @]

(* The live path's flush is the converter's, statement by statement. *)
FlushLive(w) == FlushAudio(w)

(* Slip: the buffer is emptied when a fragment begins. *)
StartSilent(w, id, ts, discont) ==
  [w EXCEPT !.opened = 1, !.frag_ts = ts, !.used = 0, !.held = <<>>,
     !.frags[Slot(w, hacf, w.nfrags)] =
        [NoFrag EXCEPT !.id = id, !.discont = discont, !.active = 1, !.key_id = w.key_id, !.ts = ts],
     !.segments = Append(@, [name |-> id, frames |-> <<>>])]

(* The new fragment begins with the audio that is left in the buffer. *)
StartFragment(w, id, ts, discont) ==
  FlushLive([w EXCEPT !.opened = 1, !.frag_ts = ts,
                !.frags[Slot(w, hacf, w.nfrags)] =
                   [NoFrag EXCEPT !.id = id, !.discont = discont, !.active = 1,
                      !.key_id = w.key_id, !.ts = ts],
                !.segments = Append(@, [name |-> id, frames |-> <<>>])])

(* Slip: one key for ever. *)
UnlockedForever(w, id, ts, discont, fail) ==
  IF fail = "file" THEN w ELSE StartFragment(w, id, ts, discont)

Unlocked(w, id, ts, discont, fail) ==
  LET counted == IF hacf.keys = 1 /\ hacf.frags_per_key > 0 THEN [w EXCEPT !.key_frags = @ - 1] ELSE w
  IN  IF fail = "file" THEN counted ELSE StartFragment(counted, id, ts, discont)

OpenLive(w, ts, discont, fail) ==
  IF w.opened = 1 \/ ~CanEnsure(w, "ts") THEN w
  ELSE LET in == EnsureDirectory(w, "ts")
       IN  IF hacf.keys = 0 THEN Unlocked(in, FragmentId(w, ts), ts, discont, fail)
           ELSE IF ~CanEnsure(in, hacf.key_dir) THEN in
           ELSE LET both == EnsureDirectory(in, hacf.key_dir)
                IN  IF w.key_frags = 0 THEN NewKey(both, FragmentId(w, ts), fail)
                    ELSE Unlocked(both, FragmentId(w, ts), ts, discont, fail)

(* Slip: the playlist is written before the fragment joins the list. *)
CloseListedLate(w, fail) ==
  IF w.opened = 0 THEN w
  ELSE NextFrag(WritePlaylist([w EXCEPT !.opened = 0,
                                 !.closed = Append(@, GetFrag(w, hacf, w.nfrags))], hacf, fail), hacf)

(* The audio in the buffer stays there for the next fragment. *)
CloseLive(w, fail) ==
  IF w.opened = 0 THEN w
  ELSE WritePlaylist(NextFrag([w EXCEPT !.opened = 0,
                                 !.closed = Append(@, GetFrag(w, hacf, w.nfrags))], hacf), hacf, fail)

-----------------------------------------------------------------------------
(* When a fragment ends. *)

(* The time runs away from the open fragment, or back by over a second. *)
Forced(w, ts) ==
  w.opened = 1 /\ (ts - w.frag_ts > hacf.max_fraglen * 90 \/ ts - w.frag_ts < -90000)

(* The open fragment is as long as the time since it began, as an unsigned *)
(* number.                                                                 *)
Measure(w, ts) ==
  IF w.opened = 1 /\ ~Forced(w, ts)
    THEN [w EXCEPT !.frags[Slot(w, hacf, w.nfrags)].duration = (ts - w.frag_ts) % U64]
    ELSE w

SameSlice(w, ts) == w.frag_ts \div (hacf.fraglen * 90) = ts \div (hacf.fraglen * 90)

(* With aligned slices and nothing open, the first fragment waits for the  *)
(* next slice to begin.                                                    *)
Waits(w, ts) == hacf.slicing = "aligned" /\ w.opened = 0 /\ (w.frag_ts = 0 \/ SameSlice(w, ts))

(* `w` is measured. *)
Cuts(w, ts, boundary) ==
  \/ Forced(w, ts)
  \/ /\ boundary
     /\ ~Waits(w, ts)
     /\ w.opened = 1 =>
          IF hacf.slicing = "plain" THEN GetFrag(w, hacf, w.nfrags).duration >= hacf.fraglen * 90
                                    ELSE ~SameSlice(w, ts)

(* Slip: a forced cut is not marked. *)
MarksUnopened(w, ts) == IF w.opened = 1 THEN 0 ELSE 1

Discontinuity(w, ts) == IF w.opened = 1 /\ ~Forced(w, ts) THEN 0 ELSE 1

UpdateLive(w, ts, boundary, flush_rate, fail) ==
  LET measured == Measure(w, ts)
      waiting  == IF Waits(w, ts) THEN [measured EXCEPT !.frag_ts = ts] ELSE measured
      cut      == IF Cuts(measured, ts, boundary)
                    THEN OpenLive(CloseLive(waiting, fail), ts, Discontinuity(w, ts), fail)
                    ELSE waiting
  IN  UpdateFragment(cut, ts, flush_rate)

-----------------------------------------------------------------------------
(* Messages. *)

NoAudio == codec.aac = "none"
NoVideo == codec.avc = {}

(* No frame header can be made from the sequence header. *)
BadHeader == codec.aac = "bad"

AudioRoom(w, a, fail) == MakeRoom(UpdateLive(w, Ticks(a.ts), NoVideo, 2, fail), a)

(* Slip: the copy goes on beyond the end of the buffer. *)
FillUncapped(w, a) == [w EXCEPT !.used = @ + a.size, !.held = Append(@, a)]

(* The message's bytes, as many as there is room for. *)
Fill(w, a) ==
  [w EXCEPT !.used = IF @ + a.size > AudioBufferSize THEN AudioBufferSize ELSE @ + a.size,
            !.held = Append(@, a)]

(* A message is taken unless it is too big or 7 bytes do not fit.  One     *)
(* whose header cannot be made for want of a good sequence header stays in *)
(* the buffer as it is, and the audio clock does not see it.               *)
AudioLive(w, a, fail) ==
  IF NoAudio \/ a.size > AudioBufferSize THEN w
  ELSE LET room   == AudioRoom(w, a, fail)
           filled == Fill(room, a)
       IN  IF room.used + 7 > AudioBufferSize THEN room
           ELSE IF BadHeader THEN filled
           ELSE [AppendAudio(room, a) EXCEPT !.used = filled.used]

Takes(w, a, fail) ==
  ~NoAudio /\ a.size <= AudioBufferSize /\ AudioRoom(w, a, fail).used + 7 <= AudioBufferSize

(* A key frame may begin a fragment if there is no audio to begin with, or *)
(* none is expected.                                                       *)
Boundary(w, v) == v.key = 1 /\ (NoAudio \/ w.opened = 0 \/ w.used > 0)

Picture(v) == AccessUnit(v, CHOOSE h \in codec.avc : TRUE)

(* The writer when it comes to the picture's turn. *)
BeforePicture(w, v, fail) == UpdateLive(w, Ticks(v.ts), Boundary(w, v), 1, fail)

VideoLive(w, v, fail) ==
  IF NoVideo THEN w
  ELSE LET out == Picture(v)
           up  == BeforePicture(w, v, fail)
           n   == PacketCount([size |-> out.used, key |-> v.key, cts |-> v.cts])
       IN  IF out.result # "whole" THEN w
           ELSE IF up.opened = 0 THEN up
           ELSE [Put(up, [pid |-> VideoPid, dts |-> Ticks(v.ts), cc |-> up.video_cc, n |-> n,
                          es |-> out.units])
                 EXCEPT !.video_cc = @ + n]

-----------------------------------------------------------------------------
(* The life of a stream. *)

NoHeaders == [avc |-> {}, aac |-> "none"]

EmptyRing == [s \in Slots(hacf) |-> NoFrag]

(* The context memzero leaves; the ring is kept.  The fields from named on *)
(* are the live path's own; named tells whether the paths are made.        *)
Blank(frags, files) ==
  [ opened |-> 0, flag_m3u8 |-> 0, used |-> 0, held |-> <<>>, aframe_num |-> 0, aframe_base |-> 0,
    aframe_pts |-> 0, audio_cc |-> 0, video_cc |-> 0, segments |-> <<>>,
    named |-> 0, var |-> 0, frag |-> 0, nfrags |-> 0, frags |-> frags, frag_ts |-> 0,
    key_id |-> 0, key_frags |-> 0, closed |-> <<>>,
    playlist |-> files.playlist, var_playlist |-> files.var_playlist, dirs |-> files.dirs,
    keyfiles |-> files.keyfiles, failed |-> files.failed, found |-> files.found ]

NoFiles == [playlist |-> <<>>, var_playlist |-> 0, dirs |-> {}, keyfiles |-> {}, failed |-> {}, found |-> 0]

(* The fragments a playlist lists. *)
ListedIn(lines) == Len(SelectSeq(lines, LAMBDA l : l.tag = "ts"))

(* A name with ".." is refused, when the context has been cleared already. *)
PublishLive(w, good, fail) ==
  LET blank == Blank(w.frags, w)
      named == [blank EXCEPT !.named = 1, !.var = hacf.variant, !.found = ListedIn(w.playlist)]
  IN  IF good = 0 THEN blank
      ELSE IF hacf.continuous = 1 THEN RestoreStream(named, hacf, fail) ELSE named

Init ==
  /\ hacf \in Configuration
  /\ codec = NoHeaders
  /\ ctx = Blank(EmptyRing, NoFiles)
  /\ heard = <<>>
  /\ calls = [messages |-> 0, publishes |-> 0, ends |-> 0, failures |-> 0]

(* One call, with a file operation that fails or without. *)
Call(counter, fail) ==
  /\ calls[counter] < Bound[counter]
  /\ calls' = [calls EXCEPT ![counter] = @ + 1, !.failures = IF fail = "none" THEN @ ELSE @ + 1]
  /\ calls'.failures <= Bound.failures

Publish(good, fail) ==
  /\ Call("publishes", fail)
  /\ ctx' = PublishLive(ctx, good, fail)
  /\ heard' = <<>>
  /\ UNCHANGED <<hacf, codec>>

(* The server keeps the sequence headers of a stream. *)
SequenceHeader ==
  /\ ctx.named = 1
  /\ \/ NoVideo /\ \E h \in AvcHeader : codec' = [codec EXCEPT !.avc = {h}]
     \/ NoAudio /\ \E quality \in {"good", "bad"} : codec' = [codec EXCEPT !.aac = quality]
  /\ UNCHANGED <<hacf, ctx, heard, calls>>

(* Messages come only for a stream that could be published. *)
Audio(a, fail) ==
  /\ ctx.named = 1
  /\ Call("messages", fail)
  /\ ctx' = AudioLive(ctx, a, fail)
  /\ heard' = IF Takes(ctx, a, fail) THEN Append(heard, a) ELSE heard
  /\ UNCHANGED <<hacf, codec>>

Video(v, fail) ==
  /\ ctx.named = 1
  /\ Call("messages", fail)
  /\ ctx' = VideoLive(ctx, v, fail)
  /\ UNCHANGED <<hacf, codec, heard>>

(* Each picture that is written is also appended to the file "111.264": if *)
(* that cannot be opened, fwrite gets a null pointer and the server ends.  *)
(* Started again it has what is on disk, and none of its memory.           *)
Crash(v) ==
  /\ ctx.named = 1
  /\ ~NoVideo /\ Picture(v).result = "whole" /\ BeforePicture(ctx, v, "none").opened = 1
  /\ Call("messages", "dump")
  /\ ctx' = Blank(EmptyRing, BeforePicture(ctx, v, "none"))
  /\ codec' = NoHeaders
  /\ heard' = <<>>
  /\ UNCHANGED hacf

StreamEof(fail) ==
  /\ Call("ends", fail)
  /\ ctx' = CloseLive(FlushLive(ctx), fail)
  /\ UNCHANGED <<hacf, codec, heard>>

CloseStream(fail) ==
  /\ Call("ends", fail)
  /\ ctx' = CloseLive(ctx, fail)
  /\ UNCHANGED <<hacf, codec, heard>>

Next ==
  \/ SequenceHeader
  \/ \E v \in VideoMessage : Crash(v)
  \/ \E fail \in {"none"} \cup Failure :
       \/ \E good \in {0, 1} : Publish(good, fail)
       \/ \E a \in AudioMessage : Audio(a, fail)
       \/ \E v \in VideoMessage : Video(v, fail)
       \/ StreamEof(fail)
       \/ CloseStream(fail)

Spec == Init /\ [][Next]_vars

-----------------------------------------------------------------------------
(* Properties. *)

Frag == [id : Nat, key_id : Nat, duration : Nat, discont : {0, 1}, active : {0, 1}, ts : Nat]

(* The window and the buffer keep within their sizes, whatever happens.    *)
(* Unlike the converter's audio_ex, this handler copies only what there is *)
(* room for, so the buffer is bounded with no fragment open, too.          *)
TypeOK ==
  /\ ctx.opened \in {0, 1} /\ ctx.named \in {0, 1}
  /\ ctx.frags \in [Slots(hacf) -> Frag]
  /\ ctx.frag \in Nat /\ ctx.nfrags \in 0 .. hacf.winfrags
  /\ ctx.frag_ts \in Nat /\ ctx.key_id \in Nat /\ ctx.key_frags \in Nat
  /\ ctx.used \in 0 .. AudioBufferSize
  /\ ctx.opened = 1 => ctx.segments # <<>>

(* The list the writer keeps is the sliding window of the fragments closed *)
(* since the stream was published: opening a fragment never touches a      *)
(* listed one, although they share a ring.                                 *)
Window == INSTANCE SlidingWindow WITH
            window <- hacf.winfrags, listed <- Listed(ctx, hacf), sequence <- ctx.frag

ImplementsWindow == Window!Spec

(* Once something is listed, and no file operation failed, the playlist on *)
(* disk shows the window as it is, every fragment closed and none open.    *)
ListPublished == calls.failures = 0 /\ ctx.nfrags > 0 => ctx.playlist = PlaylistLines(ctx, hacf)

(* A fragment ends where the next begins, and where the slicing says. *)
Sliced(f, ts) ==
  IF hacf.slicing = "plain" THEN f.duration >= hacf.fraglen * 90
                            ELSE f.ts \div (hacf.fraglen * 90) # ts \div (hacf.fraglen * 90)

LeadsTo(f, ts) == (f.ts + f.duration) % U64 = ts /\ Sliced(f, ts)

Short(duration) == duration <= hacf.max_fraglen * 90 \/ duration >= U64 - 90000

(* A player counts on a fragment without a discontinuity mark to begin     *)
(* where the one before it in the list ends; and that one was cut where    *)
(* the slicing says.  None outlasts max_fraglen, except that one measured  *)
(* by a frame from before its start has a duration near 2^64.              *)
Timeline ==
  LET all == [i \in 1 .. ctx.nfrags + ctx.opened |-> GetFrag(ctx, hacf, i - 1)]
  IN  /\ \A i \in 2 .. Len(all) : all[i].discont = 0 => LeadsTo(all[i - 1], all[i].ts)
      /\ \A i \in 1 .. ctx.nfrags : Short(all[i].duration)

(* What a player makes of a playlist, line after line: the first fragment's *)
(* number, and each fragment with the duration, the mark and the key in     *)
(* force where its name stands.  This is how the format is defined, not     *)
(* code of the program.                                                     *)
PlayLine(r, line) ==
  CASE line.tag = "MEDIA-SEQUENCE" -> [r EXCEPT !.sequence = line.value]
    [] line.tag = "KEY"            -> [r EXCEPT !.key_id = line.value]
    [] line.tag = "EXTINF"         -> [r EXCEPT !.duration = line.value * 90]
    [] line.tag = "DISCONTINUITY"  -> [r EXCEPT !.discont = 1]
    [] line.tag = "ts" ->
         [r EXCEPT !.list = Append(@, [ id |-> line.value, duration |-> r.duration,
                                        discont |-> r.discont, key_id |-> r.key_id ]),
                   !.discont = 0]
    [] OTHER -> r

Played(lines) ==
  FoldLeft(LAMBDA r, line : PlayLine(r, line),
           [sequence |-> 0, list |-> <<>>, duration |-> 0, discont |-> 0, key_id |-> 0], lines)

(* A player of the playlist has the window: the same fragments, each with  *)
(* its own key and mark, and its duration to the millisecond.  The key is  *)
(* written where it changes only, and must hold for every fragment behind. *)
PlayersHaveTheWindow ==
  LET seen == Played(PlaylistLines(ctx, hacf))
      same(s, f) == /\ s.id = f.id /\ s.discont = f.discont
                    /\ s.duration - f.duration \in -45 .. 45
                    /\ hacf.keys = 1 => s.key_id = f.key_id
  IN  /\ seen.sequence = ctx.frag /\ Len(seen.list) = ctx.nfrags
      /\ \A i \in 1 .. ctx.nfrags : same(seen.list[i], GetFrag(ctx, hacf, i - 1))

(* The key of every closed fragment had its file made before, or the file  *)
(* could not be made when it was due (`failed`): then the fragments of     *)
(* that key are encrypted with one no player can get, as key_id and        *)
(* key_frags are set before the file is opened.  And a key serves at most  *)
(* frags_per_key fragments; this is so when a fragment's name is its       *)
(* number, not rounded, because a key has its first fragment's name.       *)
KeysRotate ==
  hacf.keys = 1 =>
    /\ \A i \in 1 .. Len(ctx.closed) : ctx.closed[i].key_id \in ctx.keyfiles \cup ctx.failed
    /\ hacf.frags_per_key > 0 /\ hacf.naming = "sequential" /\ hacf.granularity = 0 =>
         \A i \in 1 .. Len(ctx.closed) - hacf.frags_per_key :
           ctx.closed[i + hacf.frags_per_key].key_id # ctx.closed[i].key_id

(* Every audio message taken since the stream was published is in the      *)
(* fragments or in the buffer, once and in order, however fragments fail   *)
(* to open (with no fragment open, one may lose its end to a full buffer). *)
AudioOnce ==
  FlattenSeq([i \in 1 .. Len(ctx.segments) |-> FramesIn(ctx.segments[i], AudioPid)]) \o ctx.held
    = heard

(* Where the units of some types are. *)
At(es, types) == {i \in 1 .. Len(es) : es[i] \in types}

(* One delimiter, before the first slice; and parameter sets before an IDR *)
(* slice, once for a run of them; no delimiter or parameter set of the     *)
(* source comes through.                                                   *)
Decodable(es) ==
  /\ Cardinality(At(es, {Aud})) = IF At(es, {Slice, Idr, Sei}) = {} THEN 0 ELSE 1
  /\ \A i \in At(es, {Aud}), j \in At(es, {Slice, Idr, Sei}) : i < j
  /\ \A i \in At(es, {Idr}) : \E j \in At(es, {7}) : j < i /\ At(es, {Slice}) \cap (j .. i) = {}
  /\ Cardinality(At(es, {7})) <= Cardinality(At(es, {Slice})) + 1

(* So it is for each picture written; a decoder can start at one with an   *)
(* IDR slice.                                                              *)
PicturesDecodable ==
  \A s \in 1 .. Len(ctx.segments) : \A p \in 1 .. Len(ctx.segments[s].frames) :
    LET pes == ctx.segments[s].frames[p]
    IN  pes.pid = VideoPid => Decodable(pes.es)

(* This asks for sequence headers of one sequence parameter set, other     *)
(* parameter sets behind it, and nothing else; and for pictures that leave *)
(* room in the buffer for these once more.  A delimiter or a parameter set *)
(* there is no room for is left out, and the picture written without.      *)
Bytes(n, nal) == n + 4 + nal.len
HeaderBytes(h) == FoldLeft(Bytes, 0, h.nals)

PlainHeader(h) ==
  /\ h.cut = "no" /\ h.nals \in Seq([type : Nat, len : Nat]) /\ h.nals # <<>>
  /\ \A i \in 1 .. Len(h.nals) :
       IF i = 1 THEN h.nals[i].type = 7 ELSE h.nals[i].type \notin {Slice, Idr, Sei, 7, Aud}

Roomy(v, h) ==
  /\ v.nals \in Seq([type : Nat, len : Nat])
  /\ LET out == AccessUnit(v, h)
     IN  out.result = "whole" => out.used + 6 + HeaderBytes(h) <= BufSize

Playable == \A h \in AvcHeader : PlainHeader(h) /\ \A v \in VideoMessage : Roomy(v, h)

(* What the restore is for: a stream that is published again goes on       *)
(* numbering behind the fragments its playlist lists.                      *)
NumberingContinues ==
  hacf.continuous = 1 /\ ctx.named = 1 => ctx.frag + ctx.nfrags >= ctx.found
=============================================================================
