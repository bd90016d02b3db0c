---------------------------- MODULE HlsSegmenter ----------------------------
(***************************************************************************)
(* The tag handlers of the HLS dump: hls_on_video_tag_ex,                  *)
(* hls_on_audio_tag_ex and hls_segment_finish, with the segmenter they     *)
(* call.  Each is an operator from the parser record `p` to the record the *)
(* handler leaves.                                                         *)
(*                                                                         *)
(* A tag is [type, ts, size, damage].  The type "avcc" is an AVC sequence  *)
(* header, "key" and "inter" an AVC picture (the end-of-sequence packet is *)
(* a picture of size 0), "aac" an AAC frame, "other" a tag no handler      *)
(* reads (AAC sequence header, other codecs, empty bodies, metadata).      *)
(* `damage` says which read of the tag fails: "type" the packet type,      *)
(* "body" something behind it, "none" no read.                             *)
(*                                                                         *)
(* p.status follows flv_get_raw_av: "running", "finished", "aborted" (a    *)
(* handler or a read failed and the function returned early) or "crashed"  *)
(* (division by zero, a write to a playlist that could not be opened, or   *)
(* memory behind the audio buffer overwritten, after which the build may   *)
(* do anything).                                                           *)
(*                                                                         *)
(* Every call of the segmenter tries to create a segment and, until it has *)
(* one, the playlist; each attempt may fail by itself.  p.refused holds    *)
(* the attempts that will: <<"playlist", k>> and <<"segment", k>> are      *)
(* those of the k-th call.                                                 *)
(***************************************************************************)
EXTENDS HlsContext

CONSTANT U32  (* 2^32, the range of the counters and time stamps. *)

ASSUME U32Assumption == U32 \in Nat /\ U32 > 1

(* A parser before its first tag.  `options` are -t and -m.                *)
NewParser(options, key_ID_start, segment_num, refused, ctx) ==
  [ b_ts |-> options.ts, b_m3u8 |-> options.m3u8,
    key_ID_start |-> key_ID_start, segment_num |-> segment_num,
    refused |-> refused, ctx |-> ctx, status |-> "running",
    flag_first_ts |-> 0, hls_start_ts |-> 0, hls_end_ts |-> 0, hls_segment_num |-> 0,
    key_frame_count |-> 0, ts_fragment_id |-> 0, ts_count |-> 0, hls_segment_duration |-> 0,
    ts_start_flag |-> 0, seek_flag1 |-> 0, seek_flag2 |-> 0, flag_over |-> 0,
    hls_file |-> 0, hls_content |-> <<>>, written |-> <<>> ]

(* With -t alone no playlist is written, with -m alone no file; with both  *)
(* or neither of them all are.                                             *)
HasPlaylist(p) == p.b_ts = 0 \/ p.b_m3u8 = 1
HasFiles(p)    == p.b_ts = 1 \/ p.b_m3u8 = 0

-----------------------------------------------------------------------------
(* num2str: a double cast to 32 bits.  A clock an option made negative is  *)
(* near 2^64 here, out of the cast's range, and comes out as 0 on x86-64.  *)
Printed(x) == IF x < 0 THEN 0 ELSE x % U32

(* Slip: the two counters are exchanged. *)
NameSwapped(p, key, count) ==
  [ key |-> Printed(key), ac |-> Printed(p.ctx.video_cc), vc |-> Printed(p.ctx.audio_cc),
    base |-> Printed(p.ctx.aframe_base), pts |-> Printed(p.ctx.aframe_pts), count |-> count % U32 ]

(* Names.  A name carries what a later run needs to write the segment      *)
(* again; paths, -sum- and -seg- are the same in all names of a run.       *)
NameOf(p, key, count) ==
  [ key |-> Printed(key), ac |-> Printed(p.ctx.audio_cc), vc |-> Printed(p.ctx.video_cc),
    base |-> Printed(p.ctx.aframe_base), pts |-> Printed(p.ctx.aframe_pts), count |-> count % U32 ]

(* Slip: key frames counted from 1. *)
KeyIdFromOne(p) == p.ts_fragment_id + p.key_ID_start

KeyId(p) == IF p.ts_fragment_id + p.key_ID_start > 0
            THEN p.ts_fragment_id + p.key_ID_start - 1 ELSE 0

Count(p) == p.ts_count + p.key_ID_start \div p.hls_segment_num

(* The name of the file, and (get_ts_name_ex) the playlist's name for it.  *)
TsName(p) ==
  NameOf( p,
          IF p.seek_flag1 = 1 THEN p.ts_fragment_id + p.key_ID_start ELSE KeyId(p),
          IF p.key_ID_start # 0 /\ p.seek_flag2 = 0 THEN Count(p) - 1 ELSE Count(p) )

ListedName(p) == NameOf(p, KeyId(p), Count(p))

-----------------------------------------------------------------------------
(* The segmenter: hls_segment_ts, _m3u8 and _ts_m3u8, which share their    *)
(* steps.                                                                  *)
Header ==
  << [line |-> "EXTM3U"], [line |-> "VERSION"],
     [line |-> "TARGETDURATION", value |-> 12], [line |-> "MEDIA-SEQUENCE"] >>

Extinf(ms) == [line |-> "EXTINF", value |-> ms]
Uri(name)  == [line |-> "URI", name |-> name]
Endlist    == [line |-> "ENDLIST"]

Crash(p) == [p EXCEPT !.status = "crashed"]

(* Slip: the interval is signed. *)
SignedInterval(p) == p.hls_end_ts - p.hls_start_ts

Interval(p) == (p.hls_end_ts - p.hls_start_ts) % U32

(* Slip: the duration goes behind the name. *)
AppendDuration(content, ms) == Append(content, Extinf(ms))

(* A duration goes before the playlist's last line, the segment's name.    *)
InsertDuration(content, ms) ==
  SubSeq(content, 1, Len(content) - 1) \o <<Extinf(ms), content[Len(content)]>>

(* The open segment ends. *)
CloseSegment(p) ==
  LET closed == [p EXCEPT !.ctx = CloseFragment(@), !.ts_start_flag = 0]
  IN  IF p.ts_start_flag = 0 THEN p
      ELSE IF ~HasPlaylist(p) THEN closed
      ELSE [ closed EXCEPT
               !.hls_start_ts = p.hls_end_ts,
               !.hls_segment_duration = IF @ > Interval(p) THEN @ ELSE Interval(p),
               !.hls_content = InsertDuration(@, Interval(p)) ]

(* The number of the segmenter's call in its run. *)
Call(p) == p.flag_first_ts + p.ts_count + p.flag_over

Takes(p, file) == IF <<file, Call(p)>> \in p.refused THEN 0 ELSE 1

(* Slip: a playlist that could not be opened is not tried again. *)
OpenPlaylistOnce(p) ==
  IF ~HasPlaylist(p) \/ p.hls_content # <<>> THEN p
  ELSE [p EXCEPT !.hls_file = Takes(p, "playlist"), !.hls_content = @ \o Header]

(* Every attempt puts the header's lines behind those there are. *)
OpenPlaylist(p) ==
  IF ~HasPlaylist(p) \/ p.hls_file = 1 THEN p
  ELSE [p EXCEPT !.hls_file = Takes(p, "playlist"), !.hls_content = @ \o Header]

(* A seek run that writes files only starts its first one at a key frame.  *)
(* Naming the segment divides by hls_segment_num.  A segment that cannot   *)
(* be created is listed all the same.                                      *)
NewSegment(p) ==
  IF ~HasPlaylist(p) /\ p.key_ID_start # 0 /\ p.key_frame_count = 0 THEN p
  ELSE IF p.hls_segment_num = 0 THEN Crash(p)
  ELSE [ p EXCEPT
           !.hls_content = IF HasPlaylist(p) THEN Append(@, Uri(ListedName(p))) ELSE @,
           !.ctx = OpenFragment(@, TsName(p), IF HasFiles(p) THEN 0 ELSE 1,
                                Takes(p, "segment")),
           !.seek_flag1 = 0,
           !.ts_start_flag = 1 ]

(* Written at once, from memory, with the longest duration on line 3. *)
EndPlaylist(p) ==
  IF ~HasPlaylist(p) THEN p
  ELSE IF p.hls_file = 0 THEN Crash(p)
  ELSE [ p EXCEPT
           !.written = [ Append(p.hls_content, Endlist) EXCEPT
                         ![3] = [line |-> "TARGETDURATION",
                                 value |-> (p.hls_segment_duration + 999) \div 1000] ],
           !.hls_file = 0,
           !.hls_content = <<>> ]

HlsSegment(p) ==
  LET ready == OpenPlaylist(CloseSegment(p))
  IN  IF p.flag_over = 0 THEN NewSegment(ready) ELSE EndPlaylist(ready)

-----------------------------------------------------------------------------
(* Slip: a run that gives up still writes the playlist it has. *)
AbortPublishing(p) == [EndPlaylist(p) EXCEPT !.status = "aborted"]

(* An early return of flv_get_raw_av: nothing is closed or written. *)
Abort(p) == [p EXCEPT !.status = "aborted"]

(* Slip: the first key of a segment is the first of the next. *)
AtNextKey(p) ==
  IF p.hls_segment_num = 0 THEN Crash(p)
  ELSE IF p.key_frame_count % p.hls_segment_num # 0 THEN p
  ELSE HlsSegment([p EXCEPT !.ts_fragment_id = p.key_frame_count, !.ts_count = @ + 1])

(* The handlers.  At every hls_segment_num-th key frame a segment starts. *)
AtKey(p) ==
  IF p.hls_segment_num = 0 THEN Crash(p)
  ELSE IF (p.key_frame_count - 1) % p.hls_segment_num # 0 THEN p
  ELSE HlsSegment([p EXCEPT !.ts_fragment_id = p.key_frame_count, !.ts_count = @ + 1])

CountKey(p) == [p EXCEPT !.key_frame_count = @ + 1]

OnSequenceHeader(p) ==
  LET seeks   == p.key_ID_start # 0 /\ p.key_frame_count = 0
      flagged == IF seeks THEN [p EXCEPT !.seek_flag1 = 1, !.seek_flag2 = 1] ELSE p
      counted == CountKey(flagged)
  IN  IF counted.key_frame_count > 1 THEN AtKey(counted) ELSE counted

(* The first packet with media opens the first segment, and only then does *)
(* hls_segment_num get its value.                                          *)
FirstPacket(p, t) ==
  IF p.flag_first_ts = 1 THEN p
  ELSE HlsSegment([ p EXCEPT !.hls_start_ts = t.ts, !.hls_segment_num = p.segment_num,
                             !.flag_first_ts = 1 ])

Running(p) == p.status = "running"

OnPicture(p, t) ==
  LET first   == FirstPacket(p, t)
      stamped == [first EXCEPT !.hls_end_ts = t.ts]
      cut     == IF t.type = "key" THEN AtKey(CountKey(stamped)) ELSE stamped
  IN  IF ~Running(first) THEN first
      ELSE IF t.damage = "body" THEN Abort(first)
      ELSE IF ~Running(cut) THEN cut
      ELSE [ cut EXCEPT !.ctx = VideoEx(@, [ ts |-> t.ts, size |-> t.size,
                                             key |-> IF t.type = "key" THEN 1 ELSE 0 ]) ]

(* An AAC frame goes out behind an ADTS header of 7 bytes.  With no file   *)
(* to flush to, audio_ex looks for room for 7 bytes only and may copy past *)
(* the end of its buffer.                                                  *)
OnSound(p, t) ==
  LET first == FirstPacket(p, t)
      heard == [ first EXCEPT !.hls_end_ts = t.ts,
                              !.ctx = AudioEx(@, [ts |-> t.ts, size |-> t.size + 7]) ]
  IN  IF ~Running(first) THEN first
      ELSE IF t.damage = "body" THEN Abort(first)
      ELSE IF heard.ctx.used > AudioBufferSize THEN Crash(heard)
      ELSE heard

HandleTag(p, t) ==
  IF t.damage = "type" THEN Abort(p)
  ELSE CASE t.type = "avcc"             -> OnSequenceHeader(p)
         [] t.type \in {"key", "inter"} -> OnPicture(p, t)
         [] t.type = "aac"              -> OnSound(p, t)
         [] OTHER                       -> p

(* Behind the loop: at the end of the file, or of the range asked for. *)
FinishSegments(p) ==
  LET over == HlsSegment([p EXCEPT !.flag_over = 1])
  IN  IF Running(over) THEN [over EXCEPT !.status = "finished"] ELSE over
=============================================================================
