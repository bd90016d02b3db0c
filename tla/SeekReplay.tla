----------------------------- MODULE SeekReplay -----------------------------
(***************************************************************************)
(* What the long names are for: a run that starts at a segment's key frame *)
(* with the options its name carries (-s or -x, -a, -v, -b, -p, and -t)    *)
(* writes the same segments as the run over the whole file that made the   *)
(* name.  The two runs are stepped over the same tags, the first from the  *)
(* file's beginning, the second from the segment on.                       *)
(***************************************************************************)
EXTENDS Transcoder

VARIABLES
  seek,   (* The parser of the run from a segment on, if it has started.   *)
  from,   (* The number of that segment in the whole run, 0 before.        *)
  exact   (* History: 1 if the name said what it was to say.               *)

replay == <<vars, seek, from, exact>>

(* An option holds what was printed into the name as a signed number.      *)
Parsed(x) == IF x < U32 \div 2 THEN x ELSE x - U32

(* Slip: the audio base is not taken over. *)
SeekWithoutBase(name) ==
  NewParser([ts |-> 1, m3u8 |-> 0], name.key, p.segment_num, {},
            NewContext(Parsed(name.ac), Parsed(name.vc), 0, Parsed(name.pts)))

(* main with the options taken from a name. *)
SeekParser(name) ==
  NewParser([ts |-> 1, m3u8 |-> 0], name.key, p.segment_num, {},
            NewContext(Parsed(name.ac), Parsed(name.vc), Parsed(name.base), Parsed(name.pts)))

ReplayInit == Init /\ p.refused = {} /\ seek = p /\ from = 0 /\ exact = 0

(* The whole run reads a tag, which the file need not have been cut at. *)
WholeReads(t) ==
  /\ Running(p)
  /\ Len(read) < MaxTags
  /\ t.damage = "none"
  /\ p' = HandleTag(p, t)
  /\ read' = Append(read, t)

WholeCuts == Len(p'.ctx.segments) > Len(Segments)

(* The file's first key tag is its sequence header, as every AVC file has  *)
(* it.  (A file without one opens two segments with its first key frame,   *)
(* and the seek run, which opens one, counts segments one lower.)          *)
Lead ==
  /\ from = 0
  /\ \E t \in Tag : /\ p.key_frame_count = 0 => t.type # "key"
                    /\ WholeReads(t)
  /\ UNCHANGED <<seek, from, exact>>

(* A name carries a number and its option takes it back, below 2^31: for   *)
(* the audio clock, 6.6 hours.                                             *)
Survives(x) == x \in 0 .. U32 \div 2 - 1

(* The seek run's first tag is the key frame (or sequence header) that     *)
(* opened the segment: keyframePos holds its position under the name's     *)
(* key index.                                                              *)
Seek ==
  /\ from = 0
  /\ p.key_frame_count > 0
  /\ \E t \in Tag :
       /\ WholeReads(t)
       /\ WholeCuts
       /\ LET name == Last(p'.ctx.segments).name
          IN  /\ name.key > 0
              /\ seek' = HandleTag(SeekParser(name), t)
  /\ from' = Len(p'.ctx.segments)
  /\ exact' = IF /\ Survives(p.ctx.video_cc) /\ Survives(p'.ctx.audio_cc)
                 /\ Survives(p'.ctx.aframe_base) /\ Survives(p'.ctx.aframe_pts)
              THEN 1 ELSE 0

Follow ==
  /\ from > 0 /\ Running(seek)
  /\ \E t \in Tag : WholeReads(t) /\ seek' = HandleTag(seek, t)
  /\ UNCHANGED <<from, exact>>

(* The range asked for ends where the whole run cuts: the seek run stops   *)
(* short of the tag.                                                       *)
EndOfRange ==
  /\ from > 0 /\ Running(seek)
  /\ \E t \in Tag : WholeReads(t) /\ WholeCuts
  /\ seek' = FinishSegments(seek)
  /\ UNCHANGED <<from, exact>>

EndOfBoth ==
  /\ from > 0 /\ Running(seek)
  /\ EndOfFile
  /\ seek' = FinishSegments(seek)
  /\ UNCHANGED <<from, exact>>

ReplayNext == Lead \/ Seek \/ Follow \/ EndOfRange \/ EndOfBoth

ReplaySpec == ReplayInit /\ [][ReplayNext]_replay

-----------------------------------------------------------------------------
(* Properties. *)

Sought      == seek.ctx.segments
Counterpart == SubSeq(Segments, from, from + Len(Sought) - 1)

SameSegments ==
  /\ Sought = Counterpart
  /\ seek.flag_first_ts = 1 /\ Running(seek) => Len(Sought) = Len(Segments) - from + 1

(* The buffered audio and its time, the audio clock, both counters. *)
SameState ==
  seek.flag_first_ts = 1 /\ Running(seek) =>
    \A f \in {"held", "used", "aframe_pts", "aframe_base", "aframe_num",
              "audio_cc", "video_cc", "opened"} : seek.ctx[f] = p.ctx[f]

SameIndex ==
  \A i \in 1 .. Len(Sought) :
    LET a == Sought[i].name
        b == Counterpart[i].name
    IN  a.key = b.key /\ a.count = b.count

(* A run that starts at any segment counts keys and segments to the same   *)
(* index as the whole run, and if the name carried the clock and counters  *)
(* it writes the same segments, with the same names, packets, counters and *)
(* time stamps, and goes on from the same state; a range's last segment is *)
(* complete.  It crashes only where a sequence header follows the one it   *)
(* starts at, before any frame has set hls_segment_num; the whole run, for *)
(* which that was set long ago, reads the same file to its end.            *)
SeekReplays ==
  from > 0 =>
    /\ p.status # "crashed"
    /\ SameIndex
    /\ seek.status = "crashed" => seek.key_frame_count = 2 /\ seek.flag_first_ts = 0
    /\ exact = 1 /\ seek.status # "crashed" => SameSegments /\ SameState
=============================================================================
