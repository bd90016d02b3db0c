----------------------------- MODULE HlsContext -----------------------------
(***************************************************************************)
(* The HLS writer of the converter, class CHlsModule: the operations       *)
(* open_fragment_ex, close_fragment_ex2, flush_audio_ex,                   *)
(* update_fragment_ex, audio_ex and video_ex, each as an operator from the *)
(* writer's context `ctx` to the context it leaves.  The callers run       *)
(* several of them inside one tag handler, so they compose as functions.   *)
(*                                                                         *)
(* An audio frame is [ts, size] and a video frame [ts, size, key], with ts *)
(* in milliseconds as the FLV tag has it.  The bytes the audio buffer      *)
(* holds are `used`; `held`, the frames they belong to, and `segments`,    *)
(* what was written to each fragment, stand for the bytes themselves.      *)
(***************************************************************************)
EXTENDS MpegTsPacket, Integers, SequencesExt

CONSTANTS
  AudioBufferSize,  (* hacf.audio_buffer_size, in bytes.                   *)
  VideoBufferSize,  (* NGX_RTMP_HLS_BUFSIZE, in bytes.                     *)
  MaxAudioDelay,    (* hacf.max_audio_delay, in milliseconds.              *)
  Sync,             (* hacf.sync, in milliseconds.                         *)
  SampleRate        (* codec_ctx.sample_rate, fixed by the constructor.    *)

ASSUME ConfAssumption ==
  /\ AudioBufferSize \in Nat /\ AudioBufferSize >= 7
  /\ VideoBufferSize \in Nat
  /\ MaxAudioDelay \in Nat
  /\ Sync \in Nat \ {0}
  /\ SampleRate \in Nat \ {0}

AudioPid == 257
VideoPid == 256

Ticks(ts) == ts * 90

(* A context nobody has written to yet, with the counters and the audio    *)
(* clock the command line gives it.                                        *)
NewContext(ac, vc, base, pts) ==
  [ opened |-> 0, flag_m3u8 |-> 0, used |-> 0, held |-> <<>>,
    aframe_num |-> 0, aframe_base |-> base, aframe_pts |-> pts,
    audio_cc |-> ac, video_cc |-> vc, segments |-> <<>> ]

-----------------------------------------------------------------------------
(* Write one elementary stream frame into the open fragment. *)
Put(ctx, pes) ==
  [ctx EXCEPT !.segments[Len(ctx.segments)].frames = Append(@, pes)]

(* What of one stream was written to a fragment, for the properties. *)
FramesIn(segment, pid) ==
  FlattenSeq([ j \in 1 .. Len(segment.frames) |->
                 IF segment.frames[j].pid = pid THEN segment.frames[j].es ELSE <<>> ])

AudioPackets(n) == PacketCount([size |-> n, key |-> 0, cts |-> 0])
VideoPackets(v) == PacketCount([size |-> v.size + 6, key |-> v.key, cts |-> 0])

(* Slips: the buffer is not rewound; the counter counts frames, not        *)
(* packets; the fragment need not be open.                                 *)
FlushWithoutRewind(ctx) ==
  IF ctx.opened = 0 \/ ctx.used = 0 THEN ctx
  ELSE [ Put(ctx, [ pid |-> AudioPid, dts |-> ctx.aframe_pts, cc |-> ctx.audio_cc,
                    n |-> AudioPackets(ctx.used), es |-> ctx.held ])
         EXCEPT !.audio_cc = @ + AudioPackets(ctx.used), !.held = <<>> ]

FlushCountsFrames(ctx) ==
  IF ctx.opened = 0 \/ ctx.used = 0 THEN ctx
  ELSE [ Put(ctx, [ pid |-> AudioPid, dts |-> ctx.aframe_pts, cc |-> ctx.audio_cc,
                    n |-> AudioPackets(ctx.used), es |-> ctx.held ])
         EXCEPT !.audio_cc = @ + 1, !.used = 0, !.held = <<>> ]

FlushUnopened(ctx) ==
  IF ctx.segments = <<>> \/ ctx.used = 0 THEN ctx
  ELSE [ Put(ctx, [ pid |-> AudioPid, dts |-> ctx.aframe_pts, cc |-> ctx.audio_cc,
                    n |-> AudioPackets(ctx.used), es |-> ctx.held ])
         EXCEPT !.audio_cc = @ + AudioPackets(ctx.used), !.used = 0, !.held = <<>> ]

(* The buffered audio leaves as one frame, stamped with the buffer's time. *)
FlushAudio(ctx) ==
  IF ctx.opened = 0 \/ ctx.used = 0 THEN ctx
  ELSE [ Put(ctx, [ pid |-> AudioPid, dts |-> ctx.aframe_pts, cc |-> ctx.audio_cc,
                    n |-> AudioPackets(ctx.used), es |-> ctx.held ])
         EXCEPT !.audio_cc = @ + AudioPackets(ctx.used), !.used = 0, !.held = <<>> ]

(* Slip: the rate is not applied. *)
UpdateAtFullDelay(ctx, ts, flush_rate) ==
  IF ctx.opened = 1 /\ ctx.used > 0 /\ ctx.aframe_pts + MaxAudioDelay * 90 < ts
  THEN FlushAudio(ctx) ELSE ctx

(* Audio waits in the buffer for at most MaxAudioDelay / flush_rate. *)
UpdateFragment(ctx, ts, flush_rate) ==
  IF /\ ctx.opened = 1 /\ ctx.used > 0
     /\ ctx.aframe_pts + (MaxAudioDelay * 90) \div flush_rate < ts
  THEN FlushAudio(ctx) ELSE ctx

(* Where the audio clock expects the next frame: aframe_num frames of 1024 *)
(* samples after the base.                                                 *)
EstimatedPts(ctx) == ctx.aframe_base + (ctx.aframe_num * 92160000) \div SampleRate

(* Slip: only one side is looked at. *)
InSyncAbove(d) == d <= Sync * 90

InSync(d) == d <= Sync * 90 /\ d >= - (Sync * 90)

Buffer(ctx, a) == [ctx EXCEPT !.used = @ + a.size, !.held = Append(@, a)]

(* Add a frame to the buffer.  The first one sets the buffer's time: the   *)
(* estimate if that is close enough, else the frame's own, which restarts  *)
(* the audio clock.                                                        *)
AppendAudio(ctx, a) ==
  LET pts == Ticks(a.ts)
      est == EstimatedPts(ctx)
  IN  IF ctx.used > 0
        THEN [Buffer(ctx, a) EXCEPT !.aframe_num = @ + 1]
      ELSE IF InSync(est - pts)
        THEN [Buffer(ctx, a) EXCEPT !.aframe_num = @ + 1, !.aframe_pts = est]
      ELSE [Buffer(ctx, a) EXCEPT !.aframe_num = 1, !.aframe_pts = pts, !.aframe_base = pts]

(* Slip: the new frame is not counted. *)
RoomForHeldOnly(ctx, a) == IF ctx.used > AudioBufferSize THEN FlushAudio(ctx) ELSE ctx

(* Room is made by writing out what is buffered. *)
MakeRoom(ctx, a) ==
  IF ctx.used + a.size > AudioBufferSize THEN FlushAudio(ctx) ELSE ctx

AudioEx(ctx, a) ==
  IF a.size > AudioBufferSize THEN ctx
  ELSE LET room == MakeRoom(UpdateFragment(ctx, Ticks(a.ts), 2), a)
       IN  IF room.used + 7 > AudioBufferSize THEN room ELSE AppendAudio(room, a)

(* A key frame first lets overdue audio out; video then goes straight to   *)
(* the fragment, behind an access unit delimiter of 6 bytes.               *)
VideoEx(ctx, v) ==
  LET up == IF v.key = 1 THEN UpdateFragment(ctx, Ticks(v.ts), 1) ELSE ctx
  IN  IF v.size + 6 > VideoBufferSize THEN ctx
      ELSE IF up.opened = 0 THEN up
      ELSE [ Put(up, [ pid |-> VideoPid, dts |-> Ticks(v.ts), cc |-> up.video_cc,
                       n |-> VideoPackets(v), es |-> <<v>> ])
             EXCEPT !.video_cc = @ + VideoPackets(v) ]

(* `writable` is 1 when the file can be created.  A playlist-only run      *)
(* creates none.  Leftover audio goes first into the new fragment.         *)
OpenFragment(ctx, name, flag_m3u8, writable) ==
  IF ctx.opened = 1 THEN ctx
  ELSE IF flag_m3u8 = 0 /\ writable = 0 THEN [ctx EXCEPT !.flag_m3u8 = 0]
  ELSE FlushAudio([ ctx EXCEPT !.opened = 1, !.flag_m3u8 = flag_m3u8,
                    !.segments = Append(@, [name |-> name, frames |-> <<>>]) ])

(* Slip: closing without the flush, as the older close_fragment_ex does.   *)
CloseWithoutFlush(ctx) ==
  IF ctx.opened = 0 THEN ctx ELSE [ctx EXCEPT !.opened = 0, !.aframe_num = 0]

CloseFragment(ctx) ==
  IF ctx.opened = 0 THEN ctx
  ELSE [FlushAudio(ctx) EXCEPT !.opened = 0, !.aframe_num = 0]
=============================================================================
