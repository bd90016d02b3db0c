---------------------------- MODULE HlsFragment ----------------------------
(***************************************************************************)
(* The HLS writer under any caller: fragments are opened and closed, audio *)
(* and video frames handed over, in every order and with any time stamps,  *)
(* including audio before the first fragment, frames that do not fit, and  *)
(* files that cannot be created.                                           *)
(***************************************************************************)
EXTENDS HlsContext

CONSTANTS
  AudioFrame,  (* The audio frames a caller may hand over.                 *)
  VideoFrame,  (* The video frames a caller may hand over.                 *)
  InitialCc,   (* The counters the command line may start from.            *)
  InitialPts,  (* The audio clocks the command line may start from.        *)
  MaxCalls     (* The number of calls.  Bounds the model.                  *)

(* An audio frame begins with its ADTS header. *)
ASSUME InputAssumption ==
  /\ AudioFrame \subseteq [ts : Nat, size : Nat] /\ \A a \in AudioFrame : a.size >= 7
  /\ VideoFrame \subseteq [ts : Nat, size : Nat, key : {0, 1}]
  /\ InitialCc \subseteq Nat
  /\ InitialPts \subseteq Nat
  /\ MaxCalls \in Nat

VARIABLES
  ctx,    (* The writer's context.                                         *)
  calls,  (* Calls made so far.                                            *)
  heard   (* History: for each fragment, and the one to be opened next,    *)
          (* the audio frames the writer took that are meant for it.       *)

vars == <<ctx, calls, heard>>

Init ==
  /\ \E ac, vc \in InitialCc : \E base, pts \in InitialPts :
       ctx = NewContext(ac, vc, base, pts)
  /\ calls = 0
  /\ heard = <<<<>>>>

Call == calls < MaxCalls /\ calls' = calls + 1

Open(flag_m3u8, writable) ==
  /\ Call
  /\ ctx' = OpenFragment(ctx, Len(ctx.segments) + 1, flag_m3u8, writable)
  /\ heard' = IF Len(ctx'.segments) > Len(ctx.segments) THEN Append(heard, <<>>) ELSE heard

Close ==
  /\ Call
  /\ ctx' = CloseFragment(ctx)
  /\ UNCHANGED heard

(* The fragment audio goes to: the open one, or the next to be opened. *)
CurrentFragment == IF ctx.opened = 1 THEN Len(ctx.segments) ELSE Len(ctx.segments) + 1

(* A frame is refused when it can never fit, or when no fragment is open   *)
(* and the buffer is full.                                                 *)
Takes(a) ==
  /\ a.size <= AudioBufferSize
  /\ ctx.opened = 0 => ctx.used + 7 <= AudioBufferSize

Audio(a) ==
  /\ Call
  /\ ctx' = AudioEx(ctx, a)
  /\ heard' = IF Takes(a) THEN [heard EXCEPT ![CurrentFragment] = Append(@, a)] ELSE heard

Video(v) ==
  /\ Call
  /\ ctx' = VideoEx(ctx, v)
  /\ UNCHANGED heard

Next ==
  \/ \E m, w \in {0, 1} : Open(m, w)
  \/ Close
  \/ \E a \in AudioFrame : Audio(a)
  \/ \E v \in VideoFrame : Video(v)

Spec == Init /\ [][Next]_vars

-----------------------------------------------------------------------------
(* Properties. *)

Pes == [ pid : {AudioPid, VideoPid}, dts : Nat, cc : Nat, n : Nat,
         es : Seq(AudioFrame) \cup {<<v>> : v \in VideoFrame} ]

Fragment == [name : Nat, frames : Seq(Pes)]

ContextType ==
  [ opened : {0, 1}, flag_m3u8 : {0, 1}, used : Nat, held : Seq(AudioFrame),
    aframe_num : Nat, aframe_base : Nat, aframe_pts : Nat, audio_cc : Nat, video_cc : Nat,
    segments : Seq(Fragment) ]

TypeOK ==
  /\ ctx \in ContextType
  /\ ctx.opened = 1 => ctx.segments # <<>>
  /\ ctx.used = 0 <=> ctx.held = <<>>
  /\ calls \in Nat

(* While a fragment is open the audio buffer never overflows: every path   *)
(* that adds to it has made room first (lines 927-954).  With none open    *)
(* the flush does nothing and the check of line 947 protects 7 bytes only. *)
AudioBufferBounded == ctx.opened = 1 => ctx.used <= AudioBufferSize

(* The buffer's time stamp, which all frames in it are sent with, is       *)
(* within Sync of the first one's own: aligning the audio never moves it   *)
(* further, however long the audio clock has been running.                 *)
AudioAligned ==
  ctx.used > 0 => LET d == ctx.aframe_pts - Ticks(ctx.held[1].ts)
                  IN  d <= Sync * 90 /\ -d <= Sync * 90

(* While a fragment is open, no frame waits in the buffer that is later    *)
(* than the buffer's time by more than half the audio delay; whatever the  *)
(* time stamps do, the players' audio is not held back further.            *)
AudioDelayBounded ==
  ctx.opened = 1 =>
    \A i \in 2 .. Len(ctx.held) :
      Ticks(ctx.held[i].ts) <= ctx.aframe_pts + (MaxAudioDelay * 90) \div 2

(* Every audio frame taken is written exactly once, in order, and into the *)
(* fragment that was open when it came (audio that came with none open     *)
(* starts the next): nothing is left behind in the buffer when a fragment  *)
(* closes, and nothing is lost with it.                                    *)
AudioDelivered ==
  LET written(i) == IF i <= Len(ctx.segments) THEN FramesIn(ctx.segments[i], AudioPid) ELSE <<>>
      held(i)    == IF i = CurrentFragment THEN ctx.held ELSE <<>>
  IN  /\ Len(heard) = Len(ctx.segments) + 1
      /\ \A i \in 1 .. Len(heard) : written(i) \o held(i) = heard[i]

(* The places of one stream's frames, <<fragment, frame>>, and their order. *)
Places(pid) ==
  {at \in UNION {{i} \X (1 .. Len(ctx.segments[i].frames)) : i \in 1 .. Len(ctx.segments)} :
     ctx.segments[at[1]].frames[at[2]].pid = pid}

Precedes(p, q) == p[1] < q[1] \/ (p[1] = q[1] /\ p[2] < q[2])

(* The counter a frame leaves behind, and the context's. *)
CounterAfter(p) == LET f == ctx.segments[p[1]].frames[p[2]] IN f.cc + f.n
Counter(pid) == IF pid = AudioPid THEN ctx.audio_cc ELSE ctx.video_cc

(* A stream's continuity counter runs on over all its frames, across the   *)
(* fragments, and the context carries the value the next frame continues   *)
(* from: that value is what goes into a fragment's name.                   *)
CountersContinue ==
  \A pid \in {AudioPid, VideoPid} : \A p \in Places(pid) :
    LET later == {q \in Places(pid) : Precedes(p, q)}
    IN  /\ later = {} => CounterAfter(p) = Counter(pid)
        /\ \A q \in later :
             (\A r \in later : ~Precedes(r, q)) => CounterAfter(p) = ctx.segments[q[1]].frames[q[2]].cc

(* A fragment that has been closed is never written to again. *)
ClosedFragmentsFinal ==
  [][ LET closed == IF ctx.opened = 1 THEN Len(ctx.segments) - 1 ELSE Len(ctx.segments)
      IN  \A i \in 1 .. closed : ctx'.segments[i] = ctx.segments[i] ]_vars
=============================================================================
