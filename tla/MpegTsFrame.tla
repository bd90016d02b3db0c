---------------------------- MODULE MpegTsFrame ----------------------------
(***************************************************************************)
(* The MPEG-TS packetiser, ngx_rtmp_mpegts_write_frame: one elementary     *)
(* stream frame is cut into packets of exactly 188 bytes.  The first       *)
(* packet of a frame carries the PES header and, on a key frame, an        *)
(* adaptation field with the clock; the last one is filled up with         *)
(* stuffing.  One step of the specification is one turn of the while loop. *)
(*                                                                         *)
(* Encryption is left out: no caller of the converter ever enables it.     *)
(***************************************************************************)
EXTENDS MpegTsPacket, MpegTsClock, Sequences

CONSTANTS
  Frame,  (* The frames a caller may hand over.                            *)
  MaxCc   (* No new frame once the counter passed it.  Bounds the model.   *)

FrameType == [size : Nat, key : {0, 1}, cts : Nat, dts : Nat]

ASSUME FrameAssumption == Frame \subseteq FrameType
ASSUME MaxCcAssumption == MaxCc \in Nat

VARIABLES
  frame,    (* The frame being written;                                    *)
  pos,      (* Bytes of it already consumed (b->pos).                      *)
  first,    (* The next packet is the first of the frame.                  *)
  cc,       (* The stream's continuity counter, f->cc (64 bits wide).      *)
  packets,  (* The packets of the frame so far.                            *)
  stamps,   (* The clock and time stamps in the first of them.             *)
  pc,       (* Whether the loop is running.                                *)
  cc0       (* History: the counter when the frame was handed over.        *)

vars == <<frame, pos, first, cc, packets, stamps, pc, cc0>>

NoFrame == [size |-> 0, key |-> 0, cts |-> 0, dts |-> 0]

-----------------------------------------------------------------------------
Init ==
  /\ frame = NoFrame /\ pos = 0 /\ first = 1
  /\ packets = <<>> /\ stamps = NoStamps
  /\ cc = 0 /\ cc0 = 0
  /\ pc = "idle"

(* A caller hands over a frame. *)
BeginFrame(f) ==
  /\ pc = "idle"
  /\ cc <= MaxCc
  /\ frame' = f /\ pos' = 0 /\ first' = 1
  /\ packets' = <<>> /\ stamps' = NoStamps
  /\ cc0' = cc
  /\ pc' = "writing"
  /\ UNCHANGED cc

(* Slips: every packet announces a unit start; the counter is stored       *)
(* before it is incremented.                                               *)
WriteFirstPackets ==
  /\ pc = "writing"
  /\ pos < frame.size
  /\ cc' = cc + 1
  /\ packets' = Append(packets, PacketOf(frame, first, pos, cc + 1))
  /\ stamps' = IF first = 1 THEN StampsOf(frame) ELSE stamps
  /\ pos' = pos + Carried(frame, first, pos)
  /\ UNCHANGED <<first, frame, pc, cc0>>

WriteOldCounter ==
  /\ pc = "writing"
  /\ pos < frame.size
  /\ cc' = cc + 1
  /\ packets' = Append(packets, PacketOf(frame, first, pos, cc))
  /\ stamps' = IF first = 1 THEN StampsOf(frame) ELSE stamps
  /\ pos' = pos + Carried(frame, first, pos)
  /\ first' = 0
  /\ UNCHANGED <<frame, pc, cc0>>

(* One turn of the loop: a packet is laid out and written. *)
WritePacket ==
  /\ pc = "writing"
  /\ pos < frame.size
  /\ cc' = cc + 1
  /\ packets' = Append(packets, PacketOf(frame, first, pos, cc + 1))
  /\ stamps' = IF first = 1 THEN StampsOf(frame) ELSE stamps
  /\ pos' = pos + Carried(frame, first, pos)
  /\ first' = 0
  /\ UNCHANGED <<frame, pc, cc0>>

EndFrame ==
  /\ pc = "writing"
  /\ pos >= frame.size
  /\ pc' = "idle"
  /\ UNCHANGED <<frame, pos, first, cc, packets, stamps, cc0>>

Next ==
  \/ \E f \in Frame : BeginFrame(f)
  \/ WritePacket
  \/ EndFrame

Spec == Init /\ [][Next]_vars

-----------------------------------------------------------------------------
(* Properties. *)

Packet ==
  [ start : {0, 1}, cc : Nat, af : {0, 1}, af_len : Nat,
    pes : {0, 14, 19}, pes_len : Nat, from : Nat, to : Nat ]

(* The fields fit the bits the code stores them in. *)
FieldsFit(p) == p.cc < 16 /\ p.af_len < 184 /\ p.pes_len < 65536

TypeOK ==
  /\ frame \in FrameType
  /\ pos \in 0 .. frame.size
  /\ first \in {0, 1}
  /\ cc \in Nat /\ cc0 \in Nat
  /\ packets \in Seq(Packet)
  /\ \A i \in 1 .. Len(packets) : FieldsFit(packets[i])
  /\ pc \in {"idle", "writing"}

(* What a demultiplexer finds behind the header, the adaptation field and  *)
(* the PES header of a packet: 188 bytes less what those declare.          *)
Demuxed(p) == PacketSize - 4 - (IF p.af = 1 THEN 1 + p.af_len ELSE 0) - p.pes

(* A declared PES length is the number of bytes that follow it.            *)
PesLengthRight ==
  packets # <<>> /\ packets[1].pes_len # 0 =>
    packets[1].pes_len = (packets[1].pes - 6) + frame.size

SlicesDemux == \A i \in 1 .. Len(packets) : Demuxed(packets[i]) = packets[i].to - packets[i].from

(* Reading a packet by the lengths it declares yields exactly the slice    *)
(* of the frame that was copied into it: the two ways of stuffing (lines   *)
(* 276-300) agree with the length byte they write, and the PES length with *)
(* the header and the frame (line 252).                                    *)
PacketsDemux == SlicesDemux /\ PesLengthRight

(* The slices tile the frame from byte 0 to the loop's position without    *)
(* gap or overlap, and only the first packet announces a unit start.       *)
PacketsTile ==
  /\ \A i \in 1 .. Len(packets) :
       /\ packets[i].from = IF i = 1 THEN 0 ELSE packets[i - 1].to
       /\ packets[i].from < packets[i].to
       /\ packets[i].start = IF i = 1 THEN 1 ELSE 0
  /\ pos = IF packets = <<>> THEN 0 ELSE packets[Len(packets)].to

(* The four-bit counters continue from the last frame of the stream, and   *)
(* the counter left for the next frame is the number callers can predict   *)
(* from the frame's size alone.                                            *)
CountersContinue ==
  /\ \A i \in 1 .. Len(packets) : packets[i].cc = (cc0 + i) % 16
  /\ cc = cc0 + Len(packets)
  /\ pos = frame.size => cc = cc0 + PacketCount(frame)

(* The time stamps read back to the frame's times, 33 bits of them, and a  *)
(* key frame's clock is always the same time before its decoding: in the   *)
(* first 700 ms, too, where the clock is below 0 (line 234), and when it   *)
(* has made a turn.                                                        *)
ClockSteady ==
  packets # <<>> =>
    LET decode == DecodingTime(stamps)
    IN  /\ decode = (frame.dts + Delay) % Clock
        /\ ReadPts(stamps.pts) = (decode + frame.cts) % Clock
        /\ frame.key = 1 => (ReadPcr(stamps.pcr) + 2 * Delay) % Clock = decode

(* How far the loop is after k packets: the first one took what the        *)
(* headers leave, each later one 184 bytes, and none was written after the *)
(* frame's last byte.  It makes CountersContinue inductive.                *)
LoopProgress ==
  LET k == Len(packets)
      reach == BodySize(frame, 1) + 184 * (k - 1)
  IN  /\ first = IF packets = <<>> THEN 1 ELSE 0
      /\ k >= 1 => /\ frame.size > 0
                   /\ pos = IF reach <= frame.size THEN reach ELSE frame.size
      /\ k >= 2 => reach - 184 < frame.size
=============================================================================
