---------------------------- MODULE MpegTsPacket ----------------------------
(***************************************************************************)
(* How ngx_rtmp_mpegts_write_frame lays out one MPEG-TS packet.            *)
(*                                                                         *)
(* A frame is [size, key, cts]: its length in bytes, the key frame bit,    *)
(* and how far its presentation time is from its decoding time.  Bytes     *)
(* are abstracted to where they come from: a packet records the fields a   *)
(* demultiplexer reads and the slice of the frame it carries.  Flags are 0 *)
(* or 1 as in the code.                                                    *)
(***************************************************************************)
EXTENDS Naturals

PacketSize == 188

(* The clock's adaptation field: its length byte, the flags and 6 of PCR. *)
ClockBytes(f, fst) == IF fst = 1 /\ f.key = 1 THEN 8 ELSE 0

(* header_size: 5 bytes of PTS and, if it differs, 5 of DTS. *)
StampBytes(f) == IF f.cts = 0 THEN 5 ELSE 10

PesHeaderBytes(f, fst) == IF fst = 1 THEN 9 + StampBytes(f) ELSE 0

(* What is left of the packet for the frame's bytes. *)
BodySize(f, fst) == PacketSize - 4 - ClockBytes(f, fst) - PesHeaderBytes(f, fst)

(* Slip: a length beyond 16 bits is not replaced by 0. *)
UncappedPesLength(f) == f.size + StampBytes(f) + 3

(* PES_packet_length, 0 ("unbounded") when it does not fit 16 bits. *)
PesLength(f) ==
  LET n == f.size + StampBytes(f) + 3 IN IF n > 65535 THEN 0 ELSE n

(* Bytes of stuffing the packet that starts at byte `from` needs. *)
Stuffing(f, fst, from) ==
  IF BodySize(f, fst) <= f.size - from THEN 0 ELSE BodySize(f, fst) - (f.size - from)

(* Slip: the length byte counts itself. *)
LengthWithItself(f, fst, stuff) == IF fst = 1 /\ f.key = 1 THEN 7 + stuff ELSE stuff

(* The adaptation field's length byte: stuffing is added to the clock's    *)
(* field, or makes a field of its own that counts all bytes but itself.    *)
AdaptationLength(f, fst, stuff) ==
  IF fst = 1 /\ f.key = 1 THEN 7 + stuff ELSE IF stuff = 0 THEN 0 ELSE stuff - 1

Carried(f, fst, from) ==
  IF BodySize(f, fst) <= f.size - from THEN BodySize(f, fst) ELSE f.size - from

PacketOf(f, fst, from, c) ==
  LET stuff == Stuffing(f, fst, from)
  IN  [ start   |-> fst,
        cc      |-> c % 16,
        af      |-> IF (fst = 1 /\ f.key = 1) \/ stuff > 0 THEN 1 ELSE 0,
        af_len  |-> AdaptationLength(f, fst, stuff),
        pes     |-> PesHeaderBytes(f, fst),
        pes_len |-> IF fst = 1 THEN PesLength(f) ELSE 0,
        from    |-> from,
        to      |-> from + Carried(f, fst, from) ]

(* The number of packets a frame takes; what callers see of a write. *)
PacketCount(f) ==
  IF f.size <= BodySize(f, 1)
    THEN IF f.size = 0 THEN 0 ELSE 1
    ELSE 1 + (f.size - BodySize(f, 1) + 183) \div 184
=============================================================================
