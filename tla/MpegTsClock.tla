---------------------------- MODULE MpegTsClock ----------------------------
(***************************************************************************)
(* The clock and the time stamps of a frame's first packet: 33-bit numbers *)
(* in pieces with marker bits between them.  A frame has dts, and cts from *)
(* there to its presentation; all of the code's numbers have 64 bits.      *)
(***************************************************************************)
EXTENDS Integers

CONSTANTS
  Byte,    (* 2^8 in the code;                                             *)
  Word,    (* 2^15;                                                        *)
  Turns,   (* 2^31: how many turns of the clock 64 bits hold;              *)
  Delay    (* 63000 (NGX_RTMP_HLS_DELAY).                                  *)

ASSUME ClockAssumption ==
  /\ Byte \in Nat \ {0} /\ Word \in Nat \ {0} /\ Byte * Byte = 2 * Word
  /\ Turns \in Nat \ {0} /\ Delay \in Nat

Clock == 8 * Word * Word   (* 33 bits. *)
U64   == Turns * Clock

WritePcr(t) ==
  << (t \div (2 * Byte * Byte * Byte)) % Byte, (t \div (2 * Byte * Byte)) % Byte,
     (t \div (2 * Byte)) % Byte, (t \div 2) % Byte, t % 2 >>

WritePts(t) == << (t \div (Word * Word)) % 8, (t \div Word) % Word, t % Word >>

(* Slip: no clock before the stream's start. *)
ClampedClock(f) == IF f.dts < Delay THEN 0 ELSE f.dts - Delay

(* In the first 700 ms the difference is below 0. *)
ClockOf(f) == (f.dts - Delay) % U64

StampsOf(f) ==
  [ pcr |-> IF f.key = 1 THEN WritePcr(ClockOf(f)) ELSE <<>>,
    pts |-> WritePts((f.dts + f.cts + Delay) % U64),
    dts |-> IF f.cts = 0 THEN <<>> ELSE WritePts((f.dts + Delay) % U64) ]

NoStamps == [pcr |-> <<>>, pts |-> <<>>, dts |-> <<>>]

(* What a receiver makes of the pieces. *)
ReadPcr(b) == 2 * Byte * Byte * Byte * b[1] + 2 * Byte * Byte * b[2] + 2 * Byte * b[3] + 2 * b[4] + b[5]
ReadPts(w) == Word * Word * w[1] + Word * w[2] + w[3]
DecodingTime(s) == ReadPts(IF s.dts = <<>> THEN s.pts ELSE s.dts)
=============================================================================
