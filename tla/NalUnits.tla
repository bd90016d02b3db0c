------------------------------ MODULE NalUnits ------------------------------
(***************************************************************************)
(* How the live path's video handler makes an access unit for MPEG-TS from *)
(* the NAL units of a message: delimiters and parameter sets of the source *)
(* are dropped, a delimiter is put before the picture and the sequence     *)
(* header's parameter sets before an IDR slice.                            *)
(*                                                                         *)
(* A NAL unit is [type, len]; `cut` tells where the message ends early,    *)
(* inside the last unit's length or type ("head") or its body ("body").    *)
(* `out` is the output buffer: the units in it, the bytes they take, and   *)
(* what the loop remembers.                                                *)
(***************************************************************************)
EXTENDS Naturals, SequencesExt

CONSTANT BufSize   (* NGX_RTMP_HLS_BUFSIZE, in bytes. *)

ASSUME BufSizeAssumption == BufSize \in Nat

Slice == 1
Idr   == 5
Sei   == 6
Aud   == 9
Dropped == 7 .. 9      (* SPS, PPS and AUD of the source. *)

(* A start code whose unit did not follow. *)
Prefix == 0

NewOutput == [units |-> <<>>, used |-> 0, aud_sent |-> 0, sps_pps_sent |-> 0, result |-> "whole"]

Append4(out, type, n) == [out EXCEPT !.units = Append(@, type), !.used = @ + 4 + n]

AppendAud(out) == IF out.used + 6 > BufSize THEN out ELSE Append4(out, Aud, 2)

(* One parameter set of the sequence header; stops at the first failure,   *)
(* with what was appended up to then left in the buffer.                   *)
AppendParameterSet(out, nal, cut) ==
  IF out.result # "whole" THEN out
  ELSE IF out.used + 4 > BufSize THEN [out EXCEPT !.result = "stopped"]
  ELSE IF out.used + 4 + nal.len > BufSize \/ cut
         THEN [Append4(out, Prefix, 0) EXCEPT !.result = "stopped"]
  ELSE Append4(out, nal.type, nal.len)

(* Its failure is only logged. *)
AppendSpsPps(out, header) ==
  LET n == Len(header.nals)
  IN  [FoldLeft(LAMBDA o, i : AppendParameterSet(o, header.nals[i], header.cut = "body" /\ i = n),
                out, [i \in 1 .. n |-> i]) EXCEPT !.result = "whole"]

(* Slip: the delimiter once per unit. *)
DelimitAll(out, type) == IF type \in {Slice, Idr, Sei} THEN AppendAud(out) ELSE out

Delimit(out, type) ==
  IF out.aud_sent = 0 /\ type \in {Slice, Idr, Sei} THEN [AppendAud(out) EXCEPT !.aud_sent = 1]
                                                    ELSE out

Parameterise(out, type, header) ==
  IF type = Slice THEN [out EXCEPT !.sps_pps_sent = 0]
  ELSE IF type = Idr /\ out.sps_pps_sent = 0
         THEN [AppendSpsPps(out, header) EXCEPT !.sps_pps_sent = 1]
  ELSE out

(* The unit itself, behind a start code that is a byte longer at the start *)
(* of the buffer.                                                          *)
AppendUnit(out, nal, cut) ==
  LET start == IF out.used = 0 THEN 5 ELSE 4    (* with the unit's first byte. *)
  IN  IF \/ out.used + 5 > BufSize
         \/ out.used + start + nal.len > BufSize THEN [out EXCEPT !.result = "dropped"]
      ELSE IF cut THEN [out EXCEPT !.result = "error"]
      ELSE [out EXCEPT !.units = Append(@, nal.type), !.used = @ + start + nal.len - 1]

NextUnit(out, nal, cut, header) ==
  IF out.result # "whole" THEN out
  ELSE IF cut = "head" THEN [out EXCEPT !.result = "dropped"]
  ELSE IF nal.len = 0 THEN out
  ELSE IF nal.type \in Dropped
         THEN IF cut = "body" THEN [out EXCEPT !.result = "error"] ELSE out
  ELSE AppendUnit(Parameterise(Delimit(out, nal.type), nal.type, header), nal, cut = "body")

(* Where unit i is cut.  A last unit of a single byte reads as cut: when   *)
(* its type was read the chain is used up, and copying the 0 bytes of its  *)
(* body from a chain that is used up fails.                                *)
CutAt(message, i) ==
  IF i < Len(message.nals) THEN "no"
  ELSE IF message.cut = "no" /\ message.nals[i].len = 1 THEN "body"
  ELSE message.cut

(* The message's picture as it goes into the stream.  Only a result        *)
(* "whole" is written; the handler returns before that with any other.     *)
AccessUnit(message, header) ==
  FoldLeft(LAMBDA out, i : NextUnit(out, message.nals[i], CutAt(message, i), header),
           NewOutput, [i \in 1 .. Len(message.nals) |-> i])
=============================================================================
