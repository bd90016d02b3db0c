--------------------------- MODULE MCMpegTsFrame ---------------------------
(* Frame sizes around every boundary of the layout: the first packet holds *)
(* 157, 162, 165 or 170 bytes and a later one 184; 1 to 8 bytes of         *)
(* stuffing take the two branches of the code; 65527 bytes is the last     *)
(* length a PES header can announce for a frame without DTS.  The clock     *)
(* makes a turn every 512 ticks.                                           *)
EXTENDS MpegTsFrame

Sizes  == {0, 1, 156, 157, 158, 161, 162, 163, 164, 165, 166, 169, 170, 171,
           345, 346, 347, 353, 354, 355, 530, 538, 539}
Times  == {1, 2, 7, 19, 20, 21, 39, 40, 41, 75, 170, 255, 331, 471, 472, 491, 492, 493, 511, 512, 1003, 1004, 1023}
MCFrame == [size : Sizes, key : {0, 1}, cts : {0, 40}, dts : {0}]
             \cup [size : {65522, 65523, 65527, 65528}, key : {1}, cts : {0, 40}, dts : {0}]
             \cup [size : {1}, key : {0, 1}, cts : {0, 1, 600}, dts : Times]
=============================================================================
