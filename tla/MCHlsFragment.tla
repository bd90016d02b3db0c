--------------------------- MODULE MCHlsFragment ---------------------------
(* A small buffer and real clock rates.  46 ms is one AAC frame at the     *)
(* assumed rate, so the estimate meets the stamp; 48 ms is just within the *)
(* 2 ms of alignment and 200 ms beyond half of the audio delay; 300 bytes  *)
(* of audio take two packets.                                              *)
EXTENDS HlsFragment

MCAudio == [ts : {0, 46, 48, 200}, size : {150}] \cup [ts : {0, 200}, size : {330, 450}]
MCVideo == [ts : {0, 400}, size : {20}, key : {0, 1}] \cup [ts : {0}, size : {190, 500}, key : {0}]
=============================================================================
