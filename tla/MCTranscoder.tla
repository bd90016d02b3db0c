---------------------------- MODULE MCTranscoder ----------------------------
(* Three audio frames fill the buffer of the small instance; 46 ms is one  *)
(* frame of the audio clock; times may go back, so durations wrap.         *)
EXTENDS Transcoder

Undamaged(type, times, size) == [type : {type}, ts : times, size : {size}, damage : {"none"}]

MCTag ==
  Undamaged("avcc", {0}, 0) \cup Undamaged("key", {0, 1000}, 20) \cup Undamaged("inter", {40}, 200)
    \cup Undamaged("aac", {46, 2000}, 120)

(* The same with reads that fail, tags nobody reads, and audio that with   *)
(* no segment to go to runs over the end of the buffer or just up to it.   *)
MCBadTag ==
  Undamaged("avcc", {0}, 0) \cup Undamaged("key", {1000}, 20)
    \cup Undamaged("aac", {46}, 150) \cup Undamaged("aac", {46}, 190)
    \cup Undamaged("other", {0}, 0)
    \cup {[type |-> ty, ts |-> 500, size |-> 20, damage |-> d] :
            ty \in {"key", "inter", "aac"}, d \in {"type", "body"}}
    \cup {[type |-> "avcc", ts |-> 0, size |-> 0, damage |-> "type"]}

(* Every combination of the first three attempts at either file. *)
MCRefusals == SUBSET ({"segment", "playlist"} \X (1 .. 3))

AllOptions == [ts : {0, 1}, m3u8 : {0, 1}]
(* Neither option is the same as both of them. *)
MCOptions == AllOptions \ {[ts |-> 0, m3u8 |-> 0]}
=============================================================================
