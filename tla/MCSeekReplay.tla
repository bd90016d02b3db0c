---------------------------- MODULE MCSeekReplay ----------------------------
(* Audio 1 ms off the clock is aligned to it, so it shows which base a run *)
(* has; 7 s are beyond half of the range of the instance's numbers, 12 s   *)
(* beyond all of it.                                                       *)
EXTENDS SeekReplay

MCTag ==
  LET Undamaged(type, times, size) ==
        [type : {type}, ts : times, size : {size}, damage : {"none"}]
  IN  Undamaged("avcc", {0}, 0) \cup Undamaged("key", {1000}, 20)
        \cup Undamaged("inter", {1040}, 200) \cup Undamaged("aac", {1000, 1001, 7000, 12000}, 120)

MCOptions == [ts : {0, 1}, m3u8 : {1}]
=============================================================================
