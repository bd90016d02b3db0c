----------------------------- MODULE HlsWindow -----------------------------
(***************************************************************************)
(* The window of fragments the live path lists: a ring of 2 * winfrags + 1 *)
(* slots, of which `nfrags` from `frag` on are listed and the next one is  *)
(* open; the playlist written from it, and the attempt to read such a      *)
(* playlist back.                                                          *)
(*                                                                         *)
(* `ctx` has the writer's fields, `hacf` the configuration's.  A duration  *)
(* is a number of 90 kHz ticks, an unsigned number of U64 in the code.  A  *)
(* line of a playlist is its tag and the number it carries; the formatting *)
(* of a duration is its rounding to milliseconds.                          *)
(***************************************************************************)
EXTENDS Integers, SequencesExt

(* `ts`, the time the fragment was opened with, is not in the code: there  *)
(* it stays in the context (frag_ts) and is lost when the next one opens.  *)
NoFrag == [id |-> 0, key_id |-> 0, duration |-> 0, discont |-> 0, active |-> 0, ts |-> 0]

Slots(hacf) == 0 .. 2 * hacf.winfrags

(* Slip: a ring just as long as the list has no slot for the open fragment. *)
RingOfListed(ctx, hacf, n) == (ctx.frag + n) % hacf.winfrags

(* Where get_frag finds the n-th fragment of the window. *)
Slot(ctx, hacf, n) == (ctx.frag + n) % (2 * hacf.winfrags + 1)

GetFrag(ctx, hacf, n) == ctx.frags[Slot(ctx, hacf, n)]

(* The open fragment becomes the last listed one. *)
NextFrag(ctx, hacf) ==
  IF ctx.nfrags = hacf.winfrags THEN [ctx EXCEPT !.frag = @ + 1]
                                ELSE [ctx EXCEPT !.nfrags = @ + 1]

Listed(ctx, hacf) == [i \in 1 .. ctx.nfrags |-> GetFrag(ctx, hacf, i - 1)]

-----------------------------------------------------------------------------
(* Writing. *)

Line(tag, value) == [tag |-> tag, value |-> value]

Rounded(ticks) == (ticks + 45) \div 90

Longer(max, f) == IF f.duration > max * 90000 THEN (f.duration + 45000) \div 90000 ELSE max

(* max_frag, in seconds, over the listed fragments. *)
MaxFrag(hacf, listed) == FoldLeft(Longer, hacf.fraglen \div 1000, listed)

(* Slip: the key is named for the first fragment only. *)
KeyAtFirst(ctx, hacf, i) ==
  IF hacf.keys = 1 /\ i = 0 THEN <<Line("KEY", GetFrag(ctx, hacf, i).key_id)>> ELSE <<>>

(* The key's line stands where the key changes, and at the list's start. *)
KeyLine(ctx, hacf, i) ==
  IF hacf.keys = 1 /\ (i = 0 \/ GetFrag(ctx, hacf, i).key_id # GetFrag(ctx, hacf, i - 1).key_id)
  THEN <<Line("KEY", GetFrag(ctx, hacf, i).key_id)>> ELSE <<>>

FragLines(ctx, hacf, i) ==
  LET f == GetFrag(ctx, hacf, i)
  IN  (IF f.discont = 1 THEN <<Line("DISCONTINUITY", 0)>> ELSE <<>>)
        \o KeyLine(ctx, hacf, i)
        \o <<Line("EXTINF", Rounded(f.duration)), Line("ts", f.id)>>

PlaylistLines(ctx, hacf) ==
  <<Line("MEDIA-SEQUENCE", ctx.frag), Line("TARGETDURATION", MaxFrag(hacf, Listed(ctx, hacf)))>>
    \o (IF hacf.type = "event" THEN <<Line("PLAYLIST-TYPE", 0)>> ELSE <<>>)
    \o FlattenSeq([i \in 1 .. ctx.nfrags |-> FragLines(ctx, hacf, i - 1)])

(* The playlist that leads to the variants of this stream. *)
WriteVariantPlaylist(ctx, hacf, fail) ==
  IF fail \in {"var_bak", "var_rename"} THEN ctx ELSE [ctx EXCEPT !.var_playlist = hacf.variant]

(* The new playlist is written beside the old one and renamed over it.     *)
(* `fail` names the file operation that fails in this call, if any; the    *)
(* callers ignore that it did.                                             *)
WritePlaylist(ctx, hacf, fail) ==
  IF fail \in {"bak", "rename"} THEN ctx
  ELSE LET new == [ctx EXCEPT !.playlist = PlaylistLines(ctx, hacf)]
       IN  IF ctx.var = 1 THEN WriteVariantPlaylist(new, hacf, fail) ELSE new

-----------------------------------------------------------------------------
(* Reading back, when a stream is published again.                         *)

(* The playlist is opened with mode "wb": that empties it, and nothing can *)
(* be read from it.  Nor would anything come of one opened for reading:    *)
(* fread is asked for a single item of the buffer's size and answers with  *)
(* the number of items, 0 or 1, which is then taken for a number of bytes. *)
(* So the loop over the lines never has a whole line, and all that the     *)
(* call does is to forget the fragments.                                   *)
RestoreStream(ctx, hacf, fail) ==
  IF fail = "playlist" THEN ctx ELSE [ctx EXCEPT !.playlist = <<>>, !.nfrags = 0]
=============================================================================
