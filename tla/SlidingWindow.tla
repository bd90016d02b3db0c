--------------------------- MODULE SlidingWindow ---------------------------
(***************************************************************************)
(* What the list of a live stream promises to a player that comes back for *)
(* it: fragments are added at its end only, the oldest one leaves only     *)
(* when the list is full, no listed fragment changes, and the number of    *)
(* its first one counts those that left.  Publishing the stream again may  *)
(* start all over.                                                         *)
(***************************************************************************)
EXTENDS Naturals, SequencesExt

VARIABLES
  window,    (* The most fragments that are listed.                        *)
  listed,    (* The fragments, oldest first.                               *)
  sequence   (* The number of the first one.                               *)

vars == <<window, listed, sequence>>

Init == listed = <<>> /\ sequence = 0

Grow ==
  /\ Len(listed) < window
  /\ listed' # <<>> /\ Front(listed') = listed
  /\ UNCHANGED <<window, sequence>>

Slide ==
  /\ Len(listed) = window
  /\ listed' # <<>> /\ Front(listed') = Tail(listed)
  /\ sequence' = sequence + 1
  /\ UNCHANGED window

Restart ==
  /\ listed' = <<>>
  /\ sequence' = 0
  /\ UNCHANGED window

Spec == Init /\ [][Grow \/ Slide \/ Restart]_vars
=============================================================================
