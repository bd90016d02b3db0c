-------------------------- MODULE SegmentedStream --------------------------
(***************************************************************************)
(* What the segmenter promises, with no writer, buffer, time or name:      *)
(* every frame goes at once, whole, to the end of its track in the segment *)
(* that is open when it is read; a segment opens with the first frame and  *)
(* then with every n-th key frame; the list of segments is given out only  *)
(* when the input was read to its end, and then names every segment.  (A   *)
(* run that is asked for files only gives out none.)                       *)
(***************************************************************************)
EXTENDS Integers, Sequences

CONSTANTS
  AudioFrame,  (* The frames of the audio track.                           *)
  VideoFrame   (* Those of the video track; f.key is 1 for a key frame.    *)

VARIABLES
  n,         (* Key frames per segment.                                    *)
  segments,  (* The segments, each with its two tracks.                    *)
  keys,      (* Key frames and sequence headers read.                      *)
  listed,    (* How many segments the list given out names, 0 for none.    *)
  state      (* "open", "complete" or "incomplete".                        *)

vars == <<n, segments, keys, listed, state>>

Empty == [video |-> <<>>, audio |-> <<>>]

Init ==
  /\ n \in Nat
  /\ segments = <<>>
  /\ keys = 0
  /\ listed = 0
  /\ state = "open"

Opened(s, cut) == IF cut THEN Append(s, Empty) ELSE s

(* The key frame that makes the count k starts a segment. *)
Starts(k) == n > 0 /\ (k - 1) % n = 0

(* A sequence header counts as a key frame, but neither the first key nor  *)
(* one before all frames opens a segment by itself.                        *)
Mark ==
  /\ state = "open"
  /\ keys' = keys + 1
  /\ segments' = Opened(segments, segments # <<>> /\ keys # 0 /\ Starts(keys'))
  /\ UNCHANGED <<n, listed, state>>

Put(f, track, key) ==
  LET first == Opened(segments, segments = <<>>)
      cut   == Opened(first, key = 1 /\ Starts(keys'))
  IN  /\ state = "open"
      /\ keys' = keys + key
      /\ segments' = [cut EXCEPT ![Len(cut)][track] = Append(@, f)]
      /\ UNCHANGED <<n, listed, state>>

End ==
  /\ state = "open"
  /\ state' = "complete"
  /\ listed' \in {0, Len(segments)}
  /\ UNCHANGED <<n, segments, keys>>

(* Reading fails: nothing is listed, nothing that was written is undone.   *)
Fail ==
  /\ state = "open"
  /\ state' = "incomplete"
  /\ segments' \in {segments, Append(segments, Empty)}
  /\ keys' \in {keys, keys + 1}
  /\ UNCHANGED <<n, listed>>

Next ==
  \/ Mark
  \/ \E f \in AudioFrame : Put(f, "audio", 0)
  \/ \E f \in VideoFrame : Put(f, "video", f.key)
  \/ End
  \/ Fail

Spec == Init /\ [][Next]_vars
=============================================================================
