----------------------------- MODULE MCAmfList -----------------------------
(* All sequences of calls with up to MaxNodes allocations. *)
EXTENDS AmfList
=============================================================================
