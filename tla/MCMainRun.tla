----------------------------- MODULE MCMainRun -----------------------------
(* Indexes of no key frame to eight, at different distances, one whose two *)
(* lists do not match, and one with odd metadata.                          *)
EXTENDS MainRun

Even(n, gap) == [pos |-> [i \in 1 .. n |-> 100 * i], ts |-> [i \in 1 .. n |-> gap * (i - 1)],
                 odd |-> 0]

MCIndex ==
  {Even(0, 0), Even(1, 0), Even(5, 4000), Even(8, 900), Even(4, 8000), Even(6, 2500),
   [pos |-> <<100, 200>>, ts |-> <<0, 2000, 4000, 5000>>, odd |-> 0],
   [Even(5, 4000) EXCEPT !.odd = 1]}
MCTsNumber == -2 .. 3
=============================================================================
