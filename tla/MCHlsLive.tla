----------------------------- MODULE MCHlsLive -----------------------------
(* Slices of 2 s, forced cuts beyond 4 s or more than 1 s back.  Time      *)
(* stamps in all of these places, and a second's fraction before a start.  *)
EXTENDS HlsLive

Conf ==
  [ winfrags |-> 1, fraglen |-> 2000, max_fraglen |-> 4000, granularity |-> 0, frags_per_key |-> 0,
    nested |-> 0, keys |-> 0, continuous |-> 1, variant |-> 1, key_dir |-> "key",
    slicing |-> "plain", naming |-> "sequential", type |-> "live" ]

MCConfiguration ==
  { Conf,
    [Conf EXCEPT !.winfrags = 2, !.slicing = "aligned", !.naming = "timestamp",
       !.granularity = 100000, !.continuous = 0, !.variant = 0, !.type = "event"],
    [Conf EXCEPT !.winfrags = 2, !.keys = 1, !.frags_per_key = 2, !.variant = 0],
    [Conf EXCEPT !.nested = 1, !.keys = 1, !.variant = 0] }

MCAudio == [ts : {1900, 4000}, size : {150}]

Nal(type) == [type |-> type, len |-> 9]
Message(ts, key, types, cut) ==
  [ts |-> ts, cts |-> 1 - key, key |-> key, nals |-> [i \in DOMAIN types |-> Nal(types[i])], cut |-> cut]

MCVideo ==
  {Message(ts, 1, <<7, 6, 5, 5>>, "no") : ts \in {1000, 5000, 9500}}
    \cup {Message(5000, 0, <<12, 1, 5>>, "no"), Message(2000, 0, <<1, 1>>, "body")}

MCHeader == {[nals |-> <<Nal(7), Nal(8)>>, cut |-> "no"]}
MCBound == [messages |-> 4, publishes |-> 2, ends |-> 1, failures |-> 1]

ASSUME PlayableAssumption == Playable
=============================================================================
