----------------------------- MODULE MCPlayback -----------------------------
(* Producers of one audio track.                                             *)
EXTENDS Playback

Producer(ops, ids, packets, tail, faults) ==
  [ops |-> ops, ids |-> ids, packets |-> packets, needs |-> {0}, tail |-> tail,
   eager |-> FALSE, faults |-> faults]
Asking(p, needs) == [p EXCEPT !.needs = needs]

(* Producers that replace their channel (paused, twice, playing, waiting),   *)
(* that seek (sending, or asking PLAY to buffer, more than the ring holds;   *)
(* with a drain owed), that fail, that destroy what they wait for, and that  *)
(* start together with video.                                                *)
MCProducers ==
  {Producer({"advance", "pause"}, {}, <<1, 0>>, TRUE, FALSE),
   Producer({"advance", "cancel"}, {1}, <<0, 0, 0>>, FALSE, FALSE),
   Producer({"advance", "play", "query"}, {}, <<0, 0>>, TRUE, FALSE),
   Producer({"advance", "wait", "cancel"}, {1}, <<0, 0>>, FALSE, FALSE),
   Asking(Producer({"flush", "play"}, {}, <<2>>, TRUE, FALSE), {0, 2}),
   Producer({"flush", "play", "drain"}, {1}, <<0>>, TRUE, FALSE),
   Producer({"play", "drain", "wait"}, {1}, <<1>>, FALSE, TRUE),
   Producer({"drain", "wait", "cancel", "destroy"}, {1, 2}, <<1>>, FALSE, FALSE),
   Producer({"synchronize", "query", "cancel", "destroy"}, {1}, <<1>>, FALSE, FALSE)}

(* One that opens the next channel while ADVANCE_CHANNEL is under way, which *)
(* nothing in CHANNEL_OPEN refuses.                                          *)
EagerProducers ==
  {[Producer({"advance", "pause"}, {}, <<1, 1>>, TRUE, FALSE) EXCEPT !.eager = TRUE]}
=============================================================================
