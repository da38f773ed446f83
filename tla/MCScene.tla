------------------------------- MODULE MCScene -------------------------------
(* One session with a surface, two tracks, a node and an anchor, on four     *)
(* stages: both tracks and a node the target places; a track while the       *)
(* target changes; a track behind an anchored node whose channel is          *)
(* advanced, and one whose surface has a second generation.                  *)
EXTENDS Scene

CONSTANTS s1, c1, x1, t1, t2, n1, a1

OneSession == [c \in {c1} |-> s1]
OneContext == [x \in {x1, n1, a1} |-> c1]
OneSurface == [t \in {t1, t2} |-> x1]
OneSlot    == [t \in {t1, t2} |-> IF t = t1 THEN 1 ELSE 3]

TwoTracks == [tracks |-> {t1, t2}, anchors |-> {}, frames |-> {1, 2},
              target |-> 1, surface |-> 1, channel |-> 1]
Retargeted == [tracks |-> {t1}, anchors |-> {}, frames |-> {1},
               target |-> 2, surface |-> 1, channel |-> 2]
Anchored  == [tracks |-> {t1}, anchors |-> {a1}, frames |-> {1},
              target |-> 1, surface |-> 1, channel |-> 2]
Regenerated == [Anchored EXCEPT !.surface = 2, !.channel = 1]
AllStages == {TwoTracks, Retargeted, Anchored, Regenerated}
=============================================================================
