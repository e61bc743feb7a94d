--------------------------- MODULE MC_ClusterSync ---------------------------
(* Instances of ClusterSync for TLC, with one part that a reload cannot do *)
(* without, and one whose failure it passes over: two replicas, a change   *)
(* and a failure, or one replica and two changes that are made at once.    *)
EXTENDS ClusterSync

CONSTANTS n1, n2, h1, h2

TwoParts == <<"channels", "prices">>

Plays == { [nodes |-> {n1, n2}, handlers |-> {h1}, faults |-> 1],
           [nodes |-> {n1}, handlers |-> {h1, h2}, faults |-> 0] }

VARIABLE play  \* the replicas and the handlers that take part, and the failures

PlayInit ==
    /\ play \in Plays
    /\ Init
    /\ node = [n \in Nodes |-> IF n \in play.nodes THEN "up" ELSE "down"]

PlayNext ==
    /\ Next
    /\ UNCHANGED play
    /\ faults' <= play.faults
    /\ \A n \in Nodes \ play.nodes : node'[n] = "down"
    /\ \A h \in Handlers \ play.handlers : edit'[h] = NoEdit
    /\ \A h \in Handlers : edit'[h].node # n2  \* the replicas are alike

PlaySpec == PlayInit /\ [][PlayNext]_<<vars, play>> /\ Fairness
=============================================================================
