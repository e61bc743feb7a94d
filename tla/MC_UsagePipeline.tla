--------------------------- MODULE MC_UsagePipeline ---------------------------
(* Instances of UsagePipeline for TLC: replicas and requests are alike.    *)
EXTENDS UsagePipeline, TLC

Alike == Permutations(Nodes) \cup Permutations(Requests)
=============================================================================
