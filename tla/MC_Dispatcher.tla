----------------------------- MODULE MC_Dispatcher -----------------------------
(* Instances of Dispatcher for TLC.                                        *)
EXTENDS Dispatcher, TLC

CONSTANTS r1, r2, c1, c2, m1, m2, m3, m4, m5, m6

RequestSymmetry == Permutations(Requests)

AllCallable == [k \in Kinds |-> Channels]
\* No embeddings can be asked of c2.
OneNotCallable == [k \in Kinds |-> IF k = "embed" THEN {c1} ELSE Channels]

\* c1 is preferred; or both are in one tier.
TwoTiers == [c \in Channels |-> IF c = c1 THEN 1 ELSE 2]
OneTier == [c \in Channels |-> 1]
ConfigOrder == [c \in Channels |-> IF c = c1 THEN 1 ELSE 2]
\* Three names fill a trail.
Widths == [c \in Channels |-> IF c = c1 THEN 40 ELSE 41]
SameCase == [m \in Models |-> m]

EverywhereTable == {[serves |-> [m \in Models |-> Channels], speaks |-> Channels]}
NoFallbacks == {[m \in Models |-> NoModel]}

-----------------------------------------------------------------------------
(* Six models, m2 being m1 in other letter case: fallback maps with a      *)
(* cycle, with a cycle through m1's other name and with a chain longer     *)
(* than the limit.  Both channels speak the protocol, so that a model may  *)
(* take two calls; or only c2 is left, which does not speak it, and        *)
(* nothing serves m3.                                                      *)
Chained == m1 :> m3 @@ m2 :> m4 @@ m3 :> m4 @@ m4 :> m5 @@ m5 :> m6 @@ m6 :> NoModel
Cyclic  == m1 :> m3 @@ m2 :> m3 @@ m3 :> m2 @@ m4 :> m1 @@ m5 :> m1 @@ m6 :> m6
CasePairs == [m \in Models |-> IF m = m2 THEN m1 ELSE m]
FallbackMapsMC == {Chained, Cyclic}
FallbackTables ==
    { [serves |-> [m \in Models |-> Channels], speaks |-> Channels],
      [serves |-> [m \in Models |-> IF m = m3 THEN {} ELSE {c2}], speaks |-> {c1}] }

\* Two models, each other's fallback or not.
BackAndForth == { m1 :> m2 @@ m2 :> m1, m1 :> m2 @@ m2 :> NoModel }
=============================================================================
