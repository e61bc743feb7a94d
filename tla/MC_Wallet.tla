------------------------------- MODULE MC_Wallet -------------------------------
(* Instances of Wallet for TLC: amounts that no other sum is equal to.     *)
EXTENDS Wallet, TLC

CONSTANTS w1, w2, k1, o1

WorkerSymmetry == Permutations(Workers)

Amounts == k1 :> 3 @@ o1 :> 7
=============================================================================
