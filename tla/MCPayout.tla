----------------------------- MODULE MCPayout -----------------------------
(* Instances of Payout for TLC: the wallet cannot pay both requests.       *)
EXTENDS Payout, TLC

CONSTANTS r1, r2, w1, w2, w3

MCAmount == [r \in Requests |-> IF r = r1 THEN 3 ELSE 2]

WorkerSymmetry == Permutations(Workers)
=============================================================================
