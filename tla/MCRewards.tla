---------------------------- MODULE MCRewards ----------------------------
(* Instances of Rewards for TLC: a tier every few units of margin, a window *)
(* of one tick, two missions with the same technician.                      *)
EXTENDS Rewards, TLC

CONSTANTS m1, m2, m3, r1, r2, t1

MCMargin     == [m \in Missions |-> IF m = m3 THEN 3 ELSE 2]
MCTechnician == [m \in Missions |-> IF m = m3 THEN None ELSE t1]

RequestSymmetry == Permutations(Requests)
=============================================================================
