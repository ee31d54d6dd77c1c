---------------------------- MODULE MCMission ----------------------------
(* Instances of Mission for TLC: the wallet cannot pay every quote.        *)
EXTENDS Mission, TLC

CONSTANTS m1, m2, q1, q2, q3, w1, w2

MCOf    == [q \in Quotes |-> IF q = q3 THEN m2 ELSE m1]
MCGross == [q \in Quotes |-> IF q = q1 THEN 3 ELSE 2]

WorkerSymmetry == Permutations(Workers)
=============================================================================
