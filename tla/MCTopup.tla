------------------------------ MODULE MCTopup ------------------------------
(* Instances of Topup for TLC.                                             *)
EXTENDS Topup, TLC

CONSTANTS i1, i2, w1, w2, w3

\* A payment reports a full net, a net less the fee, or no valid net.
MCNets == {0, 9, 10}
OneNet == {9}

\* A failed and a canceled payment take the same way through the handlers.
OneEnding == {"FAILED"}
BothEndings == Closed

\* The events of the payment of i1 may name i2.
OneCross == {<<i1, i2>>}
NoCross == {}

WorkerSymmetry == Permutations(Workers)
=============================================================================
