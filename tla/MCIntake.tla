------------------------------ MODULE MCIntake ------------------------------
(* One visitor's draft, and the calls that a few clients make around it. *)
EXTENDS Intake, TLC

CONSTANTS q1, q2, q3, q4, t1, fit, unfit

RequestsMC == {q1, q2, q3, q4}
TokensMC == {t1}
ContentsMC == {fit, unfit}
UnfitMC == {unfit}
LimitMC == [r \in Routes |-> IF r = "POST" THEN 1 ELSE 2]

Symmetry == Permutations(RequestsMC)
=============================================================================
