----------------------------- MODULE MCSessions -----------------------------
(* Two concurrent requests on one account. *)
EXTENDS Sessions, TLC

CONSTANTS r1, r2, first, second

CallersMC == {r1, r2}
PasswordsMC == {first, second}

Symmetry == Permutations(CallersMC)
=============================================================================
