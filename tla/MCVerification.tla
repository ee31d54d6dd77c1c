--------------------------- MODULE MCVerification ---------------------------
(* Two concurrent requests about one account; one window, then the three. *)
EXTENDS Verification

CONSTANTS r1, r2

RequestsMC == {r1, r2}
OneWindow == [c \in {0} |-> 1]
ThreeWindows == [c \in 0 .. 2 |-> IF c = 0 THEN 1 ELSE IF c = 1 THEN 3 ELSE 7]
=============================================================================
