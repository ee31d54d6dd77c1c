---------------------------- MODULE MCDelivery ----------------------------
(* Instance of Delivery for TLC: one account, whose two screens compete    *)
(* for a quota of one stream, and its two browsers.                        *)
EXTENDS Delivery, TLC

CONSTANTS u1, s1, s2, e1, e2, n1

MCOwner == [s \in Streams |-> u1]
=============================================================================
