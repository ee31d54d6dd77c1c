--------------------------- MODULE PayInContract ---------------------------
(***************************************************************************)
(* What the pay-in flow of src/src/financial/financial.service.ts promises *)
(* to the owner of a top-up, with every handler, retry and crash hidden:   *)
(* the provider collects money once per payment, and the ledger credits an *)
(* intent at most once, with the net amount of a payment that was really   *)
(* collected.  Topup.tla is the detailed model that implements it.         *)
(***************************************************************************)
EXTENDS Naturals, Sequences

CONSTANTS
  Intents,  \* top-up intents; a payment is named by the intent it was opened for
  Amounts   \* the net amounts a payment may collect, positive integers

VARIABLES paid,  \* paid[p]: net amount collected by payment p, 0 before
          book   \* the CLIENT_TOPUP credits written to the ledger, in order

vars == <<paid, book>>

Init ==
  /\ paid = [p \in Intents |-> 0]
  /\ book = << >>

\* The provider collects a net amount for payment p.
Collect(p) ==
  /\ paid[p] = 0
  /\ \E n \in Amounts : paid' = [paid EXCEPT ![p] = n]
  /\ UNCHANGED book

\* The ledger credits intent i with what payment p collected.
Settle(i, p) ==
  /\ paid[p] > 0
  /\ \A k \in 1..Len(book) : book[k].intent # i
  /\ book' = Append(book, [intent |-> i, tx |-> p, amount |-> paid[p]])
  /\ UNCHANGED paid

Next ==
  \/ \E p \in Intents : Collect(p)
  \/ \E i, p \in Intents : Settle(i, p)

Spec == Init /\ [][Next]_vars
=============================================================================
