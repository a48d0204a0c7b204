------------------------ MODULE MCPaymentLifecycle ------------------------
(***************************************************************************)
(* Instances of PaymentLifecycle for TLC: two creation calls (a call and   *)
(* its retry) and two browser visits about one order, two providers.       *)
(***************************************************************************)
EXTENDS PaymentLifecycle, TLC

CONSTANTS o1, r1, r2, v1, v2, stripe, paypal

OneOrder == [q \in Request \union Visit |-> o1]

CallSymmetry == Permutations({r1, r2}) \union Permutations({v1, v2})
=============================================================================
