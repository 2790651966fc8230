------------------------------ MODULE MCCheckout ------------------------------
(***************************************************************************)
(* One good, two requests under way; two attempts to pay, so that a second *)
(* one could buy the cart again.                                           *)
(***************************************************************************)
EXTENDS Checkout

CONSTANTS g1, p1, p2, s1, home

MCGood == {g1}
MCAttempt == {p1, p2}
MCLoadSlot == {s1}
MCAddress == {home}
==============================================================================
