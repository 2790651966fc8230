------------------------------ MODULE MCCartPage ------------------------------
(***************************************************************************)
(* One good, in the cart or not.  Two requests are enough for a command to *)
(* overtake a load, three for two loads and a command.                     *)
(***************************************************************************)
EXTENDS CartPage

CONSTANTS g1

MCOneGood == {g1}
==============================================================================
