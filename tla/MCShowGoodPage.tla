---------------------------- MODULE MCShowGoodPage ----------------------------
(***************************************************************************)
(* A small cart and two requests started by the user: two loads, two adds, *)
(* or one of each.                                                         *)
(***************************************************************************)
EXTENDS ShowGoodPage
==============================================================================
