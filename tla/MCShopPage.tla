------------------------------ MODULE MCShopPage ------------------------------
(***************************************************************************)
(* Three shops: two with three kinds, so that a choice may change between  *)
(* reloads, and one with a single kind, whose page an index may miss.      *)
(***************************************************************************)
EXTENDS ShopPage

CONSTANTS s1, s2, s3

MCShop == {s1, s2, s3}
MCKinds == [s \in MCShop |-> IF s = s3 THEN 1 ELSE 3]
==============================================================================
