-------------------------- MODULE MCShowGoodsListPage --------------------------
(***************************************************************************)
(* All goods, and a search whose goods are sold out.  Two requests under   *)
(* way at once are a press in a hurry, or an earlier visit's request       *)
(* beside this one's.                                                      *)
(***************************************************************************)
EXTENDS ShowGoodsListPage, TLC

CONSTANTS all, gone, s1, s2

MCTwoQueries == {all, gone}
MCSoldOut == {gone}
MCNoQuery == {}
MCTwoSlots == {s1, s2}
MCSymmetry == Permutations(Slot)
==============================================================================
