----------------------------- MODULE MCOrderPage -----------------------------
(***************************************************************************)
(* Two or three attempts: the first sets the flags, the others find them   *)
(* set.  Two addresses, two loads.                                         *)
(***************************************************************************)
EXTENDS OrderPage, TLC

CONSTANTS p1, p2, p3, s1, s2, home, work

MCTwoAttempts == {p1, p2}
MCThreeAttempts == {p1, p2, p3}
MCOneLoad == {s1}
MCTwoLoads == {s1, s2}
MCOneAddress == {home}
MCTwoAddresses == {home, work}
MCSymmetry == Permutations(Attempt) \cup Permutations(LoadSlot) \cup Permutations(Address)
==============================================================================
