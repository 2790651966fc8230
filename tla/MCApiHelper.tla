----------------------------- MODULE MCApiHelper -----------------------------
(***************************************************************************)
(* Three calls and two answers: enough for a success and two failures of   *)
(* one timer batch to interleave, and for a wrong answer to be told apart. *)
(***************************************************************************)
EXTENDS ApiHelper

CONSTANTS c1, c2, c3, a1, a2

MCCall == {c1, c2, c3}
MCAnswer == {a1, a2}
==============================================================================
