----------------------------- MODULE MCEditorPages -----------------------------
(***************************************************************************)
(* Two words, so that a text may be another row's; two requests, so that a *)
(* command overlaps with a load or with another command.                   *)
(***************************************************************************)
EXTENDS EditorPages, TLC

CONSTANTS w1, w2

MCWord == {w1, w2}
MCSymmetry == Permutations(MCWord)
==============================================================================
