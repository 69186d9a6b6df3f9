---------------------------- MODULE MCLabelTools ----------------------------
(* LabelTools with interchangeable tool calls. *)
EXTENDS LabelTools, TLC

Symmetry == Permutations(Requests)
=============================================================================
