---------------------------- MODULE MCNodeHealth ----------------------------
(***************************************************************************)
(* NodeHealth for TLC: the sets of interchangeable nodes, attempts and     *)
(* manual ticks, for the runs that check no liveness.                      *)
(***************************************************************************)
EXTENDS NodeHealth, TLC

Symmetry == Permutations(Node) \cup Permutations(Call) \cup Permutations(Manual)
=============================================================================
