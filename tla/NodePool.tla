------------------------------ MODULE NodePool ------------------------------
(* The worker nodes, known to the refresher's loops and to the payments.   *)
EXTENDS FiniteSets

CONSTANT Node

ASSUME NodeAssumption == IsFiniteSet(Node)
=============================================================================
