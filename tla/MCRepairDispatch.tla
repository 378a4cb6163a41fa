-------------------------- MODULE MCRepairDispatch --------------------------
(***************************************************************************)
(* RepairDispatch on small instances.                                      *)
(***************************************************************************)
EXTENDS RepairDispatch, TLC

\* Workers are interchangeable; repair ids are ordered.
Symmetry == Permutations(Workers)

=============================================================================
