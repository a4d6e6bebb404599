----------------------------- MODULE MCHandover -----------------------------
(***************************************************************************)
(* Small instances of Handover.                                            *)
(***************************************************************************)
EXTENDS Handover, TLC

Symmetry == Permutations(Customer) \cup Permutations(Item)
=============================================================================
