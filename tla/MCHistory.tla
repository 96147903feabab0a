------------------------------ MODULE MCHistory ------------------------------
(* Instances of Linearizability for TLC. *)
EXTENDS Linearizability, TLC

IdSymmetry == Permutations(Ids) \cup Permutations(Keys)
=============================================================================
