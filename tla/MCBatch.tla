------------------------------ MODULE MCBatch ------------------------------
(* Instances of Batch.                                                     *)
EXTENDS Batch, TLC

Symmetry == Permutations(Threads) \cup Permutations(ExecFuncs) \cup Permutations(Keys)
=============================================================================
