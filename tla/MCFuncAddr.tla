----------------------------- MODULE MCFuncAddr -----------------------------
(* Model-checking instance of FuncAddr: ids are interchangeable. *)
EXTENDS FuncAddr, TLC

IdSymmetry == Permutations(Ids)
=============================================================================
