-------------------------- MODULE MCWorkerManager --------------------------
(* The WorkerManager, its Workers and what it implements, on small instances. *)
EXTENDS WorkerManagerSlot, TLC

ConfigSymmetry == Permutations(Configs)
=============================================================================
