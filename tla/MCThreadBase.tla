---------------------------- MODULE MCThreadBase ----------------------------
(* Instances of ThreadBase for TLC.                                        *)
EXTENDS ThreadBaseRefinement, TLC

(* Threads that only send asynchronously are interchangeable.              *)
AsyncSymmetry == Permutations(Callers \ SyncCallers)
=============================================================================
