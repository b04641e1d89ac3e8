-------------------------- MODULE MCExecuteRequest --------------------------
(* ExecuteRequest on small instances: times on both sides of a full second. *)
EXTENDS ExecuteRequest, TLC

MCTimes == {999999, 1000000}

MCSymmetry == Permutations(Threads)
=============================================================================
