-------------------------- MODULE MCEntryController --------------------------
(* The gateway on a small instance, next to the ZeroMQ thread. *)
EXTENDS EntryController, TLC

MCTimes == {999999, 1000000}

MCSymmetry == Permutations(Workers)
=============================================================================
