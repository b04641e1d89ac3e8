---------------------------- MODULE MCLifecycle ----------------------------
(* The process with two clients on one entry, and queues of one message. *)
EXTENDS Lifecycle
=============================================================================
