---------------------------- MODULE MCServerLoop ----------------------------
(* Two clients, one of which may send garbage, and one entry. *)
EXTENDS ServerLoop
=============================================================================
