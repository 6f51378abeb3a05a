----------------------------- MODULE MCRWQueue -----------------------------
(* A small instance of RWQueue for TLC. *)
EXTENDS RWQueue
============================================================================
