----------------------------- MODULE MCReactor ------------------------------
(* Small instances of Reactor for TLC. *)
EXTENDS Reactor

CONSTANTS t1, t2
=============================================================================
