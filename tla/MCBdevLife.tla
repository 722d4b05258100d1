----------------------------- MODULE MCBdevLife -----------------------------
(* Small instances of BdevLife for TLC. *)
EXTENDS BdevLife

CONSTANTS d0, d1, d2, r1, l1
=============================================================================
