---------------------------- MODULE MCThreadMsg -----------------------------
(* Small instances of ThreadMsg for TLC. *)
EXTENDS ThreadMsg

CONSTANTS s1, s2
=============================================================================
