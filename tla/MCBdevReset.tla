---------------------------- MODULE MCBdevReset -----------------------------
(* Small instances of BdevReset for TLC. *)
EXTENDS BdevReset

CONSTANTS a, x, r1, r2

(* The I/O are on thread 1; a reset is asked for on each thread. *)
Homes == [i \in Ios |-> 1]
ResetHomes == (r1 :> 1) @@ (r2 :> 2)
=============================================================================
