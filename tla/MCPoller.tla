------------------------------ MODULE MCPoller ------------------------------
(* Small instances of Poller for TLC. *)
EXTENDS Poller

CONSTANTS a, b, c

(* One busy poller and two timed ones. *)
Mixed == (a :> 0) @@ (b :> 1) @@ (c :> 2)
(* A busy one and a timed one. *)
Pair == (a :> 0) @@ (b :> 2)
=============================================================================
