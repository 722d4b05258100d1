------------------------------ MODULE MCIobuf -------------------------------
(* Small instances of Iobuf for TLC. *)
EXTENDS Iobuf

CONSTANTS t1, t2, c1, c2, c3, b1, b2, b3, e1, e2

(* Two channels share a thread and its queue, one has its own. *)
TwoAndOne == (c1 :> t1) @@ (c2 :> t1) @@ (c3 :> t2)
Sizes == (c1 :> 2) @@ (c2 :> 0) @@ (c3 :> 1)
=============================================================================
