---------------------------- MODULE MCBdevRange -----------------------------
(* Small instances of BdevRange for TLC. *)
EXTENDS BdevRange

CONSTANTS qs, cw1, cw2, rd, wr, in, pt

(* A quiesce of blocks 0 and 1, compare-and-writes of block 0 on thread 1  *)
(* and of block 1 on thread 2; a read of block 0 and a write of block 1 on *)
(* thread 2, the write of the first compare-and-write, and a passthrough   *)
(* command on thread 1.                                                    *)
LockHomes == (qs :> 1) @@ (cw1 :> 1) @@ (cw2 :> 2)
IoHomes == (rd :> 2) @@ (wr :> 2) @@ (in :> 1) @@ (pt :> 1)
Types == (rd :> "read") @@ (wr :> "write") @@ (in :> "write") @@ (pt :> "nvme")
PartOf == (rd :> NoLock) @@ (wr :> NoLock) @@ (in :> cw1) @@ (pt :> NoLock)
Lbas == (qs :> [offset |-> 0, length |-> 2]) @@ (cw1 :> [offset |-> 0, length |-> 1])
        @@ (cw2 :> [offset |-> 1, length |-> 1]) @@ (rd :> [offset |-> 0, length |-> 1])
        @@ (wr :> [offset |-> 1, length |-> 1]) @@ (in :> [offset |-> 0, length |-> 1])
        @@ (pt :> [offset |-> 0, length |-> 0])
=============================================================================
