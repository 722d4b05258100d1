----------------------------- MODULE MCIoDevice -----------------------------
(* Small instances of IoDevice for TLC. *)
EXTENDS IoDevice, TLC

TwoThreads == 1 .. 2
ThreeThreads == 1 .. 3

IterSymmetry == Permutations(Iters)
=============================================================================
