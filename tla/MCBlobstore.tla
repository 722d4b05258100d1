---------------------------- MODULE MCBlobstore -----------------------------
(* Small instances of Blobstore for TLC. *)
EXTENDS Blobstore

(* Either two pages and no extent table, or one page and an extent table. *)
TwoKinds == {[et |-> FALSE, big |-> TRUE, sz |-> 1], [et |-> TRUE, big |-> FALSE, sz |-> 1]}
=============================================================================
