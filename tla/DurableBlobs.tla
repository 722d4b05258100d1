---------------------------- MODULE DurableBlobs ----------------------------
(***************************************************************************)
(* What the blobstore promises about the metadata of its blobs.  There is  *)
(* a copy in memory, which is changed at will and lost in a crash, and a   *)
(* durable one.  A synchronisation writes out what the memory holds and    *)
(* then replaces the durable copy by that, whole and at once; a deletion   *)
(* removes it.  Nothing else touches it: no step of another blob, no crash *)
(* and no recovery.  A blob is opened with what is durable.                *)
(***************************************************************************)
CONSTANTS
  Ids,
  None,      \* no metadata
  Gone       \* in memory: the blob is being deleted

VARIABLES
  memory,    \* the metadata of each blob in memory
  staged,    \* what a synchronisation under way has written out
  durable    \* what a crash leaves of each blob

vars == <<memory, staged, durable>>

Nothing == [b \in Ids |-> None]

Init == memory = Nothing /\ staged = Nothing /\ durable = Nothing

(* In memory a blob is changed or closed, opened, or created. *)
Remember(b) ==
  \/ memory[b] # None
  \/ memory'[b] \in {None, Gone, durable[b]}
  \/ durable[b] = None

(* A synchronisation starts, ends, or starts anew for a change that waited. *)
Stage(b) == staged'[b] \in {staged[b], None, memory[b], memory'[b]}

Commit(b) ==
  \/ durable'[b] = durable[b]
  \/ staged[b] # None /\ durable'[b] = staged[b]
  \/ memory[b] = Gone /\ durable'[b] = None

Step(b) ==
  /\ Remember(b) /\ Stage(b) /\ Commit(b)
  /\ \A c \in Ids \ {b} :
       memory'[c] = memory[c] /\ staged'[c] = staged[c] /\ durable'[c] = durable[c]

Crash == memory' = Nothing /\ staged' = Nothing /\ durable' = durable

Next == Crash \/ \E b \in Ids : Step(b)

Spec == Init /\ [][Next]_vars
=============================================================================
