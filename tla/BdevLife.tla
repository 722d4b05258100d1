------------------------------ MODULE BdevLife ------------------------------
(***************************************************************************)
(* The life of one block device in lib/bdev/bdev.c: registration and       *)
(* examination, descriptors, claims, events, and unregistration while      *)
(* descriptors are open, a reset is in progress or ranges are locked.      *)
(*                                                                         *)
(* A step is what one thread does under the bdev's spinlock, or between    *)
(* two messages.  Resets and locked ranges are there only as far as they   *)
(* hold up unregistration (BdevReset and BdevRange have the rest), QoS     *)
(* changes, which hold it up as well, are not.  Users put their channels   *)
(* before they close the descriptor they used them with, so that only a    *)
(* reset keeps the io_device after the last close.                         *)
(* A message that finds the bdev gone, whose code would read freed memory, *)
(* is not run.                                                             *)
(***************************************************************************)
EXTENDS Integers, Sequences, FiniteSets, SequencesExt

CONSTANTS
  Descs,        \* struct spdk_bdev_desc
  ExamineDesc,  \* the descriptor that spdk_bdev_register opens
  Resets,       \* resets, each with its bdev_reset_complete
  Locks,        \* ranges that the module quiesces, each once
  Keys,         \* shared_claim_key of read-many-write-shared claims
  NoKey,
  MaxEvents     \* bound on the events in flight to one descriptor

ASSUME DescsAssumption == IsFiniteSet(Descs) /\ ExamineDesc \in Descs
ASSUME LocksAssumption == IsFiniteSet(Locks)
ASSUME KeysAssumption == NoKey \notin Keys
ASSUME MaxEventsAssumption == MaxEvents \in Nat

VARIABLES
  status,               \* bdev->internal.status, "none" before, "gone" after
  listed,               \* the bdev is in g_bdev_mgr.bdevs and has its name
  desc,                 \* "free", "open" or "closed"
  refs,                 \* desc->refs
  events,               \* messages in flight to the thread of each descriptor
  told,                 \* descriptors whose event_fn has been told of the removal
  writable,             \* open descriptors with desc->write
  claim_type,
  claims, dead,         \* descriptors with a claim; the list has claims whose descriptor is closed
  key,
  examine,              \* "no", "now", "done": a name is examined once
  reset,                \* "idle", "running", "done": bdev_reset_complete under way
  lock,                 \* "idle", "locked", "unlocking": its walk is under way, "done"
  walk,                 \* the walk of spdk_bdev_unregister is under way
  msgs,                 \* messages _bdev_unregister in flight
  unregistered          \* calls of spdk_io_device_unregister, up to two

descs == <<desc, refs, events, told, writable>>
claiming == <<claim_type, claims, dead, key, examine>>
removal == <<walk, msgs, unregistered>>
vars == <<status, listed, descs, claiming, reset, lock, removal>>

V2 == {"write_one", "write_none", "write_shared"}
ClaimType == {"none", "excl_write"} \cup V2

TypeOK ==
  /\ status \in {"none", "ready", "unregistering", "removing", "gone"}
  /\ listed \in BOOLEAN
  /\ desc \in [Descs -> {"free", "open", "closed"}]
  /\ refs \in [Descs -> 0 .. MaxEvents + Cardinality(Locks) + 1]
  /\ events \in [Descs -> Seq({"remove", "resize"})]
  /\ told \subseteq Descs /\ writable \subseteq {d \in Descs : desc[d] = "open"}
  /\ claim_type \in ClaimType
  /\ claims \subseteq {d \in Descs : desc[d] = "open"} /\ dead \in BOOLEAN
  /\ key \in Keys \cup {NoKey}
  /\ examine \in {"no", "now", "done"}
  /\ reset \in [Resets -> {"idle", "running", "done"}]
  /\ lock \in [Locks -> {"idle", "locked", "unlocking", "done"}]
  /\ walk \in BOOLEAN /\ msgs \in 0 .. Cardinality(Locks) /\ unregistered \in 0 .. 2

Init ==
  /\ status = "none" /\ listed = FALSE
  /\ desc = [d \in Descs |-> "free"] /\ refs = [d \in Descs |-> 0]
  /\ events = [d \in Descs |-> << >>] /\ told = {} /\ writable = {}
  /\ claim_type = "none" /\ claims = {} /\ dead = FALSE /\ key = NoKey
  /\ examine = "no"
  /\ reset = [r \in Resets |-> "idle"] /\ lock = [l \in Locks |-> "idle"]
  /\ walk = FALSE /\ msgs = 0 /\ unregistered = 0

open_descs == {d \in Descs : desc[d] = "open"}
locked_ranges == {l \in Locks : lock[l] = "locked"}
reset_in_progress == \E r \in Resets : reset[r] = "running"

-----------------------------------------------------------------------------
(* Unregistration *)

spdk_io_device_unregister == unregistered' = IF unregistered = 2 THEN 2 ELSE unregistered + 1

(* event_notify to every open descriptor. *)
event_notify(kind) ==
  /\ refs' = [d \in Descs |-> IF d \in open_descs THEN refs[d] + 1 ELSE refs[d]]
  /\ events' = [d \in Descs |-> IF d \in open_descs THEN Append(events[d], kind) ELSE events[d]]

(* With open descriptors they are told.  Without, the bdev leaves the list, *)
(* and its io_device goes unless a reset is in progress.                    *)
bdev_unregister_unsafe_eager(open) ==   \* mutant: the reset is not looked at
  IF open # {} THEN UNCHANGED <<listed, unregistered>>
  ELSE listed' = FALSE /\ spdk_io_device_unregister

bdev_unregister_unsafe(open) ==
  IF open # {} THEN UNCHANGED <<listed, unregistered>>
  ELSE /\ listed' = FALSE
       /\ IF reset_in_progress THEN UNCHANGED unregistered ELSE spdk_io_device_unregister

spdk_bdev_unregister ==
  /\ status = "ready"
  /\ status' = "unregistering" /\ walk' = TRUE
  /\ UNCHANGED <<listed, descs, claiming, reset, lock, msgs, unregistered>>

bdev_unregister ==
  IF locked_ranges # {} THEN UNCHANGED <<status, listed, refs, events, unregistered>>
  ELSE /\ status' = "removing"
       /\ event_notify("remove")
       /\ bdev_unregister_unsafe(open_descs)

(* bdev_unregister at the end of the walk, and again as a message when the *)
(* last locked range is unlocked.  The app thread runs these, and it is    *)
(* not in the middle of an examination.                                    *)
OnAppThread == status # "gone" /\ examine # "now"

bdev_unregister_walk_done ==
  /\ OnAppThread /\ walk /\ walk' = FALSE
  /\ bdev_unregister
  /\ UNCHANGED <<desc, told, writable, claiming, reset, lock, msgs>>

_bdev_unregister ==
  /\ OnAppThread /\ msgs > 0 /\ msgs' = msgs - 1
  /\ bdev_unregister
  /\ UNCHANGED <<desc, told, writable, claiming, reset, lock, walk>>

(* The io_device is gone when no channel is left; a reset has one. *)
bdev_destroy_cb ==
  /\ OnAppThread /\ unregistered > 0
  /\ ~reset_in_progress
  /\ status' = "gone"
  /\ UNCHANGED <<listed, descs, claiming, reset, lock, removal>>

-----------------------------------------------------------------------------
(* Registration, descriptors and events *)

spdk_bdev_register ==
  /\ status = "none"
  /\ status' = "ready" /\ listed' = TRUE
  /\ desc' = [desc EXCEPT ![ExamineDesc] = "open"]
  /\ UNCHANGED <<refs, events, told, writable, claiming, reset, lock, removal>>

bdev_open(d, write) ==
  /\ d # ExamineDesc /\ desc[d] = "free"
  /\ listed /\ status = "ready"
  /\ write => claim_type = "none"
  /\ desc' = [desc EXCEPT ![d] = "open"]
  /\ writable' = IF write THEN writable \cup {d} ELSE writable
  /\ UNCHANGED <<status, listed, refs, events, told, claiming, reset, lock, removal>>

(* The last claim that goes resets the type; during an examination the     *)
(* claim stays in the list, dead, for the examination to clean up.         *)
bdev_desc_release_claims(d) ==
  /\ claims' = claims \ {d}
  /\ IF examine # "now"
     THEN /\ claim_type' = IF claims = {d} /\ ~dead THEN "none" ELSE claim_type
          /\ key' = IF claims = {d} /\ ~dead THEN NoKey ELSE key
          /\ UNCHANGED dead
     ELSE dead' = TRUE /\ UNCHANGED <<claim_type, key>>
  /\ UNCHANGED examine

FreedAlways(d) == TRUE   \* mutant: the references of events are not looked at
FreedNow(d) == refs[d] = 0

(* bdev_close; the descriptor is freed unless an event is in flight to it. *)
Close(d) ==
  /\ desc[d] = "open"
  /\ desc' = [desc EXCEPT ![d] = IF FreedNow(d) THEN "free" ELSE "closed"]
  /\ writable' = writable \ {d} /\ told' = told \ {d}
  /\ IF d \in claims THEN bdev_desc_release_claims(d) ELSE UNCHANGED claiming
  /\ IF status = "removing" /\ open_descs = {d}
     THEN bdev_unregister_unsafe({})
     ELSE UNCHANGED <<listed, unregistered>>
  /\ UNCHANGED <<status, refs, events, reset, lock, walk, msgs>>

spdk_bdev_close(d) == d # ExamineDesc /\ Close(d)

(* All examinations are done. *)
bdev_register_finished == OnAppThread /\ Close(ExamineDesc)

(* A message of event_notify runs on the thread of its descriptor. *)
_event_notify(d) ==
  /\ events[d] # << >>
  /\ events' = [events EXCEPT ![d] = Tail(@)]
  /\ refs' = [refs EXCEPT ![d] = @ - 1]
  /\ told' = IF desc[d] = "open" /\ Head(events[d]) = "remove" THEN told \cup {d} ELSE told
  /\ desc' = [desc EXCEPT ![d] = IF @ = "closed" /\ refs[d] = 1 THEN "free" ELSE @]
  /\ UNCHANGED <<status, listed, writable, claiming, reset, lock, removal>>

spdk_bdev_notify_blockcnt_change ==
  /\ status \notin {"none", "gone"}
  /\ \A d \in open_descs : refs[d] < MaxEvents
  /\ event_notify("resize")
  /\ UNCHANGED <<status, listed, desc, told, writable, claiming, reset, lock, removal>>

-----------------------------------------------------------------------------
(* Claims *)

spdk_bdev_module_claim_bdev(d) ==
  /\ d # ExamineDesc /\ desc[d] = "open" /\ claim_type = "none"
  /\ claim_type' = "excl_write" /\ writable' = writable \cup {d}
  /\ UNCHANGED <<status, listed, desc, refs, events, told, claims, dead, key, examine,
                 reset, lock, removal>>

spdk_bdev_module_release_bdev ==
  /\ claim_type = "excl_write" /\ status # "gone"
  /\ claim_type' = "none"
  /\ UNCHANGED <<status, listed, descs, claims, dead, key, examine, reset, lock, removal>>

claim_verify_rwo(d) == claim_type = "none" /\ writable \subseteq {d}
claim_verify_rom_self(d) == d \notin writable   \* mutant: the others are not looked at
claim_verify_rom(d) == d \notin writable /\ (claim_type = "none" => writable = {})
claim_verify_rwm(d, k) ==
  /\ claim_type = "none" => writable \subseteq {d}
  /\ claim_type # "none" => k = key

claim_bdev(d, type, k) ==
  /\ claims' = claims \cup {d} /\ claim_type' = type
  /\ key' = IF claim_type = "none" THEN k ELSE key
  /\ writable' = IF type = "write_none" THEN writable ELSE writable \cup {d}

spdk_bdev_module_claim_bdev_desc(d, type, k) ==
  /\ d # ExamineDesc /\ desc[d] = "open" /\ d \notin claims
  /\ claim_type \in {"none", type}
  /\ \/ type = "write_one" /\ k = NoKey /\ claim_verify_rwo(d)
     \/ type = "write_none" /\ k = NoKey /\ claim_verify_rom(d)
     \/ type = "write_shared" /\ k # NoKey /\ claim_verify_rwm(d, k)
  /\ claim_bdev(d, type, k)
  /\ UNCHANGED <<status, listed, desc, refs, events, told, dead, examine, reset, lock,
                 removal>>

(* bdev_examine walks the claims with the spinlock dropped around each     *)
(* module's examine_disk, then clears the dead ones away.                  *)
bdev_examine_start ==
  /\ listed /\ examine = "no" /\ claim_type \in V2
  /\ examine' = "now"
  /\ UNCHANGED <<status, listed, descs, claim_type, claims, dead, key, reset, lock, removal>>

bdev_examine_end ==
  /\ examine = "now" /\ examine' = "done" /\ dead' = FALSE
  /\ claim_type' = IF claims = {} THEN "none" ELSE claim_type
  /\ key' = IF claims = {} THEN NoKey ELSE key
  /\ UNCHANGED <<status, listed, descs, claims, reset, lock, removal>>

-----------------------------------------------------------------------------
(* What holds up unregistration *)

spdk_bdev_reset(r) ==
  /\ reset[r] = "idle" /\ open_descs \ {ExamineDesc} # {} /\ ~reset_in_progress
  /\ reset' = [reset EXCEPT ![r] = "running"]
  /\ UNCHANGED <<status, listed, descs, claiming, lock, removal>>

(* bdev_reset_complete clears reset_in_progress under the spinlock, runs   *)
(* the completions of the resets, and only then looks at the bdev again.   *)
bdev_reset_complete(r) ==
  /\ reset[r] = "running"
  /\ reset' = [reset EXCEPT ![r] = "done"]
  /\ UNCHANGED <<status, listed, descs, claiming, lock, removal>>

bdev_reset_complete_tail(r) ==
  /\ reset[r] = "done"
  /\ reset' = [reset EXCEPT ![r] = "idle"]
  /\ IF status = "removing" /\ open_descs = {}
     THEN spdk_io_device_unregister ELSE UNCHANGED unregistered
  /\ UNCHANGED <<status, listed, descs, claiming, lock, walk, msgs>>

(* The module quiesces a range, and unquiesces it. *)
Quiescable == status \in {"ready", "unregistering"} \/ (status = "removing" /\ open_descs # {})

spdk_bdev_quiesce(l) ==
  /\ lock[l] = "idle" /\ Quiescable
  /\ lock' = [lock EXCEPT ![l] = "locked"]
  /\ UNCHANGED <<status, listed, descs, claiming, reset, removal>>

spdk_bdev_unquiesce(l) ==
  /\ lock[l] = "locked" /\ Quiescable
  /\ lock' = [lock EXCEPT ![l] = "unlocking"]
  /\ UNCHANGED <<status, listed, descs, claiming, reset, removal>>

ContinuesTooLate == status = "removing" /\ locked_ranges = {}   \* mutant: the wrong status
Continues == status = "unregistering" /\ locked_ranges = {}

bdev_unlock_lba_range_cb(l) ==
  /\ lock[l] = "unlocking" /\ status # "gone"
  /\ lock' = [lock EXCEPT ![l] = "done"]
  /\ msgs' = IF Continues THEN msgs + 1 ELSE msgs
  /\ UNCHANGED <<status, listed, descs, claiming, reset, walk, unregistered>>

-----------------------------------------------------------------------------
Next ==
  \/ spdk_bdev_register \/ bdev_register_finished
  \/ spdk_bdev_unregister \/ bdev_unregister_walk_done \/ _bdev_unregister \/ bdev_destroy_cb
  \/ \E d \in Descs, write \in BOOLEAN : bdev_open(d, write)
  \/ \E d \in Descs : spdk_bdev_close(d)
  \/ \E d \in Descs : _event_notify(d)
  \/ spdk_bdev_notify_blockcnt_change
  \/ \E d \in Descs : spdk_bdev_module_claim_bdev(d)
  \/ spdk_bdev_module_release_bdev
  \/ \E d \in Descs, type \in V2, k \in Keys \cup {NoKey} :
       spdk_bdev_module_claim_bdev_desc(d, type, k)
  \/ bdev_examine_start \/ bdev_examine_end
  \/ \E r \in Resets : spdk_bdev_reset(r)
  \/ \E r \in Resets : bdev_reset_complete(r)
  \/ \E r \in Resets : bdev_reset_complete_tail(r)
  \/ \E l \in Locks : spdk_bdev_quiesce(l)
  \/ \E l \in Locks : spdk_bdev_unquiesce(l)
  \/ \E l \in Locks : bdev_unlock_lba_range_cb(l)

Spec == Init /\ [][Next]_vars

(* Threads run their messages, modules finish examinations and resets, who *)
(* is told of the removal closes, and a range is not locked anew for ever. *)
Fairness ==
  /\ WF_vars(bdev_unregister_walk_done) /\ WF_vars(_bdev_unregister) /\ WF_vars(bdev_destroy_cb)
  /\ WF_vars(bdev_register_finished) /\ WF_vars(bdev_examine_end)
  /\ \A d \in Descs : WF_vars(_event_notify(d)) /\ WF_vars(d \in told /\ spdk_bdev_close(d))
  /\ \A r \in Resets : WF_vars(bdev_reset_complete(r)) /\ WF_vars(bdev_reset_complete_tail(r))
  /\ \A l \in Locks : WF_vars(spdk_bdev_unquiesce(l)) /\ WF_vars(bdev_unlock_lba_range_cb(l))

FairSpec == Spec /\ Fairness

-----------------------------------------------------------------------------
(* A descriptor is freed when it is closed and no event is in flight to    *)
(* it: not before, when a message would find it freed, and not later.      *)
FreedAfterEvents ==
  \A d \in Descs :
    /\ refs[d] = Len(events[d])
    /\ desc[d] = "free" => events[d] = << >>
    /\ desc[d] = "closed" => events[d] # << >>

(* When the io_device is unregistered the bdev can be reached by nobody:   *)
(* no descriptor is open, no reset in progress, the name is gone.          *)
UnregisteredUnused ==
  unregistered > 0 => open_descs = {} /\ ~listed /\ ~reset_in_progress

(* A claim keeps others from writing: a write-one claim all but its        *)
(* holder, a write-none claim everybody, a write-shared claim who has none. *)
WritersClaimed ==
  /\ claim_type = "write_one" => writable \subseteq claims /\ Cardinality(claims) <= 1
  /\ claim_type = "write_none" => writable = {}
  /\ claim_type = "write_shared" => writable \subseteq claims

(* The bdev is claimed, in the second manner, exactly while the list of    *)
(* claims is not empty; an examination leaves no dead claim in it.         *)
ClaimedWhileListed ==
  /\ (claim_type \in V2) = (claims # {} \/ dead)
  /\ examine # "now" => ~dead

(* A bdev that is being unregistered is destroyed in the end, with         *)
(* descriptors open, a reset in progress and ranges locked when it began.   *)
UnregisterCompletes == status = "unregistering" ~> status = "gone"

(* Claims keep writers out for as long as they last, and no longer.        *)
ClaimsKept == TypeOK /\ WritersClaimed /\ ClaimedWhileListed
=============================================================================
