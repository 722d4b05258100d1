----------------------------- MODULE BdevRange ------------------------------
(***************************************************************************)
(* Locked LBA ranges of lib/bdev/bdev.c: spdk_bdev_quiesce and the         *)
(* emulated compare-and-write.                                             *)
(*                                                                         *)
(* A lock enters the bdev's list of locked ranges, or waits in the pending *)
(* list while it overlaps one; then a walk over the channels copies it to  *)
(* each and waits there for the I/O in its way.  Unlocking takes it off    *)
(* the bdev's list first and off the channels by a second walk.  Channels  *)
(* come and go meanwhile; a new one inherits the bdev's list.              *)
(*                                                                         *)
(* A step is what one thread does between two messages, or under the       *)
(* bdev's spinlock.  A lock whose allocation fails on a channel stays in   *)
(* the bdev's list after its context has been freed; the model lets the    *)
(* freed context keep its contents.                                        *)
(***************************************************************************)
EXTENDS Integers, Sequences, FiniteSets, SequencesExt, FiniteSetsExt

CONSTANTS
  NThreads,     \* threads, numbered in the order of g_threads
  Locks,        \* struct locked_lba_range_ctx, each locked once
  Quiesces,     \* those of spdk_bdev_quiesce; the others are compare-and-writes
  LockThread,   \* the thread that locks, with owner_ch unless it quiesces
  Ios,
  IoThread,
  IoType,       \* "read", "write", "nvme" (passthrough), "other" (flush, compare ...)
  IoLock,       \* caller_ctx: the compare-and-write whose write an I/O is
  NoLock,
  Blocks,       \* [offset, length] of each lock and I/O
  MaxNoMem      \* bound on failed allocations

Threads == 1 .. NThreads

ASSUME NThreadsAssumption == NThreads \in Nat \ {0} /\ MaxNoMem \in Nat
ASSUME LocksAssumption ==
  /\ IsFiniteSet(Locks) /\ Quiesces \subseteq Locks /\ NoLock \notin Locks
  /\ LockThread \in [Locks -> Threads]
ASSUME IosAssumption ==
  /\ IoThread \in [Ios -> Threads]
  /\ IoType \in [Ios -> {"read", "write", "nvme", "other"}]
  /\ IoLock \in [Ios -> (Locks \ Quiesces) \cup {NoLock}]
  /\ \A i \in Ios : IoLock[i] # NoLock => IoThread[i] = LockThread[IoLock[i]]
  /\ \A i, j \in Ios : IoLock[i] # NoLock /\ IoLock[i] = IoLock[j] => i = j
  /\ Blocks \in [Locks \cup Ios -> [offset : Nat, length : Nat]]

VARIABLES
  chan,                    \* threads with a channel
  user,                    \* threads whose user holds a reference to it
  io,                      \* where each I/O is
  io_locked,               \* the queue of each channel
  ch_ranges,               \* locked_ranges of each channel
  locked_ranges,           \* bdev->internal.locked_ranges
  pending_locked_ranges,   \* bdev->internal.pending_locked_ranges
  lock,                    \* what each lock is doing
  at,                      \* the thread its walk visits next, or Done
  waits,                   \* its poller waits for I/O of the channel at that thread
  nomem                    \* allocations that have failed

vars == <<chan, user, io, io_locked, ch_ranges, locked_ranges, pending_locked_ranges,
          lock, at, waits, nomem>>

Done == NThreads + 1

LockState == {"idle", "pending", "msg", "locking", "held", "unlocking",
              "cleanup", "failed", "unlocked"}

TypeOK ==
  /\ user \subseteq chan /\ chan \subseteq Threads
  /\ io \in [Ios -> {"idle", "submitted", "locked"}]
  /\ \A t \in Threads :
       /\ Range(io_locked[t]) = {i \in Ios : IoThread[i] = t /\ io[i] = "locked"}
       /\ IsInjective(io_locked[t])
       /\ ch_ranges[t] \subseteq [lock : Locks, quiesce : BOOLEAN, owner : BOOLEAN]
       /\ t \notin chan => ch_ranges[t] = {}
  /\ locked_ranges \subseteq Locks
  /\ pending_locked_ranges \in Seq(Locks)
  /\ lock \in [Locks -> LockState]
  /\ at \in [Locks -> Threads \cup {Done}]
  /\ waits \subseteq Locks
  /\ nomem \in 0 .. MaxNoMem

Init ==
  /\ chan = {} /\ user = {}
  /\ io = [i \in Ios |-> "idle"]
  /\ io_locked = [t \in Threads |-> << >>]
  /\ ch_ranges = [t \in Threads |-> {}]
  /\ locked_ranges = {} /\ pending_locked_ranges = << >>
  /\ lock = [l \in Locks |-> "idle"]
  /\ at = [l \in Locks |-> Done] /\ waits = {} /\ nomem = 0

-----------------------------------------------------------------------------
bdev_lba_range_overlapped(x, y) ==
  LET r == Blocks[x]
      q == Blocks[y]
  IN /\ r.length # 0 /\ q.length # 0
     /\ r.offset + r.length > q.offset /\ q.offset + q.length > r.offset

(* May the I/O not pass the channel's copy r of a range?  The owner is     *)
(* known by its channel and by the context of its I/O.                     *)
bdev_io_range_is_locked(i, r) ==
  \/ IoType[i] = "nvme"
  \/ /\ IoType[i] = "write" \/ (IoType[i] = "read" /\ r.quiesce)
     /\ bdev_lba_range_overlapped(i, r.lock)
     /\ ~(r.owner /\ IoLock[i] = r.lock)

Held(i, ranges) == \E r \in ranges : bdev_io_range_is_locked(i, r)

(* The elements of the sequence s that are in S, in their order. *)
Keep(s, S) ==
  LET kept == {n \in DOMAIN s : s[n] \in S}
      Rank(n) == Cardinality({m \in kept : m <= n})
  IN  [k \in 1 .. Cardinality(kept) |-> s[CHOOSE n \in kept : Rank(n) = k]]

NextChannel(t) == Min({u \in chan : u > t} \cup {Done})

StartWalk(l, s) ==
  /\ lock' = [lock EXCEPT ![l] = s]
  /\ at' = [at EXCEPT ![l] = NextChannel(0)]

Unlock_first(l) ==   \* mutant: the walk does not begin with the first channel
  /\ locked_ranges' = locked_ranges \ {l}
  /\ lock' = [lock EXCEPT ![l] = "unlocking"]
  /\ at' = [at EXCEPT ![l] = NextChannel(NextChannel(0))]

(* _bdev_unlock_lba_range: the bdev's list first, then the channels. *)
Unlock(l) ==
  /\ locked_ranges' = locked_ranges \ {l}
  /\ StartWalk(l, "unlocking")

Free(l) == \A k \in locked_ranges : ~bdev_lba_range_overlapped(l, k)

-----------------------------------------------------------------------------
(* I/O and channels *)

bdev_io_submit(i) ==
  LET t == IoThread[i] IN
  /\ io[i] = "idle" /\ t \in user
  /\ IoLock[i] # NoLock => lock[IoLock[i]] = "held"
  /\ IF Held(i, ch_ranges[t])
     THEN /\ io' = [io EXCEPT ![i] = "locked"]
          /\ io_locked' = [io_locked EXCEPT ![t] = Append(@, i)]
     ELSE /\ io' = [io EXCEPT ![i] = "submitted"]
          /\ UNCHANGED io_locked
  /\ UNCHANGED <<chan, user, ch_ranges, locked_ranges, pending_locked_ranges, lock, at, waits, nomem>>

(* The write of a compare-and-write unlocks its range when it completes. *)
bdev_io_complete(i) ==
  /\ io[i] = "submitted"
  /\ io' = [io EXCEPT ![i] = "idle"]
  /\ IF IoLock[i] = NoLock THEN UNCHANGED <<locked_ranges, lock, at>> ELSE Unlock(IoLock[i])
  /\ UNCHANGED <<chan, user, io_locked, ch_ranges, pending_locked_ranges, waits, nomem>>

bdev_channel_create_bare(t) ==   \* mutant: the ranges are not taken over
  /\ t \notin user
  /\ user' = user \cup {t} /\ chan' = chan \cup {t}
  /\ UNCHANGED <<io, io_locked, ch_ranges, locked_ranges, pending_locked_ranges, lock, at, waits, nomem>>

(* A new channel takes over the ranges, though not their quiesce flag. *)
bdev_channel_create(t) ==
  /\ t \notin user
  /\ user' = user \cup {t} /\ chan' = chan \cup {t}
  /\ ch_ranges' = IF t \in chan THEN ch_ranges
                  ELSE [ch_ranges EXCEPT ![t] =
                          [lock : locked_ranges, quiesce : {FALSE}, owner : {FALSE}]]
  /\ UNCHANGED <<io, io_locked, locked_ranges, pending_locked_ranges, lock, at, waits, nomem>>

(* Users have no I/O and no compare-and-write on a channel they put. *)
spdk_put_io_channel(t) ==
  /\ t \in user
  /\ \A i \in Ios : IoThread[i] = t => io[i] = "idle"
  /\ \A l \in Locks \ Quiesces :
       LockThread[l] = t => lock[l] \in {"idle", "failed", "unlocked"}
  /\ user' = user \ {t}
  /\ UNCHANGED <<chan, io, io_locked, ch_ranges, locked_ranges, pending_locked_ranges,
                 lock, at, waits, nomem>>

(* The poller of a lock that waits on the channel has a reference, ch_ref. *)
bdev_channel_destroy(t) ==
  /\ t \in chan \ user
  /\ \A l \in waits : at[l] # t
  /\ chan' = chan \ {t}
  /\ ch_ranges' = [ch_ranges EXCEPT ![t] = {}]
  /\ UNCHANGED <<user, io, io_locked, locked_ranges, pending_locked_ranges, lock, at, waits, nomem>>

-----------------------------------------------------------------------------
(* Locking *)

_bdev_lock_lba_range(l) ==
  /\ lock[l] = "idle"
  /\ l \notin Quiesces => LockThread[l] \in user
  /\ IF Free(l)
     THEN /\ locked_ranges' = locked_ranges \cup {l}
          /\ StartWalk(l, "locking")
          /\ UNCHANGED pending_locked_ranges
     ELSE /\ pending_locked_ranges' = Append(pending_locked_ranges, l)
          /\ lock' = [lock EXCEPT ![l] = "pending"]
          /\ UNCHANGED <<locked_ranges, at>>
  /\ UNCHANGED <<chan, user, io, io_locked, ch_ranges, waits, nomem>>

bdev_lock_lba_range_ctx_msg(l) ==
  /\ lock[l] = "msg"
  /\ StartWalk(l, "locking")
  /\ UNCHANGED <<chan, user, io, io_locked, ch_ranges, locked_ranges, pending_locked_ranges,
                 waits, nomem>>

Blocking(l, t, r) ==
  {i \in Ios : IoThread[i] = t /\ io[i] = "submitted" /\ bdev_io_range_is_locked(i, r)}

(* The copy for thread t's channel; its owner is set once all have one. *)
CopyOf(l) == [lock |-> l, quiesce |-> l \in Quiesces, owner |-> FALSE]

bdev_lock_lba_range_get_channel(l) ==
  LET t == at[l] IN
  /\ lock[l] = "locking" /\ t \in chan /\ l \notin waits
  /\ IF \E r \in ch_ranges[t] : r.lock = l
     THEN at' = [at EXCEPT ![l] = NextChannel(t)] /\ UNCHANGED <<ch_ranges, waits>>
     ELSE /\ ch_ranges' = [ch_ranges EXCEPT ![t] = @ \cup {CopyOf(l)}]
          /\ IF Blocking(l, t, CopyOf(l)) = {}
             THEN at' = [at EXCEPT ![l] = NextChannel(t)] /\ UNCHANGED waits
             ELSE waits' = waits \cup {l} /\ UNCHANGED at
  /\ UNCHANGED <<chan, user, io, io_locked, locked_ranges, pending_locked_ranges, lock, nomem>>

bdev_lock_lba_range_check_io(l) ==
  LET t == at[l] IN
  /\ l \in waits
  /\ Blocking(l, t, CopyOf(l)) = {}
  /\ waits' = waits \ {l}
  /\ at' = [at EXCEPT ![l] = NextChannel(t)]
  /\ UNCHANGED <<chan, user, io, io_locked, ch_ranges, locked_ranges, pending_locked_ranges,
                 lock, nomem>>

(* No memory for the copy: what the channels have is cleaned up. *)
LockAllocationFails(l) ==
  /\ lock[l] = "locking" /\ at[l] \in chan /\ l \notin waits
  /\ \A r \in ch_ranges[at[l]] : r.lock # l
  /\ nomem < MaxNoMem
  /\ nomem' = nomem + 1
  /\ StartWalk(l, "cleanup")
  /\ UNCHANGED <<chan, user, io, io_locked, ch_ranges, locked_ranges, pending_locked_ranges, waits>>

PassOver(l) ==
  /\ lock[l] \in {"locking", "unlocking", "cleanup"} /\ at[l] \in Threads \ chan
  /\ at' = [at EXCEPT ![l] = NextChannel(at[l])]
  /\ UNCHANGED <<chan, user, io, io_locked, ch_ranges, locked_ranges, pending_locked_ranges,
                 lock, waits, nomem>>

bdev_lock_lba_range_cb(l) ==
  LET t == LockThread[l] IN
  /\ lock[l] = "locking" /\ at[l] = Done
  /\ lock' = [lock EXCEPT ![l] = "held"]
  /\ ch_ranges' = IF l \in Quiesces THEN ch_ranges
                  ELSE [ch_ranges EXCEPT ![t] =
                          {[r EXCEPT !.owner = @ \/ r.lock = l] : r \in ch_ranges[t]}]
  /\ UNCHANGED <<chan, user, io, io_locked, locked_ranges, pending_locked_ranges, at, waits, nomem>>

(* The context is freed, the range stays in the bdev's list. *)
bdev_lock_error_cleanup_cb(l) ==
  /\ lock[l] = "cleanup" /\ at[l] = Done
  /\ lock' = [lock EXCEPT ![l] = "failed"]
  /\ UNCHANGED <<chan, user, io, io_locked, ch_ranges, locked_ranges, pending_locked_ranges,
                 at, waits, nomem>>

-----------------------------------------------------------------------------
(* Unlocking *)

(* spdk_bdev_unquiesce, or a compare-and-write that ends without a write. *)
_bdev_unlock_lba_range(l) ==
  /\ lock[l] = "held"
  /\ \A i \in Ios : IoLock[i] = l => io[i] = "idle"
  /\ Unlock(l)
  /\ UNCHANGED <<chan, user, io, io_locked, ch_ranges, pending_locked_ranges, waits, nomem>>

(* The range is dropped and every I/O of the queue is submitted anew. *)
bdev_unlock_lba_range_get_channel(l) ==
  LET t == at[l]
      ranges == {r \in ch_ranges[t] : r.lock # l}
  IN /\ lock[l] \in {"unlocking", "cleanup"} /\ t \in chan
     /\ ch_ranges' = [ch_ranges EXCEPT ![t] = ranges]
     /\ \E held \in {{i \in Ios : io[i] = "locked" /\ Held(i, ranges)}} :
          /\ io_locked' = [io_locked EXCEPT ![t] = Keep(@, held)]
          /\ io' = [i \in Ios |-> IF IoThread[i] = t /\ io[i] = "locked" /\ i \notin held
                                  THEN "submitted" ELSE io[i]]
     /\ at' = [at EXCEPT ![l] = NextChannel(t)]
     /\ UNCHANGED <<chan, user, locked_ranges, pending_locked_ranges, lock, waits, nomem>>

StartPending_first(l, started) ==   \* mutant: only one is started
  LET can == SelectSeq(pending_locked_ranges, LAMBDA k : bdev_lba_range_overlapped(k, l) /\ Free(k))
  IN  started = IF can = << >> THEN {} ELSE {Head(can)}

(* Pending locks are started in order, those that overlap l and nothing    *)
(* that is locked by then.                                                 *)
StartPending(l, started) ==
  \A n \in DOMAIN pending_locked_ranges :
    LET k == pending_locked_ranges[n]
        before == {pending_locked_ranges[m] : m \in 1 .. n - 1} \cap started
    IN  k \in started <=>
          /\ bdev_lba_range_overlapped(k, l)
          /\ \A j \in locked_ranges \cup before : ~bdev_lba_range_overlapped(k, j)

bdev_unlock_lba_range_cb(l) ==
  /\ lock[l] = "unlocking" /\ at[l] = Done
  /\ \E started \in SUBSET Range(pending_locked_ranges) :
       /\ StartPending(l, started)
       /\ locked_ranges' = locked_ranges \cup started
       /\ pending_locked_ranges' = Keep(pending_locked_ranges, Locks \ started)
       /\ lock' = [k \in Locks |-> IF k = l THEN "unlocked"
                                   ELSE IF k \in started THEN "msg" ELSE lock[k]]
  /\ UNCHANGED <<chan, user, io, io_locked, ch_ranges, at, waits, nomem>>

-----------------------------------------------------------------------------
LockStep(l) ==
  \/ bdev_lock_lba_range_ctx_msg(l) \/ bdev_lock_lba_range_get_channel(l)
  \/ bdev_lock_lba_range_check_io(l) \/ PassOver(l)
  \/ bdev_lock_lba_range_cb(l) \/ bdev_lock_error_cleanup_cb(l)
  \/ bdev_unlock_lba_range_get_channel(l) \/ bdev_unlock_lba_range_cb(l)

Next ==
  \/ \E i \in Ios : bdev_io_submit(i)
  \/ \E i \in Ios : bdev_io_complete(i)
  \/ \E t \in Threads : bdev_channel_create(t)
  \/ \E t \in Threads : spdk_put_io_channel(t)
  \/ \E t \in Threads : bdev_channel_destroy(t)
  \/ \E l \in Locks : _bdev_lock_lba_range(l)
  \/ \E l \in Locks : LockAllocationFails(l)
  \/ \E l \in Locks : _bdev_unlock_lba_range(l)
  \/ \E l \in Locks : LockStep(l)

Spec == Init /\ [][Next]_vars

(* Threads run their messages and pollers, the module completes I/O, and   *)
(* who has a lock gives it up.                                             *)
Fairness ==
  /\ \A l \in Locks : WF_vars(LockStep(l) \/ _bdev_unlock_lba_range(l))
  /\ \A i \in Ios : WF_vars(bdev_io_complete(i))

FairSpec == Spec /\ Fairness

-----------------------------------------------------------------------------
(* While a range is locked no write that overlaps it is in flight on any   *)
(* channel, old or new, but for those of the compare-and-write that has    *)
(* the lock: between its read and its write nothing changes the blocks.    *)
WritesExcluded ==
  \A l \in Locks, i \in Ios :
    /\ lock[l] = "held" /\ io[i] = "submitted"
    /\ IoType[i] \in {"write", "nvme"} /\ IoLock[i] # l
    => IoType[i] = "write" /\ ~bdev_lba_range_overlapped(i, l)

(* A quiesced range sees no read either, on a channel that the walk locked. *)
(* One that was created meanwhile has inherited the range as unquiesced.    *)
ReadsQuiesced ==
  \A l \in Quiesces, i \in Ios :
    /\ lock[l] = "held" /\ io[i] = "submitted" /\ IoType[i] = "read"
    /\ bdev_lba_range_overlapped(i, l)
    => [lock |-> l, quiesce |-> FALSE, owner |-> FALSE] \in ch_ranges[IoThread[i]]

(* Every I/O that is held back has a range of its channel in its way, whose *)
(* removal will submit it.                                                  *)
HeldBackByRange ==
  \A t \in Threads, i \in Ios :
    IoThread[i] = t /\ io[i] = "locked" => Held(i, ch_ranges[t])

(* A channel has no range longer than the bdev: one that the bdev no longer *)
(* lists is being taken off the channels.                                   *)
NoRangeLeftBehind ==
  \A t \in Threads : \A r \in ch_ranges[t] :
    r.lock \in locked_ranges \/ lock[r.lock] = "unlocking"

(* Locks that overlap are never granted together, whatever order locking,  *)
(* unlocking and the start of pending ones come in.                        *)
LockedDisjoint ==
  \A k, l \in Locks :
    k # l /\ lock[k] = "held" /\ lock[l] = "held" => ~bdev_lba_range_overlapped(k, l)

(* A lock that waits is granted in the end, or its allocation fails, or it *)
(* overlaps one whose allocation has failed: that one blocks it for ever.  *)
LockGranted ==
  \A l \in Locks :
    lock[l] # "idle" ~>
      \/ lock[l] \in {"held", "unlocked", "failed"}
      \/ \E k \in Locks : lock[k] = "failed" /\ bdev_lba_range_overlapped(k, l)

(* Every I/O that is held back is submitted in the end, unless a lock      *)
(* failed: a later channel inherits its range, which nobody removes.       *)
HeldBackSubmitted ==
  \A i \in Ios : io[i] = "locked" ~> io[i] # "locked" \/ \E k \in Locks : lock[k] = "failed"

(* A locked range is exclusive: against I/O, and against other locks.      *)
RangesExclude == WritesExcluded /\ ReadsQuiesced /\ LockedDisjoint

(* The channels follow the bdev: ranges are where they should be, and an   *)
(* I/O waits only for a range that is there.                               *)
RangesFollowed == TypeOK /\ HeldBackByRange /\ NoRangeLeftBehind

(* Locks are granted and what they held back goes on.                      *)
RangesProgress == LockGranted /\ HeldBackSubmitted
=============================================================================
