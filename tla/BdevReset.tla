----------------------------- MODULE BdevReset ------------------------------
(***************************************************************************)
(* I/O and reset on one block device of lib/bdev/bdev.c.                   *)
(*                                                                         *)
(* Every thread may have a channel to the bdev.  An I/O goes from the      *)
(* channel to the bdev module, which may complete it, at once or later, or *)
(* give it back for lack of memory (NOMEM); such an I/O waits in the       *)
(* nomem_io list of the shared resource, which the channels of all the     *)
(* bdevs on top of one module channel have in common.  A reset freezes the *)
(* channels one after the other, may wait for outstanding I/O to drain,    *)
(* goes to the module, and unfreezes the channels again; a reset that      *)
(* arrives in the meantime is queued and completes with it.                *)
(*                                                                         *)
(* A step is what one thread does between two messages.  Left out: QoS     *)
(* queues, waiting for data buffers, splitting and locked ranges; an I/O   *)
(* that the module completes inside a retry is one it completes later.  An *)
(* abort that gets to the module is an I/O like any other.                 *)
(* The channel of the other bdevs on a thread is always open, so that the  *)
(* shared resource stays; the users close a channel, or drop a reference,  *)
(* only when they have no I/O of their own on it.                          *)
(***************************************************************************)
EXTENDS Integers, Sequences, FiniteSets, SequencesExt, FiniteSetsExt

CONSTANTS
  NThreads,            \* threads, numbered in the order of g_threads
  Ios,                 \* struct spdk_bdev_io, by the thread of their channel
  OwnIos,              \* those for the bdev; the others share its module channel
  SequenceIos,         \* those with an accel sequence to run when they complete
  IoThread,
  Resets,              \* struct spdk_bdev_io of type SPDK_BDEV_IO_TYPE_RESET
  ResetThread,
  NoReset

Threads == 1 .. NThreads

ASSUME NThreadsAssumption == NThreads \in Nat \ {0}
ASSUME IosAssumption ==
  /\ IsFiniteSet(Ios)
  /\ OwnIos \subseteq Ios /\ SequenceIos \subseteq OwnIos
  /\ IoThread \in [Ios -> Threads]
ASSUME ResetsAssumption == ResetThread \in [Resets -> Threads] /\ NoReset \notin Resets

VARIABLES
  st,          \* where each I/O is
  res,         \* the shared resource and the counter of the channel, per thread
  chan,        \* the threads that have a channel to the bdev
  user,        \* the threads whose user holds a reference to it
  frozen,      \* channels with BDEV_CH_RESET_IN_PROGRESS in their flags
  reset,       \* where each reset is
  current,     \* bdev->internal.reset_in_progress
  queued,      \* bdev->internal.queued_resets
  phase,       \* what the reset in progress does
  at,          \* the thread whose channel the walk visits next, or Done
  busy,        \* the walk ended with -EBUSY
  older,       \* history: channels older than the reset in progress
  before,      \* history: I/O submitted before it that have not completed
  requeued,    \* history: I/O given back with NOMEM on a frozen channel
  skipped      \* history: it completes without having gone to the module

walk == <<phase, at, busy>>
history == <<older, before, requeued, skipped>>
vars == <<st, res, chan, user, frozen, reset, current, queued, walk, history>>

Done == NThreads + 1
IosOf(t) == {i \in Ios : IoThread[i] = t}

TypeOK ==
  /\ st \in [Ios -> {"idle", "module", "accel", "nomem", "deferred"}]
  /\ \A t \in Threads :
       /\ res[t].nomem_io \in Seq(IosOf(t))
       /\ res[t].io_outstanding \in Nat /\ res[t].ch_outstanding \in Nat
       /\ res[t].nomem_threshold \in Nat /\ res[t].nomem_poller \in BOOLEAN
  /\ chan \subseteq Threads /\ user \subseteq chan /\ frozen \subseteq chan
  /\ reset \in [Resets -> {"idle", "current", "queued", "deferred"}]
  /\ current \in Resets \cup {NoReset}
  /\ queued \in Seq(Resets)
  /\ phase \in {"none", "freeze", "check", "wait", "module", "unfreeze"}
  /\ at \in Threads \cup {Done}
  /\ busy \in BOOLEAN /\ skipped \in BOOLEAN
  /\ older \subseteq chan /\ before \subseteq OwnIos /\ requeued \subseteq OwnIos

Init ==
  /\ st = [i \in Ios |-> "idle"]
  /\ res = [t \in Threads |-> [nomem_io |-> << >>, nomem_threshold |-> 0,
                               io_outstanding |-> 0, ch_outstanding |-> 0,
                               nomem_poller |-> FALSE]]
  /\ chan = {} /\ user = {} /\ frozen = {}
  /\ reset = [r \in Resets |-> "idle"]
  /\ current = NoReset /\ queued = << >>
  /\ phase = "none" /\ at = Done /\ busy = FALSE
  /\ older = {} /\ before = {} /\ requeued = {} /\ skipped = FALSE

-----------------------------------------------------------------------------
(* What a thread does to its shared resource and its I/O.  s is res[t] with *)
(* st as a further field; where the module has a choice the result is the   *)
(* set of what can come out.                                                *)

NOMEM_THRESHOLD_COUNT == 8

(* The elements of the list s that are in S, in their order. *)
Keep(s, S) ==
  LET kept == {n \in DOMAIN s : s[n] \in S}
      Rank(n) == Cardinality({m \in kept : m <= n})
  IN  [k \in 1 .. Cardinality(kept) |-> s[CHOOSE n \in kept : Rank(n) = k]]

Local(t) == [st |-> st, nomem_io |-> res[t].nomem_io,
             nomem_threshold |-> res[t].nomem_threshold,
             io_outstanding |-> res[t].io_outstanding,
             ch_outstanding |-> res[t].ch_outstanding,
             nomem_poller |-> res[t].nomem_poller]

Goes(s, i, place) == [s EXCEPT !.st[i] = place]

bdev_io_increment_outstanding(s, i) ==
  [s EXCEPT !.io_outstanding = @ + 1,
            !.ch_outstanding = @ + (IF i \in OwnIos THEN 1 ELSE 0)]

bdev_io_decrement_outstanding(s, i) ==
  [s EXCEPT !.io_outstanding = @ - 1,
            !.ch_outstanding = @ - (IF i \in OwnIos THEN 1 ELSE 0)]

bdev_queue_nomem_io_head(s, i) ==
  [Goes(s, i, "nomem") EXCEPT
     !.nomem_threshold = Max({s.io_outstanding \div 2,
                              s.io_outstanding - NOMEM_THRESHOLD_COUNT}),
     !.nomem_io = <<i>> \o @]

handle_no_mem_unpolled(s, i) ==   \* mutant: the poller is registered for the first waiter only
  [bdev_queue_nomem_io_head(s, i) EXCEPT
     !.nomem_poller = @ \/ (s.io_outstanding = 0 /\ s.nomem_io = << >>)]

(* The I/O came back with NOMEM: it waits at the front, and a poller makes *)
(* up for the completions that will not come.                              *)
handle_no_mem(s, i) ==
  [bdev_queue_nomem_io_head(s, i) EXCEPT
     !.nomem_poller = @ \/ s.io_outstanding = 0]

(* The first k I/O of the list are handed to the module again. *)
Resubmitted(s, k) ==
  LET again == {s.nomem_io[n] : n \in 1 .. k} IN
  [s EXCEPT !.nomem_io = SubSeq(@, k + 1, Len(@)),
            !.st = [i \in Ios |-> IF i \in again THEN "module" ELSE @[i]],
            !.io_outstanding = @ + k,
            !.ch_outstanding = @ + Cardinality(again \cap OwnIos)]

(* The loop ends when the list is empty or the module returns NOMEM. *)
bdev_shared_ch_retry_io(s) ==
  IF s.io_outstanding > s.nomem_threshold THEN {s}
  ELSE {LET r == Resubmitted(s, k) IN
        IF r.nomem_io = << >> THEN r
        ELSE handle_no_mem([r EXCEPT !.nomem_io = Tail(@)], Head(r.nomem_io)) :
          k \in 0 .. Len(s.nomem_io)}

RetryIfAny(s) == IF s.nomem_io = << >> THEN {s} ELSE bdev_shared_ch_retry_io(s)

(* spdk_bdev_io_complete with a status that is not NOMEM. *)
Completed(s, i, place) ==
  {Goes(r, i, place) : r \in RetryIfAny(bdev_io_decrement_outstanding(s, i))}

(* The completion is put off to a message, as the caller is still inside   *)
(* the submission.                                                         *)
_bdev_io_complete_in_submit(s, i) ==
  Completed(bdev_io_increment_outstanding(s, i), i, "deferred")

SubmitToModule(s, i) ==
  LET given == bdev_io_increment_outstanding(s, i) IN
  {Goes(given, i, "module")}
    \cup {handle_no_mem(bdev_io_decrement_outstanding(given, i), i)}
    \cup (IF i \in SequenceIos THEN {} ELSE Completed(given, i, "deferred"))

bdev_abort_queued_io(s, i) ==
  Completed(bdev_io_increment_outstanding([s EXCEPT !.nomem_io = Keep(@, Ios \ {i})], i),
            i, "idle")

bdev_io_do_submit(s, i) ==
  IF s.nomem_io = << >> THEN SubmitToModule(s, i)
  ELSE LET r == [Goes(s, i, "nomem") EXCEPT !.nomem_io = Append(@, i)] IN
       IF r.nomem_threshold = 0 /\ r.io_outstanding = 0
       THEN bdev_shared_ch_retry_io(r) ELSE {r}

_bdev_io_submit(t, i) ==
  IF i \in OwnIos /\ t \in frozen
  THEN _bdev_io_complete_in_submit(Local(t), i)
  ELSE bdev_io_do_submit(Local(t), i)

(* The state of thread t becomes s. *)
Becomes(t, s) ==
  LET left == {i \in before : s.st[i] \in {"idle", "deferred"}}
      back == {i \in OwnIos \ requeued : t \in frozen /\ st[i] # "nomem" /\ s.st[i] = "nomem"}
  IN /\ st' = s.st
     /\ res' = [res EXCEPT ![t] = [nomem_io |-> s.nomem_io, nomem_threshold |-> s.nomem_threshold,
                                   io_outstanding |-> s.io_outstanding,
                                   ch_outstanding |-> s.ch_outstanding,
                                   nomem_poller |-> s.nomem_poller]]
     /\ before' = before \ left
     /\ requeued' = (requeued \cup back) \ left

-----------------------------------------------------------------------------
(* I/O *)

SubmitIo(i) ==
  LET t == IoThread[i] IN
  /\ st[i] = "idle"
  /\ i \in OwnIos => t \in user
  /\ \E s \in _bdev_io_submit(t, i) : Becomes(t, s)
  /\ UNCHANGED <<chan, user, frozen, reset, current, queued, walk, older, skipped>>

(* spdk_bdev_abort of an I/O that waits: it is completed, and so is the    *)
(* abort, by _bdev_io_complete_in_submit, which leaves the counters as     *)
(* they were and retries the list.  A frozen channel aborts the abort.     *)
spdk_bdev_abort(i) ==
  LET t == IoThread[i] IN
  /\ i \in OwnIos /\ st[i] = "nomem" /\ t \in user
  /\ \E s \in UNION {RetryIfAny(r) : r \in IF t \in frozen THEN {Local(t)}
                                           ELSE bdev_abort_queued_io(Local(t), i)} :
       Becomes(t, s)
  /\ UNCHANGED <<chan, user, frozen, reset, current, queued, walk, older, skipped>>

(* The module completes an I/O; with an accel sequence it is only then run. *)
spdk_bdev_io_complete(i) ==
  LET t == IoThread[i]
      s == Local(t)
  IN /\ st[i] = "module"
     /\ IF i \in SequenceIos
        THEN \/ Becomes(t, Goes(s, i, "accel"))
             \/ \E r \in Completed(s, i, "idle") : Becomes(t, r)
        ELSE \E r \in Completed(s, i, "idle") : Becomes(t, r)
     /\ UNCHANGED <<chan, user, frozen, reset, current, queued, walk, older, skipped>>

ModuleNoMem(i) ==
  LET t == IoThread[i] IN
  /\ st[i] = "module"
  /\ Becomes(t, handle_no_mem(bdev_io_decrement_outstanding(Local(t), i), i))
  /\ UNCHANGED <<chan, user, frozen, reset, current, queued, walk, older, skipped>>

bdev_io_exec_sequence_cb(i) ==
  LET t == IoThread[i] IN
  /\ st[i] = "accel"
  /\ \E s \in Completed(Local(t), i, "idle") : Becomes(t, s)
  /\ UNCHANGED <<chan, user, frozen, reset, current, queued, walk, older, skipped>>

(* The message that runs a completion that was put off. *)
bdev_io_complete(i) ==
  /\ st[i] = "deferred"
  /\ st' = [st EXCEPT ![i] = "idle"]
  /\ UNCHANGED <<res, chan, user, frozen, reset, current, queued, walk, history>>

bdev_no_mem_poller(t) ==
  /\ res[t].nomem_poller
  /\ \E s \in RetryIfAny(Local(t)) :
       Becomes(t, [s EXCEPT !.nomem_poller = s.nomem_io # << >> /\ s.io_outstanding = 0])
  /\ UNCHANGED <<chan, user, frozen, reset, current, queued, walk, older, skipped>>

-----------------------------------------------------------------------------
(* Channels *)

bdev_channel_create(t) ==
  /\ t \notin user
  /\ user' = user \cup {t} /\ chan' = chan \cup {t}
  /\ UNCHANGED <<st, res, frozen, reset, current, queued, walk, history>>

spdk_put_io_channel(t) ==
  /\ t \in user
  /\ \A i \in OwnIos \cap IosOf(t) : st[i] = "idle"
  /\ user' = user \ {t}
  /\ UNCHANGED <<st, res, chan, frozen, reset, current, queued, walk, history>>

(* The last reference is gone; a pending reset has one of its own. *)
bdev_channel_destroy(t) ==
  /\ t \in chan \ user
  /\ \A r \in Resets : ResetThread[r] = t => reset[r] = "idle"
  /\ chan' = chan \ {t} /\ frozen' = frozen \ {t} /\ older' = older \ {t}
  /\ UNCHANGED <<st, res, user, reset, current, queued, walk, before, requeued, skipped>>

-----------------------------------------------------------------------------
(* Reset *)

(* The walk of spdk_bdev_for_each_channel goes to the next thread that has *)
(* a channel when it leaves thread t.                                      *)
NextChannel(t) == Min({u \in chan : u > t} \cup {Done})

StartWalk(p) == phase' = p /\ at' = NextChannel(0) /\ busy' = FALSE

spdk_bdev_reset(r) ==
  /\ reset[r] = "idle" /\ ResetThread[r] \in user
  /\ IF current = NoReset
     THEN /\ current' = r /\ reset' = [reset EXCEPT ![r] = "current"]
          /\ StartWalk("freeze")
          /\ older' = chan /\ requeued' = {} /\ skipped' = FALSE
          /\ before' = {i \in OwnIos : st[i] \in {"module", "accel", "nomem"}}
          /\ UNCHANGED queued
     ELSE /\ reset' = [reset EXCEPT ![r] = "queued"]
          /\ queued' = Append(queued, r)
          /\ UNCHANGED <<current, walk, history>>
  /\ UNCHANGED <<st, res, chan, user, frozen>>

(* A channel that is gone when the walk comes to its thread is passed over. *)
PassOver ==
  /\ phase \in {"freeze", "check", "unfreeze"} /\ at \in Threads \ chan
  /\ at' = NextChannel(at)
  /\ UNCHANGED <<st, res, chan, user, frozen, reset, current, queued, phase, busy, history>>

(* The waiting I/O of the channel are aborted; nomem_abort_in_progress     *)
(* keeps their completions from retrying the others.                       *)
bdev_abort_all_nomem_io(t) ==
  LET s == Local(t) IN
  [s EXCEPT !.nomem_io = Keep(@, Ios \ OwnIos),
            !.st = [i \in Ios |-> IF st[i] = "nomem" /\ i \in OwnIos \cap IosOf(t)
                                  THEN "idle" ELSE st[i]]]

bdev_reset_freeze_channel_busy ==   \* mutant: only a channel with I/O is frozen
  /\ phase = "freeze" /\ at \in chan
  /\ frozen' = IF res[at].ch_outstanding > 0 THEN frozen \cup {at} ELSE frozen
  /\ Becomes(at, bdev_abort_all_nomem_io(at))
  /\ at' = NextChannel(at)
  /\ UNCHANGED <<chan, user, reset, current, queued, phase, busy, older, skipped>>

bdev_reset_freeze_channel ==
  /\ phase = "freeze" /\ at \in chan
  /\ frozen' = frozen \cup {at}
  /\ Becomes(at, bdev_abort_all_nomem_io(at))
  /\ at' = NextChannel(at)
  /\ UNCHANGED <<chan, user, reset, current, queued, phase, busy, older, skipped>>

(* With no reset_io_drain_timeout the reset goes to the module at once;    *)
(* whether the bdev has one is left open.                                  *)
bdev_reset_freeze_channel_done ==
  /\ phase = "freeze" /\ at = Done
  /\ \/ StartWalk("check")
     \/ phase' = "module" /\ UNCHANGED <<at, busy>>
  /\ UNCHANGED <<st, res, chan, user, frozen, reset, current, queued, history>>

bdev_reset_check_outstanding_io_last ==   \* mutant: the walk goes on after -EBUSY
  /\ phase = "check" /\ at \in chan
  /\ busy' = (res[at].ch_outstanding > 0)
  /\ at' = NextChannel(at)
  /\ UNCHANGED <<st, res, chan, user, frozen, reset, current, queued, phase, history>>

bdev_reset_check_outstanding_io ==
  /\ phase = "check" /\ at \in chan
  /\ busy' = (res[at].ch_outstanding > 0)
  /\ at' = IF busy' THEN Done ELSE NextChannel(at)
  /\ UNCHANGED <<st, res, chan, user, frozen, reset, current, queued, phase, history>>

(* With I/O left the check is repeated until stop_time_tsc, which may pass *)
(* at any time; then the reset goes to the module, or fails while an accel *)
(* sequence runs.                                                          *)
bdev_reset_check_outstanding_io_done ==
  LET accel == \E i \in OwnIos \cap IosOf(ResetThread[current]) : st[i] = "accel" IN
  /\ phase = "check" /\ at = Done
  /\ \/ /\ busy
        /\ phase' = "wait" /\ UNCHANGED <<at, busy, skipped>>
     \/ /\ busy /\ ~accel
        /\ phase' = "module" /\ UNCHANGED <<at, busy, skipped>>
     \/ /\ busy /\ accel
        /\ StartWalk("unfreeze") /\ UNCHANGED skipped
     \/ /\ ~busy
        /\ StartWalk("unfreeze") /\ skipped' = TRUE
  /\ UNCHANGED <<st, res, chan, user, frozen, reset, current, queued, older, before, requeued>>

bdev_reset_poll_for_outstanding_io ==
  /\ phase = "wait"
  /\ StartWalk("check")
  /\ UNCHANGED <<st, res, chan, user, frozen, reset, current, queued, history>>

(* The module has done the reset. *)
ModuleResetComplete ==
  /\ phase = "module"
  /\ StartWalk("unfreeze")
  /\ UNCHANGED <<st, res, chan, user, frozen, reset, current, queued, history>>

bdev_unfreeze_channel ==
  /\ phase = "unfreeze" /\ at \in chan
  /\ frozen' = frozen \ {at}
  /\ at' = NextChannel(at)
  /\ UNCHANGED <<st, res, chan, user, reset, current, queued, phase, busy, history>>

bdev_reset_complete_alone ==   \* mutant: the queued resets are forgotten
  /\ phase = "unfreeze" /\ at = Done
  /\ reset' = [reset EXCEPT ![current] = "idle"]
  /\ queued' = << >> /\ current' = NoReset
  /\ phase' = "none"
  /\ older' = {} /\ before' = {} /\ requeued' = {} /\ skipped' = FALSE
  /\ UNCHANGED <<st, res, chan, user, frozen, at, busy>>

(* The queued resets complete with the one in progress, by messages. *)
bdev_reset_complete ==
  /\ phase = "unfreeze" /\ at = Done
  /\ reset' = [r \in Resets |-> IF r = current THEN "idle"
                                ELSE IF r \in Range(queued) THEN "deferred" ELSE reset[r]]
  /\ queued' = << >> /\ current' = NoReset
  /\ phase' = "none"
  /\ older' = {} /\ before' = {} /\ requeued' = {} /\ skipped' = FALSE
  /\ UNCHANGED <<st, res, chan, user, frozen, at, busy>>

_bdev_reset_complete(r) ==
  /\ reset[r] = "deferred"
  /\ reset' = [reset EXCEPT ![r] = "idle"]
  /\ UNCHANGED <<st, res, chan, user, frozen, current, queued, walk, history>>

-----------------------------------------------------------------------------
ResetWalk ==
  \/ PassOver \/ bdev_reset_freeze_channel \/ bdev_reset_freeze_channel_done
  \/ bdev_reset_check_outstanding_io \/ bdev_reset_check_outstanding_io_done
  \/ bdev_reset_poll_for_outstanding_io
  \/ bdev_unfreeze_channel \/ bdev_reset_complete

Next ==
  \/ \E i \in Ios : SubmitIo(i)
  \/ \E i \in Ios : spdk_bdev_abort(i)
  \/ \E i \in Ios : spdk_bdev_io_complete(i)
  \/ \E i \in Ios : ModuleNoMem(i)
  \/ \E i \in Ios : bdev_io_exec_sequence_cb(i)
  \/ \E i \in Ios : bdev_io_complete(i)
  \/ \E t \in Threads : bdev_no_mem_poller(t)
  \/ \E t \in Threads : bdev_channel_create(t)
  \/ \E t \in Threads : spdk_put_io_channel(t)
  \/ \E t \in Threads : bdev_channel_destroy(t)
  \/ \E r \in Resets : spdk_bdev_reset(r)
  \/ \E r \in Resets : _bdev_reset_complete(r)
  \/ ResetWalk \/ ModuleResetComplete

Spec == Init /\ [][Next]_vars

(* Threads run their messages and pollers, time passes, and the module     *)
(* finishes what it is given.  An I/O that it keeps giving back it takes   *)
(* and completes in the end.                                               *)
Fairness ==
  /\ WF_vars(ResetWalk \/ ModuleResetComplete)
  /\ SF_vars(bdev_reset_check_outstanding_io_done /\ phase' # "wait")
  /\ \A r \in Resets : WF_vars(_bdev_reset_complete(r))
  /\ \A i \in Ios : WF_vars(bdev_io_exec_sequence_cb(i) \/ bdev_io_complete(i))
  /\ \A i \in Ios : SF_vars(spdk_bdev_io_complete(i))
  /\ \A t \in {IoThread[i] : i \in Ios} :
       SF_vars(bdev_no_mem_poller(t) /\ res'[t].nomem_io = << >>)

FairSpec == Spec /\ Fairness

-----------------------------------------------------------------------------
(* The counters equal the I/O that are with the module or in the accel     *)
(* framework, although completions of I/O that never got there run through *)
(* the same decrement (bdev_abort_queued_io, _bdev_io_complete_in_submit). *)
OutstandingExact ==
  \A t \in Threads :
    LET out == {i \in IosOf(t) : st[i] \in {"module", "accel"}} IN
    /\ res[t].io_outstanding = Cardinality(out)
    /\ res[t].ch_outstanding = Cardinality(out \cap OwnIos)

(* An I/O is in a nomem_io list when it waits, in one, and once; so no     *)
(* retry, abort or freeze completes or submits it twice.                   *)
WaitersListedOnce ==
  \A t \in Threads :
    /\ Range(res[t].nomem_io) = {i \in IosOf(t) : st[i] = "nomem"}
    /\ IsInjective(res[t].nomem_io)

(* No I/O waits for memory with nothing to wake it: there is I/O whose     *)
(* completion retries the list, or the poller is registered.               *)
NomemNotStranded ==
  \A t \in Threads :
    res[t].nomem_io # << >> => res[t].io_outstanding > 0 \/ res[t].nomem_poller

(* Once the walk has frozen the channels, every channel that is older than *)
(* the reset is frozen until the reset has been done.                      *)
OlderChannelsFrozen ==
  phase \in {"check", "wait", "module"} => older \subseteq frozen

(* No channel is left frozen when no reset is in progress: it would abort  *)
(* all of its I/O for ever.                                                *)
FrozenOnlyInReset == current = NoReset => frozen = {}

(* A reset that is skipped for want of outstanding I/O has waited for all  *)
(* I/O submitted before it, but for those that the module gave back on a   *)
(* frozen channel: the freeze does not hold them, they are retried.        *)
SkippedAfterDrain == skipped => before \subseteq requeued

(* Every reset completes, queued or not, whatever channels come and go. *)
ResetsComplete == \A r \in Resets : reset[r] # "idle" ~> reset[r] = "idle"

(* Every I/O completes, though it be given back and queued. *)
IosComplete == \A i \in Ios : st[i] # "idle" ~> st[i] = "idle"

(* Every I/O is accounted for: counted while it is out, listed while it    *)
(* waits, and with something to wake it.                                   *)
IosAccounted == TypeOK /\ OutstandingExact /\ WaitersListedOnce /\ NomemNotStranded

(* The channels are frozen for a reset, and for no longer.                 *)
FreezeHolds == OlderChannelsFrozen /\ FrozenOnlyInReset

(* Nothing hangs.                                                          *)
AllComplete == ResetsComplete /\ IosComplete
=============================================================================
