------------------------------ MODULE IoDevice ------------------------------
(***************************************************************************)
(* The io_device / io_channel / for_each_channel protocol of the SPDK      *)
(* thread library (lib/thread/thread.c), and thread exit.                  *)
(*                                                                         *)
(* Each SPDK thread runs its messages one at a time.  A step of this       *)
(* specification is one stretch of such a run: a critical section under    *)
(* g_devlist_mutex, one message put on a ring, or one user callback.  Code *)
(* between two such points touches only state of the running thread, so    *)
(* the steps are exactly the points where threads can interleave.          *)
(*                                                                         *)
(* All structs in Devs carry the same key (the opaque io_device pointer):  *)
(* registering the key again while an older struct still drains gives a    *)
(* second struct.  Different keys share nothing but the thread counters.   *)
(*                                                                         *)
(* Users keep the contract that the library asserts: they register, get,   *)
(* put, iterate and unregister what exists, on the owning thread; what an  *)
(* asynchronous fn or a completion does is the user's next steps.          *)
(***************************************************************************)
EXTENDS Integers, Sequences, FiniteSets

CONSTANTS
  Threads,   \* thread ids (thread->id), ordered as thread_link_compare does
  Devs,      \* struct io_device instances, each allocated at most once
  Iters,     \* struct spdk_io_channel_iter instances, each used at most once
  MaxRef,    \* bound on ch->ref + ch->destroy_ref
  NoThread   \* the NULL spdk_thread pointer

ASSUME ThreadsAssumption ==
  Threads \subseteq Nat /\ Threads # {} /\ IsFiniteSet(Threads)
ASSUME DevsAssumption == Devs # {}
ASSUME MaxRefAssumption == MaxRef \in Nat \ {0}
ASSUME NoThreadAssumption == NoThread \notin Threads

VARIABLES
  \* struct io_device
  life,                  \* allocation state of each struct
  g_io_devices,          \* structs in the global tree
  unregistered, pending_unregister, unregister_cb,   \* flags, as sets of structs
  unregister_thread,
  for_each_count,        \* iterations that have not ended
  refcnt,                \* channels that have not been destroyed
  dev_threads,           \* dev->threads: threads with a link in the device's tree
  \* struct spdk_io_channel, one per thread and device
  io_channels,           \* threads whose io_channels tree has a channel of the device
  ref, destroy_ref,
  \* struct spdk_io_channel_iter, with the calls it still owes
  iter,
  \* struct spdk_thread
  state, pending_unregister_count, thr_for_each_count,
  messages,              \* the ring
  at,                    \* where inside a handler the thread is
  fault                  \* the abort(), failed assert or stale access that ended the program

lifeVars == <<life, g_io_devices>>
flagVars == <<unregistered, pending_unregister, unregister_cb, unregister_thread>>
refVars  == <<refcnt, dev_threads>>
devVars  == <<lifeVars, flagVars, for_each_count, refVars>>
chVars   == <<io_channels, ref, destroy_ref>>
thrVars  == <<state, pending_unregister_count, thr_for_each_count>>
vars     == <<devVars, chVars, iter, thrVars, messages, at, fault>>

-----------------------------------------------------------------------------
(* Types. *)

Iter == [st : {"unused", "queued", "in_fn", "ended", "completed"},
         dev : Devs, cur : Threads, orig : Threads, status : {0, -1},
         owed : SUBSET Threads]         \* channels fn has still to be called on

Msg == [fn : {"put_io_channel", "_finish_unregister", "__pending_unregister"},
        arg : Devs]
       \cup [fn : {"_call_channel", "_call_completion"}, arg : Iters]

(* Idle: the thread is between messages.  The other points are those where a
   handler has released g_devlist_mutex and has more to do. *)
Idle == [pt |-> "idle"]
Point == {Idle}
         \cup [pt : {"create_cb", "destroy_cb", "io_device_free", "recheck"}, dev : Devs]
         \cup [pt : {"complete"}, iter : Iters]
         \cup [pt : {"exited"}]

Fault == {"none", "send_to_exited", "io_device_not_found", "already_pending",
          "use_after_free"}

TypeOK ==
  /\ life \in [Devs -> {"unused", "live", "freed"}]
  /\ g_io_devices \subseteq Devs
  /\ unregistered \subseteq Devs
  /\ pending_unregister \subseteq Devs
  /\ unregister_cb \subseteq Devs
  /\ unregister_thread \in [Devs -> Threads \cup {NoThread}]
  /\ for_each_count \in [Devs -> Int]
  /\ refcnt \in [Devs -> Nat]
  /\ dev_threads \in [Devs -> SUBSET Threads]
  /\ io_channels \in [Devs -> SUBSET Threads]
  /\ ref \in [Threads -> [Devs -> 0 .. MaxRef]]
  /\ destroy_ref \in [Threads -> [Devs -> Nat]]
  /\ iter \in [Iters -> Iter]
  /\ state \in [Threads -> {"RUNNING", "EXITING", "EXITED"}]
  /\ pending_unregister_count \in [Threads -> Int]
  /\ thr_for_each_count \in [Threads -> Int]
  /\ messages \in [Threads -> Seq(Msg)]
  /\ at \in [Threads -> Point]
  /\ fault \in Fault

Init ==
  /\ life = [d \in Devs |-> "unused"]
  /\ g_io_devices = {}
  /\ unregistered = {} /\ pending_unregister = {} /\ unregister_cb = {}
  /\ unregister_thread = [d \in Devs |-> NoThread]
  /\ for_each_count = [d \in Devs |-> 0]
  /\ refcnt = [d \in Devs |-> 0]
  /\ dev_threads = [d \in Devs |-> {}]
  /\ io_channels = [d \in Devs |-> {}]
  /\ ref = [t \in Threads |-> [d \in Devs |-> 0]]
  /\ destroy_ref = [t \in Threads |-> [d \in Devs |-> 0]]
  /\ iter = [i \in Iters |->
       [st |-> "unused", dev |-> CHOOSE d \in Devs : TRUE,
        cur |-> CHOOSE t \in Threads : TRUE, orig |-> CHOOSE t \in Threads : TRUE,
        status |-> 0, owed |-> {}]]
  /\ state = [t \in Threads |-> "RUNNING"]
  /\ pending_unregister_count = [t \in Threads |-> 0]
  /\ thr_for_each_count = [t \in Threads |-> 0]
  /\ messages = [t \in Threads |-> <<>>]
  /\ at = [t \in Threads |-> Idle]
  /\ fault = "none"

-----------------------------------------------------------------------------
(* Threads and messages. *)

At(t, pt) == fault = "none" /\ at[t].pt = pt
Goto(t, p) == at' = [at EXCEPT ![t] = p]

(* A thread that is idle and has not exited runs user code and messages. *)
Runs(t) == At(t, "idle") /\ state[t] # "EXITED"

(* The message at the head of t's ring calls fn. *)
Handles(t, fn) == Runs(t) /\ messages[t] # <<>> /\ Head(messages[t]).fn = fn
Arg(t) == Head(messages[t]).arg
Pop(t) == [messages EXCEPT ![t] = Tail(@)]

(* Send m on top of the rings q: abort() if the target has exited. *)
spdk_thread_send_msg(q, to, m) ==
  IF state[to] = "EXITED"
  THEN messages' = q /\ fault' = "send_to_exited"
  ELSE messages' = [q EXCEPT ![to] = Append(@, m)] /\ fault' = fault

(* Nothing is sent and nothing fails; a message may have been taken off. *)
Quiet(q) == messages' = q /\ UNCHANGED fault
Fail(why, q) == messages' = q /\ fault' = why

-----------------------------------------------------------------------------
(* Devices. *)

(* A key that is already in the tree is refused and the new struct freed. *)
spdk_io_device_register(t, d) ==
  /\ Runs(t)
  /\ life[d] = "unused"
  /\ g_io_devices = {}
  /\ g_io_devices' = {d}
  /\ life' = [life EXCEPT ![d] = "live"]
  /\ UNCHANGED <<flagVars, for_each_count, refVars, chVars, iter, thrVars, messages, at, fault>>

IteratedIgnored(d) == FALSE   \* mutant: unregister does not look at for_each_count

(* Some iteration over the device has not ended. *)
Iterated(d) == for_each_count[d] > 0

(* What the user's call and __pending_unregister share.  A device that is
   being iterated is only marked. *)
Unregister(t, d, cb) ==
  /\ unregister_cb' = IF cb THEN unregister_cb \cup {d} ELSE unregister_cb \ {d}
  /\ unregister_thread' = [unregister_thread EXCEPT ![d] = t]
  /\ \/ /\ Iterated(d)
        /\ pending_unregister' = pending_unregister \cup {d}
        /\ UNCHANGED <<unregistered, g_io_devices, pending_unregister_count, at>>
     \/ /\ ~Iterated(d)
        /\ unregistered' = unregistered \cup {d}
        /\ g_io_devices' = g_io_devices \ {d}
        /\ pending_unregister_count' =
             [pending_unregister_count EXCEPT ![t] = IF cb THEN @ + 1 ELSE @]
        /\ at' = IF refcnt[d] > 0 THEN at
                 ELSE [at EXCEPT ![t] = [pt |-> "io_device_free", dev |-> d]]
        /\ UNCHANGED pending_unregister
  /\ UNCHANGED <<life, for_each_count, refVars, chVars, iter, state, thr_for_each_count>>

(* The user unregisters a device once. *)
spdk_io_device_unregister(t, d, cb) ==
  /\ Runs(t)
  /\ d \in g_io_devices \ pending_unregister
  /\ Unregister(t, d, cb)
  /\ Quiet(messages)

(* The deferred call, sent when the last iteration ended.  It reads its struct
   and then looks the key up again: it unregisters what the lookup finds. *)
__pending_unregister(t) ==
  /\ Handles(t, "__pending_unregister")
  /\ LET d == Arg(t)
         Stop(why) == Fail(why, Pop(t)) /\ UNCHANGED <<devVars, chVars, iter, thrVars, at>>
     IN
     \/ life[d] = "freed" /\ Stop("use_after_free")
     \/ life[d] # "freed" /\ g_io_devices = {} /\ Stop("io_device_not_found")
     \/ /\ life[d] # "freed"
        /\ \E e \in g_io_devices :
             IF e \in pending_unregister /\ Iterated(e)
             THEN Stop("already_pending")
             ELSE Unregister(t, e, d \in unregister_cb) /\ Quiet(Pop(t))

(* Free the struct, or have unregister_cb run on the unregistering thread. *)
io_device_free(t) ==
  /\ At(t, "io_device_free")
  /\ Goto(t, Idle)
  /\ LET d == at[t].dev IN
     \/ /\ d \notin unregister_cb
        /\ life' = [life EXCEPT ![d] = "freed"]
        /\ Quiet(messages)
     \/ /\ d \in unregister_cb
        /\ spdk_thread_send_msg(messages, unregister_thread[d],
                                [fn |-> "_finish_unregister", arg |-> d])
        /\ UNCHANGED life
  /\ UNCHANGED <<g_io_devices, flagVars, for_each_count, refVars, chVars, iter, thrVars>>

(* unregister_cb(dev->io_device) runs here, then the struct is freed. *)
_finish_unregister(t) ==
  /\ Handles(t, "_finish_unregister")
  /\ pending_unregister_count' = [pending_unregister_count EXCEPT ![t] = @ - 1]
  /\ life' = [life EXCEPT ![Arg(t)] = "freed"]
  /\ Quiet(Pop(t))
  /\ UNCHANGED <<g_io_devices, flagVars, for_each_count, refVars, chVars, iter, state,
                 thr_for_each_count, at>>

-----------------------------------------------------------------------------
(* Channels. *)

(* The channel exists already: even one whose last reference was put. *)
GetExisting(t, d) ==
  /\ Runs(t)
  /\ d \in g_io_devices
  /\ t \in io_channels[d]
  /\ ref[t][d] + destroy_ref[t][d] < MaxRef
  /\ ref' = [ref EXCEPT ![t][d] = @ + 1]
  /\ UNCHANGED <<devVars, io_channels, destroy_ref, iter, thrVars, messages, at, fault>>

(* A new channel enters both trees, and create_cb is called. *)
GetCreate(t, d) ==
  /\ Runs(t)
  /\ d \in g_io_devices
  /\ t \notin io_channels[d]
  /\ io_channels' = [io_channels EXCEPT ![d] = @ \cup {t}]
  /\ ref' = [ref EXCEPT ![t][d] = 1]
  /\ destroy_ref' = [destroy_ref EXCEPT ![t][d] = 0]
  /\ refcnt' = [refcnt EXCEPT ![d] = @ + 1]
  /\ dev_threads' = [dev_threads EXCEPT ![d] = @ \cup {t}]
  /\ Goto(t, [pt |-> "create_cb", dev |-> d])
  /\ UNCHANGED <<lifeVars, flagVars, for_each_count, iter, thrVars, messages, fault>>

spdk_get_io_channel(t, d) == GetExisting(t, d) \/ GetCreate(t, d)

CreateSucceeds(t) ==
  /\ At(t, "create_cb")
  /\ Goto(t, Idle)
  /\ UNCHANGED <<devVars, chVars, iter, thrVars, messages, fault>>

AfterDropEarly(d, n) ==        \* mutant: the references that are left are not looked at
  IF d \in unregistered THEN [pt |-> "io_device_free", dev |-> d] ELSE Idle
AfterDropLeaks(d, n) == Idle   \* mutant: do_remove_dev stays false

(* Where control goes after a reference to d was dropped that leaves n of them:
   who drops the last one of an unregistered device frees it. *)
AfterDrop(d, n) ==
  IF d \in unregistered /\ n = 0 THEN [pt |-> "io_device_free", dev |-> d] ELSE Idle

(* t's channel for d leaves the trees: no iteration owes it a call any more. *)
Forget(t, d) ==
  [i \in Iters |-> IF iter[i].dev = d THEN [iter[i] EXCEPT !.owed = @ \ {t}] ELSE iter[i]]

CreateFailsKeepsRef(t) ==      \* mutant: dev->refcnt is not given back
  /\ At(t, "create_cb")
  /\ LET d == at[t].dev IN
     /\ io_channels' = [io_channels EXCEPT ![d] = @ \ {t}]
     /\ ref' = [ref EXCEPT ![t][d] = 0]
     /\ dev_threads' = [dev_threads EXCEPT ![d] = @ \ {t}]
     /\ Goto(t, AfterDrop(d, refcnt[d]))
     /\ iter' = Forget(t, d)
  /\ UNCHANGED <<lifeVars, flagVars, for_each_count, refcnt, destroy_ref, thrVars, messages, fault>>

(* create_cb returned an error: what GetCreate did is undone. *)
CreateFails(t) ==
  /\ At(t, "create_cb")
  /\ LET d == at[t].dev IN
     /\ io_channels' = [io_channels EXCEPT ![d] = @ \ {t}]
     /\ ref' = [ref EXCEPT ![t][d] = 0]
     /\ refcnt' = [refcnt EXCEPT ![d] = @ - 1]
     /\ dev_threads' = [dev_threads EXCEPT ![d] = @ \ {t}]
     /\ Goto(t, AfterDrop(d, refcnt[d] - 1))
     /\ iter' = Forget(t, d)
  /\ UNCHANGED <<lifeVars, flagVars, for_each_count, destroy_ref, thrVars, messages, fault>>

(* Only an owner of a reference may take another one this way. *)
spdk_io_channel_ref(t, d) ==
  /\ Runs(t)
  /\ t \in io_channels[d]
  /\ ref[t][d] > 0
  /\ ref[t][d] + destroy_ref[t][d] < MaxRef
  /\ ref' = [ref EXCEPT ![t][d] = @ + 1]
  /\ UNCHANGED <<devVars, io_channels, destroy_ref, iter, thrVars, messages, at, fault>>

(* The last reference is released by a message to the own thread. *)
spdk_put_io_channel(t, d) ==
  /\ Runs(t)
  /\ t \in io_channels[d]
  /\ ref[t][d] > 0
  /\ ref' = [ref EXCEPT ![t][d] = @ - 1]
  /\ \/ ref[t][d] > 1 /\ Quiet(messages) /\ UNCHANGED destroy_ref
     \/ /\ ref[t][d] = 1
        /\ destroy_ref' = [destroy_ref EXCEPT ![t][d] = @ + 1]
        /\ spdk_thread_send_msg(messages, t, [fn |-> "put_io_channel", arg |-> d])
  /\ UNCHANGED <<devVars, io_channels, iter, thrVars, at>>

AbandonedTwice(t, d) == ref[t][d] = 0   \* mutant: destroy_ref is not looked at

(* Nobody took the channel again, and this is the last such message. *)
Abandoned(t, d) == ref[t][d] = 0 /\ destroy_ref[t][d] = 1

(* An abandoned channel leaves both trees, and destroy_cb is called. *)
put_io_channel(t) ==
  /\ Handles(t, "put_io_channel")
  /\ LET d == Arg(t) IN
     /\ destroy_ref' = [destroy_ref EXCEPT ![t][d] = @ - 1]
     /\ \/ ~Abandoned(t, d) /\ UNCHANGED <<io_channels, dev_threads, iter, at>>
        \/ /\ Abandoned(t, d)
           /\ io_channels' = [io_channels EXCEPT ![d] = @ \ {t}]
           /\ dev_threads' = [dev_threads EXCEPT ![d] = @ \ {t}]
           /\ iter' = Forget(t, d)
           /\ Goto(t, [pt |-> "destroy_cb", dev |-> d])
  /\ Quiet(Pop(t))
  /\ UNCHANGED <<lifeVars, flagVars, for_each_count, refcnt, ref, thrVars>>

(* After destroy_cb, under the mutex again. *)
DestroyReturns(t) ==
  /\ At(t, "destroy_cb")
  /\ LET d == at[t].dev IN
     /\ refcnt' = [refcnt EXCEPT ![d] = @ - 1]
     /\ Goto(t, AfterDrop(d, refcnt[d] - 1))
  /\ UNCHANGED <<lifeVars, flagVars, for_each_count, dev_threads, chVars, iter, thrVars,
                 messages, fault>>

-----------------------------------------------------------------------------
(* Iterations. *)

(* The thread with the lowest id in S, as RB_MIN and RB_NFIND return it. *)
IsFirst(u, S) == u \in S /\ \A v \in S : u <= v

BeyondSkips(d, t) == {u \in dev_threads[d] : u > t + 1}   \* mutant: off by one
BeyondStays(d, t) == {u \in dev_threads[d] : u >= t}      \* mutant: off by one

(* The threads of d that io_dev_get_next_thread chooses from. *)
Beyond(d, t) == {u \in dev_threads[d] : u > t}

(* The iteration starts on the first thread; with none there, or a pending
   unregister, it completes without a call. *)
spdk_for_each_channel(t, d, i) ==
  /\ Runs(t)
  /\ d \in g_io_devices
  /\ iter[i].st = "unused"
  /\ thr_for_each_count' = [thr_for_each_count EXCEPT ![t] = @ + 1]
  /\ \/ /\ d \in pending_unregister \/ dev_threads[d] = {}
        /\ iter' = [iter EXCEPT ![i] =
             [st |-> "ended", dev |-> d, cur |-> t, orig |-> t, owed |-> {},
              status |-> IF d \in pending_unregister THEN -1 ELSE 0]]
        /\ spdk_thread_send_msg(messages, t, [fn |-> "_call_completion", arg |-> i])
        /\ UNCHANGED for_each_count
     \/ /\ d \notin pending_unregister
        /\ for_each_count' = [for_each_count EXCEPT ![d] = @ + 1]
        /\ \E u \in Threads :
             /\ IsFirst(u, dev_threads[d])
             /\ iter' = [iter EXCEPT ![i] =
                  [st |-> "queued", dev |-> d, cur |-> u, orig |-> t, status |-> 0,
                   owed |-> io_channels[d]]]
             /\ spdk_thread_send_msg(messages, u, [fn |-> "_call_channel", arg |-> i])
  /\ UNCHANGED <<lifeVars, flagVars, refVars, chVars, state, pending_unregister_count, at>>

(* First critical section of spdk_for_each_channel_continue, on rings q: go on
   to the next thread, or end the iteration. *)
Continue(t, i, status, q) ==
  LET d == iter[i].dev IN
  /\ \/ /\ status = 0
        /\ \E u \in Threads :
             /\ IsFirst(u, Beyond(d, t))
             /\ iter' = [iter EXCEPT ![i].st = "queued", ![i].cur = u, ![i].status = 0]
             /\ spdk_thread_send_msg(q, u, [fn |-> "_call_channel", arg |-> i])
        /\ UNCHANGED <<for_each_count, at>>
     \/ /\ status # 0 \/ Beyond(d, t) = {}
        /\ for_each_count' = [for_each_count EXCEPT ![d] = @ - 1]
        /\ iter' = [iter EXCEPT ![i].st = "ended", ![i].status = status]
        /\ Goto(t, [pt |-> "complete", iter |-> i])
        /\ Quiet(q)
  /\ UNCHANGED <<lifeVars, flagVars, refVars, chVars, thrVars>>

(* fn runs on the channel, and calls continue now or from a later message;
   with no channel left on this thread the iteration goes on at once. *)
_call_channel(t) ==
  /\ Handles(t, "_call_channel")
  /\ LET i == Arg(t) IN
     \/ /\ t \in io_channels[iter[i].dev]
        /\ iter' = [iter EXCEPT ![i].st = "in_fn", ![i].owed = @ \ {t}]
        /\ Quiet(Pop(t))
        /\ UNCHANGED <<devVars, chVars, thrVars, at>>
     \/ /\ t \notin io_channels[iter[i].dev]
        /\ Continue(t, i, 0, Pop(t))

spdk_for_each_channel_continue(t, i, status) ==
  /\ Runs(t)
  /\ iter[i].st = "in_fn" /\ iter[i].cur = t
  /\ Continue(t, i, status, messages)

(* The iteration ended: its completion is sent with the mutex released ... *)
ContinueCompletes(t) ==
  /\ At(t, "complete")
  /\ LET i == at[t].iter IN
     /\ spdk_thread_send_msg(messages, iter[i].orig, [fn |-> "_call_completion", arg |-> i])
     /\ Goto(t, [pt |-> "recheck", dev |-> iter[i].dev])
  /\ UNCHANGED <<devVars, chVars, iter, thrVars>>

(* An unregister waits and no iteration is left. *)
LastEnded(d) == d \in pending_unregister /\ for_each_count[d] = 0

(* ... and the device is looked at once more, under the mutex. *)
ContinueRechecks(t) ==
  /\ At(t, "recheck")
  /\ Goto(t, Idle)
  /\ LET d == at[t].dev IN
     \/ life[d] = "freed" /\ Fail("use_after_free", messages)
     \/ /\ life[d] # "freed"
        /\ IF LastEnded(d)
           THEN spdk_thread_send_msg(messages, unregister_thread[d],
                                     [fn |-> "__pending_unregister", arg |-> d])
           ELSE Quiet(messages)
  /\ UNCHANGED <<devVars, chVars, iter, thrVars>>

(* cpl runs on the thread that started the iteration. *)
_call_completion(t) ==
  /\ Handles(t, "_call_completion")
  /\ thr_for_each_count' = [thr_for_each_count EXCEPT ![t] = @ - 1]
  /\ iter' = [iter EXCEPT ![Arg(t)].st = "completed"]
  /\ Quiet(Pop(t))
  /\ UNCHANGED <<devVars, chVars, state, pending_unregister_count, at>>

-----------------------------------------------------------------------------
(* Thread exit, without the forced exit after SPDK_THREAD_EXIT_TIMEOUT_SEC. *)

spdk_thread_exit(t) ==
  /\ Runs(t)
  /\ state[t] = "RUNNING"
  /\ state' = [state EXCEPT ![t] = "EXITING"]
  /\ UNCHANGED <<devVars, chVars, iter, pending_unregister_count, thr_for_each_count,
                 messages, at, fault>>

MayExitIterating(t) ==         \* mutant: thread->for_each_count is not looked at
  /\ messages[t] = <<>>
  /\ \A d \in Devs : t \notin io_channels[d]
  /\ pending_unregister_count[t] = 0

(* What thread_exit looks at, poll after poll. *)
MayExit(t) ==
  /\ messages[t] = <<>>
  /\ thr_for_each_count[t] = 0
  /\ \A d \in Devs : t \notin io_channels[d]
  /\ pending_unregister_count[t] = 0

(* The thread found nothing left of its own ... *)
ExitChecks(t) ==
  /\ Runs(t)
  /\ state[t] = "EXITING"
  /\ MayExit(t)
  /\ Goto(t, [pt |-> "exited"])
  /\ UNCHANGED <<devVars, chVars, iter, thrVars, messages, fault>>

(* ... and is marked.  Nothing stops others from sending to it in between. *)
ExitMarks(t) ==
  /\ At(t, "exited")
  /\ state' = [state EXCEPT ![t] = "EXITED"]
  /\ Goto(t, Idle)
  /\ UNCHANGED <<devVars, chVars, iter, pending_unregister_count, thr_for_each_count,
                 messages, fault>>

-----------------------------------------------------------------------------
(* Steps of the library itself, of the callbacks it waits for, and calls of
   its users. *)

Library(t) ==
  \/ __pending_unregister(t)
  \/ io_device_free(t)
  \/ _finish_unregister(t)
  \/ put_io_channel(t)
  \/ _call_channel(t)
  \/ ContinueCompletes(t)
  \/ ContinueRechecks(t)
  \/ _call_completion(t)
  \/ ExitMarks(t)

Callbacks(t) ==
  \/ CreateSucceeds(t)
  \/ CreateFails(t)
  \/ DestroyReturns(t)

CallsContinue(t) ==
  \E i \in Iters, status \in {0, -1} : spdk_for_each_channel_continue(t, i, status)

User(t) ==
  \/ spdk_thread_exit(t)
  \/ ExitChecks(t)
  \/ CallsContinue(t)
  \/ \E d \in Devs :
       \/ spdk_io_device_register(t, d)
       \/ \E cb \in BOOLEAN : spdk_io_device_unregister(t, d, cb)
       \/ spdk_get_io_channel(t, d)
       \/ spdk_io_channel_ref(t, d)
       \/ spdk_put_io_channel(t, d)
       \/ \E i \in Iters : spdk_for_each_channel(t, d, i)

Next == \E t \in Threads : Library(t) \/ Callbacks(t) \/ User(t)

Spec == Init /\ [][Next]_vars

(* Every thread is polled for ever, each poll runs the messages at the head of
   its ring whatever its users do besides, and callbacks return; a user's fn
   calls spdk_for_each_channel_continue in the end. *)
Fairness ==
  \A t \in Threads :
    SF_vars(Library(t)) /\ WF_vars(Callbacks(t)) /\ SF_vars(CallsContinue(t))

FairSpec == Spec /\ Fairness
-----------------------------------------------------------------------------
(* Properties. *)

(* Threads that still hold the device: a channel in the tree, or destroy_cb running. *)
Holders(d) ==
  {t \in Threads : t \in io_channels[d] \/ at[t] = [pt |-> "destroy_cb", dev |-> d]}

(* dev->refcnt counts the channels of the device that destroy_cb has not finished. *)
RefcntCountsHolders == \A d \in Devs : refcnt[d] = Cardinality(Holders(d))

(* A struct io_device that was freed, or whose unregister_cb has run, has no
   channel left: destroy_cb returned for every one of them first. *)
FreedHasNoChannel == \A d \in Devs : life[d] = "freed" => Holders(d) = {}

(* Places in the sequence s that hold m; those of t's ring. *)
Places(s, m) == {k \in DOMAIN s : s[k] = m}
Queued(t, m) == Places(messages[t], m)

(* What is about to free the device: threads inside io_device_free, and
   _finish_unregister messages. *)
Finishers(d) ==
  {<<t, 0>> : t \in {u \in Threads : at[u] = [pt |-> "io_device_free", dev |-> d]}}
  \cup UNION {{t} \X Queued(t, [fn |-> "_finish_unregister", arg |-> d]) : t \in Threads}

(* An unregistered device without holders is freed by exactly one thread: not
   leaked, not freed twice, and not freed while still in use. *)
FreedExactlyOnce ==
  fault = "none" =>
    \A d \in Devs :
      Cardinality(Finishers(d)) =
        IF d \in unregistered /\ Holders(d) = {} /\ life[d] = "live" THEN 1 ELSE 0

(* Every put_io_channel message is accounted for in destroy_ref of a channel
   that is still there, so it never runs on a channel already destroyed; and a
   channel without references has one, so it is not leaked. *)
PutMessagesMatch ==
  fault = "none" =>
    \A t \in Threads, d \in Devs :
      LET puts == Queued(t, [fn |-> "put_io_channel", arg |-> d])
      IN /\ destroy_ref[t][d] = Cardinality(puts)
         /\ puts # {} => t \in io_channels[d]
         /\ t \in io_channels[d] /\ ref[t][d] = 0 => puts # {}

(* A device stays registered while any iteration over it can still call fn. *)
IteratedStaysRegistered ==
  \A i \in Iters : iter[i].st \in {"queued", "in_fn"} =>
     iter[i].dev \in g_io_devices /\ for_each_count[iter[i].dev] > 0

(* An iteration that ends without error has called fn on every channel that
   existed when it began and has not been destroyed since. *)
ForEachVisitsAll ==
  \A i \in Iters : iter[i].st = "ended" /\ iter[i].status = 0 => iter[i].owed = {}

(* thread_exit() lets a thread go only when nothing the library still has to do
   there is left: no channel, no iteration on its way to it or back to it, no
   unregister_cb to run. *)
ExitedIsQuiet ==
  \A t \in Threads : state[t] = "EXITED" =>
    /\ \A d \in Devs : t \notin Holders(d)
    /\ \A i \in Iters :
         /\ iter[i].st = "queued" => iter[i].cur # t
         /\ iter[i].st \in {"queued", "in_fn", "ended"} => iter[i].orig # t
    /\ \A d \in unregistered \cap unregister_cb :
         life[d] = "live" => unregister_thread[d] # t

(* An iteration completes on the thread that started it, unless the program
   stops or the thread that runs fn exits without calling continue. *)
IterationCompletes ==
  \A i \in Iters :
    iter[i].st \in {"queued", "in_fn", "ended"} ~>
      \/ iter[i].st = "completed"
      \/ fault # "none"
      \/ iter[i].st = "in_fn" /\ state[iter[i].cur] = "EXITED"

(* An unregister that had to wait for iterations takes effect once they ended,
   as long as no thread exits; and an unregistered device whose channels are put
   is freed, and its unregister_cb called if it has one. *)
UnregisterFinishes ==
  \A d \in Devs :
    /\ d \in pending_unregister ~>
         \/ d \in unregistered
         \/ fault # "none"
         \/ \E t \in Threads : state[t] = "EXITED"
    /\ <>[](\A t \in Threads : ref[t][d] = 0) =>
         (d \in unregistered ~> (life[d] = "freed" \/ fault # "none"))

-----------------------------------------------------------------------------
(* The protocol implements RefCountedDevice. *)

Phase(d) ==
  CASE life[d] = "unused" -> "absent"
    [] life[d] = "freed" -> "gone"
    [] OTHER -> IF d \in unregistered THEN "draining" ELSE "registered"

Active(d) == {i \in Iters : iter[i].st \in {"queued", "in_fn"} /\ iter[i].dev = d}

Abs == INSTANCE RefCountedDevice WITH
         phase   <- [d \in Devs |-> Phase(d)],
         holders <- [d \in Devs |-> Holders(d)],
         active  <- [d \in Devs |-> Active(d)]

(* To its users the protocol is a reference-counted device: no channel outlives
   it, and unregistration overtakes neither a channel nor an iteration. *)
ImplementsRefCountedDevice == Abs!Spec
=============================================================================
