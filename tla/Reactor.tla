------------------------------ MODULE Reactor -------------------------------
(***************************************************************************)
(* The reactors of lib/event/reactor.c, one per core, and the scheduler    *)
(* that moves SPDK threads between them and puts reactors to sleep.        *)
(*                                                                         *)
(* A reactor runs the events in its ring and polls its threads; in         *)
(* interrupt mode it sleeps until its events_fd or resched_fd is written.  *)
(* The sender of an event writes events_fd only when its own notify_cpuset *)
(* names the receiver, so a change of mode updates the notify_cpuset of    *)
(* all reactors, by an event that goes from one to the next.  A scheduling *)
(* round gathers the threads of each reactor, decides, changes the modes,  *)
(* and marks the threads that are to move.                                 *)
(*                                                                         *)
(* The application does not run its threads in interrupt mode              *)
(* (spdk_interrupt_mode_is_enabled is false), so a thread on a reactor     *)
(* that sleeps is not polled.  The app thread stays on the scheduling      *)
(* reactor, which therefore always polls.  No core is isolated, a thread   *)
(* may run on every core, and statistics are a free choice.  A step is     *)
(* what a reactor does in one event or for one thread; the writes of one   *)
(* reactor to the spdk_lw_thread of a thread on another are atomic.        *)
(***************************************************************************)
EXTENDS Integers, Sequences, FiniteSets, SequencesExt, FiniteSetsExt

CONSTANTS
  NCores,       \* cores are numbered from 1, the scheduling reactor's
  Threads,      \* SPDK threads other than the app thread
  BatchSize,    \* SPDK_EVENT_BATCH_SIZE
  AnyCore       \* SPDK_ENV_LCORE_ID_ANY

Cores == 1 .. NCores
Main == 1

ASSUME NCoresAssumption == NCores \in Nat \ {0} /\ AnyCore \notin Cores
ASSUME BatchSizeAssumption == BatchSize \in Nat \ {0}

VARIABLES
  pc,            \* where the loop of each reactor is
  in_interrupt, new_in_interrupt, in_progress,   \* set_interrupt_mode_in_progress
  notify_cpuset,
  events,        \* the ring of each reactor
  batch,         \* events taken from the ring and not yet run
  events_fd, resched_fd,
  ready,         \* descriptors that spdk_fd_group_wait found readable
  todo,          \* threads the loop over the threads has still to visit
  home,          \* the reactor whose list a thread is in, or AnyCore
  lcore, resched,          \* of struct spdk_lw_thread
  life,          \* "none", "running", "gone"
  in_round,      \* g_scheduling_in_progress
  infos,         \* g_core_infos: the lcore of the threads on each core
  modes,         \* g_core_infos: interrupt_mode
  core_number,   \* g_scheduler_core_number
  state,         \* g_reactor_state
  stopping       \* g_stopping_reactors

mode == <<in_interrupt, new_in_interrupt, in_progress, notify_cpuset>>
ring == <<events, events_fd>>
loop == <<pc, batch, ready, todo>>
lw == <<home, lcore, resched, life>>
round == <<in_round, infos, modes, core_number>>
stop == <<state, stopping>>
vars == <<mode, ring, resched_fd, loop, lw, round, stop>>

(* The events of spdk_for_each_reactor carry what it was called for. *)
Walk == [fn : {"notify"}, target : Cores, orig_core : Cores] \cup [fn : {"nop"}, orig_core : {Main}]
Event ==
  [fn : {"schedule_thread"}, thread : Threads]
    \cup [fn : {"on_reactor", "end_reactor"}, walk : Walk]
    \cup [fn : {"set_interrupt_mode", "update_core_mode", "gather_metrics", "balance", "cancel"}]

TypeOK ==
  /\ pc \in [Cores -> {"top", "poll", "threads", "intr", "exit", "ended"}]
  /\ in_interrupt \in [Cores -> BOOLEAN] /\ new_in_interrupt \in [Cores -> BOOLEAN]
  /\ in_progress \in [Cores -> BOOLEAN] /\ notify_cpuset \in [Cores -> SUBSET Cores]
  /\ events \in [Cores -> Seq(Event)] /\ batch \in [Cores -> Seq(Event)]
  /\ events_fd \in [Cores -> BOOLEAN] /\ resched_fd \in [Cores -> BOOLEAN]
  /\ ready \in [Cores -> SUBSET {"events", "resched"}]
  /\ todo \in [Cores -> SUBSET Threads]
  /\ home \in [Threads -> Cores \cup {AnyCore}] /\ lcore \in [Threads -> Cores \cup {AnyCore}]
  /\ resched \in [Threads -> BOOLEAN]
  /\ life \in [Threads -> {"none", "running", "gone"}]
  /\ in_round \in BOOLEAN /\ modes \in [Cores -> BOOLEAN]
  /\ \A c \in Cores : DOMAIN infos[c] \subseteq Threads /\ Range(infos[c]) \subseteq Cores
  /\ core_number \in Cores \cup {NCores + 1}
  /\ state \in {"running", "exiting"} /\ stopping \in BOOLEAN

Init ==
  /\ pc = [c \in Cores |-> "top"]
  /\ in_interrupt = [c \in Cores |-> FALSE] /\ new_in_interrupt = [c \in Cores |-> FALSE]
  /\ in_progress = [c \in Cores |-> FALSE] /\ notify_cpuset = [c \in Cores |-> {}]
  /\ events = [c \in Cores |-> << >>] /\ batch = [c \in Cores |-> << >>]
  /\ events_fd = [c \in Cores |-> FALSE] /\ resched_fd = [c \in Cores |-> FALSE]
  /\ ready = [c \in Cores |-> {}] /\ todo = [c \in Cores |-> {}]
  /\ home = [t \in Threads |-> AnyCore] /\ lcore = [t \in Threads |-> AnyCore]
  /\ resched = [t \in Threads |-> FALSE] /\ life = [t \in Threads |-> "none"]
  /\ in_round = FALSE /\ infos = [c \in Cores |-> << >>]
  /\ modes = [c \in Cores |-> FALSE] /\ core_number = Main
  /\ state = "running" /\ stopping = FALSE

on(c) == {t \in Threads : home[t] = c}

-----------------------------------------------------------------------------
(* Events *)

(* An event is sent to reactor d by one whose notify_cpuset is notify. *)
spdk_event_call(notify, d, e) ==
  /\ events' = [events EXCEPT ![d] = Append(@, e)]
  /\ events_fd' = IF d \in notify THEN [events_fd EXCEPT ![d] = TRUE] ELSE events_fd

(* A thread is placed from reactor c: on core, unless that is marked as     *)
(* sleeping, else on a polling core.                                       *)
_reactor_schedule_thread(c, t, core) ==
  LET polling == Cores \ notify_cpuset[c] IN
  \E d \in IF core \in polling THEN {core} ELSE polling :
    spdk_event_call(notify_cpuset[c], d, [fn |-> "schedule_thread", thread |-> t])

_schedule_thread(c, t) ==
  /\ lcore' = [lcore EXCEPT ![t] = c] /\ home' = [home EXCEPT ![t] = c]
  /\ UNCHANGED <<resched, life, mode, ring, resched_fd, round, stop>>

(* Once the reactors are stopping no walk is started, and its completion   *)
(* does not run.                                                           *)
spdk_for_each_reactor(c, walk) ==
  IF stopping THEN UNCHANGED <<ring, stopping>>
  ELSE /\ stopping' = (walk.fn = "nop")
       /\ spdk_event_call(notify_cpuset[c], Main, [fn |-> "on_reactor", walk |-> walk])

_reactor_set_notify_cpuset(c, target) ==
  IF new_in_interrupt[target] THEN notify_cpuset[c] \cup {target} ELSE notify_cpuset[c] \ {target}

on_reactor(c, walk) ==
  LET notify == IF walk.fn = "nop" THEN notify_cpuset[c]
                ELSE _reactor_set_notify_cpuset(c, walk.target)
  IN /\ notify_cpuset' = [notify_cpuset EXCEPT ![c] = notify]
     /\ IF c = NCores
        THEN spdk_event_call(notify, walk.orig_core, [fn |-> "end_reactor", walk |-> walk])
        ELSE spdk_event_call(notify, c + 1, [fn |-> "on_reactor", walk |-> walk])
     /\ UNCHANGED <<in_interrupt, new_in_interrupt, in_progress, resched_fd, lw, round, stop>>

_reactors_stop(c) ==
  /\ state' = "exiting"
  /\ events_fd' = [d \in Cores |-> events_fd[d] \/ d \in notify_cpuset[c]]
  /\ UNCHANGED <<mode, events, resched_fd, lw, round, stopping>>

_reactor_set_notify_cpuset_cpl_lost(c, target) ==   \* mutant: cb_fn is not called
  /\ IF new_in_interrupt[target]
     THEN /\ spdk_event_call(notify_cpuset[c], target, [fn |-> "set_interrupt_mode"])
          /\ UNCHANGED in_progress
     ELSE /\ UNCHANGED ring
          /\ in_progress' = [in_progress EXCEPT ![target] = FALSE]
  /\ UNCHANGED <<in_interrupt, new_in_interrupt, notify_cpuset, resched_fd, lw, round, stop>>

_reactor_set_notify_cpuset_cpl(c, target) ==
  /\ IF new_in_interrupt[target]
     THEN /\ spdk_event_call(notify_cpuset[c], target, [fn |-> "set_interrupt_mode"])
          /\ UNCHANGED in_progress
     ELSE /\ spdk_event_call(notify_cpuset[c], Main, [fn |-> "update_core_mode"])
          /\ in_progress' = [in_progress EXCEPT ![target] = FALSE]
  /\ UNCHANGED <<in_interrupt, new_in_interrupt, notify_cpuset, resched_fd, lw, round, stop>>

end_reactor(c, walk) ==
  \/ walk.fn = "nop" /\ _reactors_stop(c)
  \/ walk.fn = "notify" /\ _reactor_set_notify_cpuset_cpl(c, walk.target)

(* To sleep, the reactor writes its own descriptors, as what was sent to   *)
(* it before the senders knew is not announced.                            *)
_reactor_set_interrupt_mode(c) ==
  /\ in_interrupt' = [in_interrupt EXCEPT ![c] = new_in_interrupt[c]]
  /\ IF new_in_interrupt[c]
     THEN /\ events' = [events EXCEPT ![Main] = Append(@, [fn |-> "update_core_mode"])]
          /\ events_fd' = [d \in Cores |-> events_fd[d] \/ d \in {c} \cup ({Main} \cap notify_cpuset[c])]
          /\ resched_fd' = [resched_fd EXCEPT ![c] = TRUE]
          /\ in_progress' = [in_progress EXCEPT ![c] = FALSE]
          /\ UNCHANGED stopping
     ELSE /\ spdk_for_each_reactor(c, [fn |-> "notify", target |-> c, orig_core |-> c])
          /\ UNCHANGED <<resched_fd, in_progress>>
  /\ UNCHANGED <<new_in_interrupt, notify_cpuset, lw, round, state>>

-----------------------------------------------------------------------------
(* The scheduling round, on the scheduling reactor but for the gathering *)

_reactors_scheduler_gather_metrics(c) ==
  /\ infos' = [infos EXCEPT ![c] = [t \in on(c) |-> lcore[t]]]
  /\ modes' = [modes EXCEPT ![c] = in_interrupt[c]]
  /\ IF c = NCores THEN spdk_event_call(notify_cpuset[c], Main, [fn |-> "balance"])
     ELSE spdk_event_call(notify_cpuset[c], c + 1, [fn |-> "gather_metrics"])
  /\ UNCHANGED <<mode, resched_fd, lw, core_number, stop>>

GatherFails(c) ==
  /\ on(c) # {}
  /\ modes' = [modes EXCEPT ![c] = in_interrupt[c]] /\ infos' = [infos EXCEPT ![c] = << >>]
  /\ spdk_event_call(notify_cpuset[c], Main, [fn |-> "cancel"])
  /\ UNCHANGED <<mode, resched_fd, lw, in_round, core_number, stop>>

_reactors_scheduler_cancel ==
  /\ infos' = [c \in Cores |-> << >>] /\ modes' = [c \in Cores |-> FALSE] /\ in_round' = FALSE
  /\ UNCHANGED <<mode, ring, resched_fd, lw, core_number, stop>>

(* A thread that is still in g_threads is marked, wherever it is now. *)
_threads_reschedule(decided) ==
  LET froms(t) == {c \in Cores : t \in DOMAIN decided[c] /\ decided[c][t] # c}
      moved == {t \in Threads : froms(t) # {} /\ life[t] = "running"}
  IN /\ lcore' = [t \in Threads |-> IF t \in moved THEN decided[Max(froms(t))][t] ELSE lcore[t]]
     /\ resched' = [t \in Threads |-> resched[t] \/ t \in moved]
     /\ infos' = [c \in Cores |-> << >>]

(* spdk_reactor_set_interrupt_mode for the first reactor, from a core on,  *)
(* whose mode is to change; when there is none the threads are marked, and *)
(* what the round has gathered is of no use any more.                      *)
UpdateCoreMode(decided, wanted, from) ==
  LET changes == {c \in from .. NCores : in_interrupt[c] # wanted[c] /\ ~in_progress[c]}
      target == Min(changes)
  IN IF changes = {}
     THEN /\ _threads_reschedule(decided) /\ in_round' = FALSE
          /\ core_number' = Main /\ modes' = [c \in Cores |-> FALSE]
          /\ UNCHANGED <<mode, ring, home, life, stop>>
     ELSE /\ core_number' = target + 1
          /\ in_progress' = [in_progress EXCEPT ![target] = TRUE]
          /\ new_in_interrupt' = [new_in_interrupt EXCEPT ![target] = wanted[target]]
          /\ IF wanted[target]
             THEN spdk_for_each_reactor(Main, [fn |-> "notify", target |-> target, orig_core |-> Main])
             ELSE /\ spdk_event_call(notify_cpuset[Main], target, [fn |-> "set_interrupt_mode"])
                  /\ UNCHANGED stopping
          /\ infos' = decided /\ modes' = wanted
          /\ UNCHANGED <<in_interrupt, notify_cpuset, lw, in_round, state>>

_reactors_scheduler_update_core_mode ==
  /\ UpdateCoreMode(infos, modes, core_number)
  /\ UNCHANGED resched_fd

(* The mode balance asks for: a reactor that still has a thread in its     *)
(* list stays as it is.                                                    *)

interrupt_mode(n, empty, was) ==
  IF n # 0 THEN FALSE ELSE empty \/ was

(* balance of scheduler_dynamic.c: each thread goes to some core, for the  *)
(* statistics' sake; the threads of a core are counted from where their    *)
(* lcore says they are.                                                    *)
_reactors_scheduler_balance ==
  LET entries == {e \in Cores \X Threads : e[2] \in DOMAIN infos[e[1]]}
      At(i) == {e \in entries : infos[e[1]][e[2]] = i}
  IN IF state # "running" THEN _reactors_scheduler_cancel
     ELSE \E dst \in [entries -> Cores] :
            LET count(i) == Cardinality({e \in entries : e[1] = i})
                            + Cardinality({e \in entries \ At(i) : dst[e] = i})
                            - Cardinality({e \in At(i) : dst[e] # i})
                            + (IF i = Main THEN 1 ELSE 0)
                wanted == [i \in Cores |-> interrupt_mode(count(i), i # Main /\ on(i) = {}, modes[i])]
                decided == [c \in Cores |-> [t \in DOMAIN infos[c] |-> dst[<<c, t>>]]]
            IN UpdateCoreMode(decided, wanted, Main) /\ UNCHANGED resched_fd

Handle(c, e) ==
  \/ e.fn = "schedule_thread" /\ _schedule_thread(c, e.thread)
  \/ e.fn = "on_reactor" /\ on_reactor(c, e.walk)
  \/ e.fn = "end_reactor" /\ end_reactor(c, e.walk)
  \/ e.fn = "set_interrupt_mode" /\ _reactor_set_interrupt_mode(c)
  \/ e.fn = "gather_metrics" /\ _reactors_scheduler_gather_metrics(c) /\ UNCHANGED in_round
  \/ e.fn = "gather_metrics" /\ GatherFails(c)
  \/ e.fn = "cancel" /\ _reactors_scheduler_cancel
  \/ e.fn = "balance" /\ _reactors_scheduler_balance
  \/ e.fn = "update_core_mode" /\ _reactors_scheduler_update_core_mode

-----------------------------------------------------------------------------
(* The loop of a reactor *)

(* The end of an iteration: the reactor leaves the loop when told so. *)
NextIteration(c) == pc' = [pc EXCEPT ![c] = IF state = "running" THEN "top" ELSE "exit"]

Dequeue(c) ==
  LET n == Min({BatchSize, Len(events[c])}) IN
  /\ batch' = [batch EXCEPT ![c] = SubSeq(events[c], 1, n)]
  /\ events' = [events EXCEPT ![c] = SubSeq(@, n + 1, Len(@))]

(* The threads on c are visited next, if there are any. *)
VisitThreads(c) ==
  /\ todo' = [todo EXCEPT ![c] = on(c)]
  /\ IF on(c) = {} THEN NextIteration(c) ELSE pc' = [pc EXCEPT ![c] = "threads"]

_reactor_run(c) ==
  /\ pc[c] = "top" /\ ~in_interrupt[c]
  /\ Dequeue(c)
  /\ IF events[c] = << >> THEN VisitThreads(c)
     ELSE pc' = [pc EXCEPT ![c] = "poll"] /\ UNCHANGED todo
  /\ UNCHANGED <<mode, events_fd, resched_fd, ready, lw, round, stop>>

RunEvent(c) ==
  /\ batch[c] # << >>
  /\ batch' = [batch EXCEPT ![c] = Tail(@)]
  /\ Handle(c, Head(batch[c]))
  /\ UNCHANGED <<pc, ready, todo>>

BatchDone(c) ==
  /\ pc[c] = "poll" /\ batch[c] = << >>
  /\ VisitThreads(c)
  /\ UNCHANGED <<mode, ring, resched_fd, batch, ready, lw, round, stop>>

reactor_post_process_lw_thread_stays(c, t, exited, move, core) ==   \* mutant: not taken from the list
  \/ /\ exited
     /\ life' = [life EXCEPT ![t] = "gone"] /\ home' = [home EXCEPT ![t] = AnyCore]
     /\ UNCHANGED <<lcore, resched, ring>>
  \/ /\ ~exited /\ move
     /\ resched' = [resched EXCEPT ![t] = FALSE]
     /\ _reactor_schedule_thread(c, t, core)
     /\ UNCHANGED <<life, home, lcore>>
  \/ /\ ~exited /\ ~move
     /\ UNCHANGED <<lw, ring>>

(* A thread that has exited is destroyed, one that is to move is moved. *)
reactor_post_process_lw_thread(c, t, exited, move, core) ==
  \/ /\ exited
     /\ life' = [life EXCEPT ![t] = "gone"] /\ home' = [home EXCEPT ![t] = AnyCore]
     /\ UNCHANGED <<lcore, resched, ring>>
  \/ /\ ~exited /\ move
     /\ resched' = [resched EXCEPT ![t] = FALSE]
     /\ home' = [home EXCEPT ![t] = AnyCore] /\ lcore' = [lcore EXCEPT ![t] = AnyCore]
     /\ _reactor_schedule_thread(c, t, core)
     /\ UNCHANGED life
  \/ /\ ~exited /\ ~move
     /\ UNCHANGED <<lw, ring>>

(* The thread may exit, or ask to be rescheduled for its new cpumask. *)
PollThread(c, t) ==
  /\ pc[c] = "threads" /\ t \in todo[c]
  /\ todo' = [todo EXCEPT ![c] = @ \ {t}]
  /\ \/ reactor_post_process_lw_thread(c, t, FALSE, resched[t], lcore[t])
     \/ reactor_post_process_lw_thread(c, t, FALSE, TRUE, AnyCore)
     \/ reactor_post_process_lw_thread(c, t, TRUE, FALSE, AnyCore)
  /\ IF todo[c] = {t} THEN NextIteration(c) ELSE UNCHANGED pc
  /\ UNCHANGED <<mode, resched_fd, batch, ready, round, stop>>

(* epoll_wait returns with what is readable.  The loop that ends the       *)
(* threads of a reactor that is told to exit waits in the same way.        *)
reactor_interrupt_run(c) ==
  /\ in_interrupt[c]
  /\ pc[c] = "top" \/ (pc[c] = "exit" /\ on(c) # {})
  /\ events_fd[c] \/ resched_fd[c]
  /\ pc' = [pc EXCEPT ![c] = "intr"]
  /\ ready' = [ready EXCEPT ![c] = {fd \in {"events", "resched"} :
                                      IF fd = "events" THEN events_fd[c] ELSE resched_fd[c]}]
  /\ UNCHANGED <<mode, ring, resched_fd, batch, todo, lw, round, stop>>

Handling(c, fd) ==
  /\ pc[c] = "intr" /\ fd \in ready[c] /\ batch[c] = << >> /\ todo[c] = {}
  /\ ready' = [ready EXCEPT ![c] = @ \ {fd}]

event_queue_run_batch_silent(c) ==   \* mutant: the descriptor is not written again
  /\ Handling(c, "events")
  /\ Dequeue(c)
  /\ events_fd' = [events_fd EXCEPT ![c] = FALSE]
  /\ UNCHANGED <<mode, resched_fd, pc, todo, lw, round, stop>>

(* The descriptor is written again when events are left in the ring; in    *)
(* poll mode, which a handler before this one may have set, it is not.     *)
event_queue_run_batch(c) ==
  /\ Handling(c, "events")
  /\ Dequeue(c)
  /\ events_fd' = [events_fd EXCEPT ![c] = in_interrupt[c] /\ events'[c] # << >>]
  /\ UNCHANGED <<mode, resched_fd, pc, todo, lw, round, stop>>

reactor_schedule_thread_event(c) ==
  /\ Handling(c, "resched")
  /\ resched_fd' = [resched_fd EXCEPT ![c] = FALSE]
  /\ todo' = [todo EXCEPT ![c] = on(c)]
  /\ UNCHANGED <<mode, ring, pc, batch, lw, round, stop>>

PostProcess(c, t) ==
  /\ pc[c] = "intr" /\ t \in todo[c]
  /\ todo' = [todo EXCEPT ![c] = @ \ {t}]
  /\ reactor_post_process_lw_thread(c, t, FALSE, resched[t], lcore[t])
  /\ UNCHANGED <<mode, resched_fd, pc, batch, ready, round, stop>>

InterruptDone(c) ==
  /\ pc[c] = "intr" /\ ready[c] = {} /\ batch[c] = << >> /\ todo[c] = {}
  /\ NextIteration(c)
  /\ UNCHANGED <<mode, ring, resched_fd, batch, ready, todo, lw, round, stop>>

(* Out of the loop the threads are made to exit, and polled until they     *)
(* have, unless the reactor is in interrupt mode.                          *)
ExitThread(c, t) ==
  /\ pc[c] = "exit" /\ t \in on(c) /\ ~in_interrupt[c]
  /\ life' = [life EXCEPT ![t] = "gone"] /\ home' = [home EXCEPT ![t] = AnyCore]
  /\ UNCHANGED <<lcore, resched, mode, ring, resched_fd, loop, round, stop>>

ReactorEnds(c) ==
  /\ pc[c] = "exit" /\ on(c) = {}
  /\ pc' = [pc EXCEPT ![c] = "ended"]
  /\ UNCHANGED <<mode, ring, resched_fd, batch, ready, todo, lw, round, stop>>

(* The period is over: the scheduling reactor begins a round. *)
StartRound ==
  /\ pc[Main] = "top" /\ ~in_round
  /\ in_round' = TRUE
  /\ _reactors_scheduler_gather_metrics(Main)
  /\ UNCHANGED loop

-----------------------------------------------------------------------------
(* What the app thread does; it is the last thread of its reactor *)

AppThreadRuns == pc[Main] = "top"

spdk_thread_create(t) ==
  /\ AppThreadRuns /\ life[t] = "none"
  /\ life' = [life EXCEPT ![t] = "running"]
  /\ _reactor_schedule_thread(Main, t, AnyCore)
  /\ UNCHANGED <<home, lcore, resched, mode, resched_fd, loop, round, stop>>

spdk_reactors_stop ==
  /\ AppThreadRuns /\ ~stopping
  /\ spdk_for_each_reactor(Main, [fn |-> "nop", orig_core |-> Main])
  /\ UNCHANGED <<mode, resched_fd, loop, lw, round, state>>

-----------------------------------------------------------------------------
ReactorStep(c) ==
  \/ _reactor_run(c) \/ RunEvent(c) \/ BatchDone(c)
  \/ \E t \in Threads : PollThread(c, t) \/ PostProcess(c, t) \/ ExitThread(c, t)
  \/ reactor_interrupt_run(c) \/ event_queue_run_batch(c) \/ reactor_schedule_thread_event(c)
  \/ InterruptDone(c) \/ ReactorEnds(c)

Next ==
  \/ \E c \in Cores : ReactorStep(c)
  \/ StartRound
  \/ \E t \in Threads : spdk_thread_create(t)
  \/ spdk_reactors_stop

Spec == Init /\ [][Next]_vars

(* A reactor that can take a step does, rounds are begun for ever, and the *)
(* memory for the gathering is not refused every time.                     *)
GatherSucceeds(c) ==
  /\ batch[c] # << >> /\ Head(batch[c]).fn = "gather_metrics"
  /\ RunEvent(c)
  /\ ~GatherFails(c)

Fairness ==
  /\ \A c \in Cores : WF_vars(ReactorStep(c)) /\ SF_vars(GatherSucceeds(c))
  /\ SF_vars(StartRound)

FairSpec == Spec /\ Fairness

-----------------------------------------------------------------------------
(* A reactor does not go to sleep on events: if there are any in its ring  *)
(* its events_fd is readable, though the senders write it only when their  *)
(* own notify_cpuset says so.                                              *)
NoEventStranded ==
  \A c \in Cores :
    pc[c] = "top" /\ in_interrupt[c] /\ events[c] # << >> => events_fd[c]

(* A thread is in the list of one reactor or on its way to one, however    *)
(* often and by whom it is marked to move; never in both or in neither.    *)
InOnePlace ==
  \A t \in Threads : life[t] = "running" /\ state = "running" =>
    LET line(c) == batch[c] \o events[c]
        coming == UNION {{c} \X {n \in DOMAIN line(c) :
                                   line(c)[n] = [fn |-> "schedule_thread", thread |-> t]} : c \in Cores}
    IN Cardinality(coming) = IF home[t] = AnyCore THEN 1 ELSE 0

(* A thread that gets to a reactor as it falls asleep is not left there:   *)
(* later rounds wake the reactor up, or the application stops.             *)
NoThreadForgotten ==
  \A t \in Threads, c \in Cores :
    (home[t] = c /\ in_interrupt[c]) ~> (home[t] # c \/ ~in_interrupt[c] \/ stopping)

(* Every round ends, or the application stops. *)
RoundsEnd == in_round ~> ~in_round \/ stopping

(* When the reactors are stopped each of them ends, unless it sleeps with  *)
(* a thread, which it does not poll.                                       *)
StopEnds ==
  \A c \in Cores :
    state = "exiting" ~> pc[c] = "ended" \/ (in_interrupt[c] /\ on(c) # {})

(* Every thread is where the reactors and the scheduler take it to be.     *)
ThreadsPlaced == TypeOK /\ InOnePlace

(* Threads are polled again, rounds end and reactors stop.                 *)
ReactorsProgress == NoThreadForgotten /\ RoundsEnd /\ StopEnds
=============================================================================
