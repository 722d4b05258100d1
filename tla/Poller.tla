------------------------------- MODULE Poller -------------------------------
(***************************************************************************)
(* The pollers of one SPDK thread (lib/thread/thread.c): registration,     *)
(* unregistration, pause and resume from messages and from the pollers'    *)
(* own functions, while spdk_thread_poll walks the lists that these calls  *)
(* change; and the switch between poll mode and interrupt mode, where      *)
(* timerfds and eventfds run the pollers instead.                          *)
(*                                                                         *)
(* Only the thread itself touches its pollers, so the interleaving is that *)
(* of the walk with whatever user code the pollers call, and with time.    *)
(*                                                                         *)
(* Every tick count is relative to the clock: Tick moves them all down by  *)
(* one.  next_run_tick of what is overdue by more than a poll can last is  *)
(* kept at Overdue, which no comparison of the code tells apart.           *)
(*                                                                         *)
(* The timed_pollers tree is the sequence of its nodes in order.           *)
(***************************************************************************)
EXTENDS Integers, Sequences, FiniteSets, SequencesExt

CONSTANTS
  Pollers,           \* struct spdk_poller instances; a freed one is allocated again
  Period,            \* period_microseconds of each, in ticks; 0: not timed
  InterruptEnabled,  \* spdk_interrupt_mode_is_enabled()
  MaxPollTicks,      \* bound on how long one thread_poll lasts
  NoPoller           \* NULL

ASSUME PeriodAssumption == Period \in [Pollers -> Nat]
ASSUME BoundAssumption == MaxPollTicks \in Nat
ASSUME ModeAssumption == InterruptEnabled \in BOOLEAN
ASSUME NullAssumption == NoPoller \notin Pollers

Off == -1                          \* a timerfd that is not armed
Overdue == -1 - MaxPollTicks
OneUs == 1                         \* a microsecond, in ticks

VARIABLES
  \* struct spdk_poller
  state, period_ticks, next_run_tick,
  intr,                 \* how the poller is run in interrupt mode
  timer,                \* ticks until its timerfd expires
  \* struct spdk_thread
  active_pollers, timed_pollers, first_timed_poller, paused_pollers,
  in_interrupt,
  poller_unregistered,  \* a _thread_remove_pollers message is on its way
  readable,             \* pollers whose timerfd or eventfd is readable
  \* the call stack
  pc, running,          \* which loop, and whose fn is on the stack
  cur,                  \* the poller the loop goes to next
  now,                  \* the argument of thread_poll
  again,                \* thread_poll is repeated, as the thread left poll mode
  switching,            \* where the walk of spdk_thread_set_interrupt_mode(false) is
  fault

pollerVars == <<state, period_ticks, next_run_tick>>
fdVars     == <<intr, timer, readable>>
timedVars  == <<timed_pollers, first_timed_poller>>
listVars   == <<active_pollers, timedVars, paused_pollers>>
loopVars   == <<pc, running, cur, now, again>>
modeVars   == <<in_interrupt, switching>>
vars == <<pollerVars, fdVars, listVars, loopVars, modeVars, poller_unregistered, fault>>

TypeOK ==
  /\ state \in [Pollers -> {"none", "WAITING", "RUNNING", "UNREGISTERED", "PAUSING", "PAUSED"}]
  /\ \A p \in Pollers : period_ticks[p] \in {0, Period[p]}
  /\ \A p \in Pollers : next_run_tick[p] \in Overdue .. Max({OneUs, Period[p]})
  /\ \A p \in Pollers : timer[p] \in Off .. Max({OneUs, Period[p]})
  /\ intr \in [Pollers -> {"none", "own", "custom"}]
  /\ active_pollers \in Seq(Pollers)
  /\ timed_pollers \in Seq(Pollers)
  /\ paused_pollers \in Seq(Pollers)
  /\ first_timed_poller \in Pollers \cup {NoPoller}
  /\ in_interrupt \in BOOLEAN /\ poller_unregistered \in BOOLEAN /\ again \in BOOLEAN
  /\ readable \subseteq Pollers
  /\ pc \in {"idle", "messages", "intr_messages", "active", "timed", "event"}
  /\ running \in Pollers \cup {NoPoller} /\ cur \in Pollers \cup {NoPoller}
  /\ now \in -MaxPollTicks .. 0
  /\ switching \in Pollers \cup {NoPoller, "no", "rest"}
  /\ fault \in {"none", "bad_state", "absent_from_tree"}

Init ==
  /\ state = [p \in Pollers |-> "none"]
  /\ period_ticks = [p \in Pollers |-> 0]
  /\ next_run_tick = [p \in Pollers |-> 0]
  /\ intr = [p \in Pollers |-> "none"]
  /\ timer = [p \in Pollers |-> Off]
  /\ active_pollers = <<>> /\ timed_pollers = <<>> /\ paused_pollers = <<>>
  /\ first_timed_poller = NoPoller
  /\ in_interrupt = InterruptEnabled /\ poller_unregistered = FALSE /\ readable = {}
  /\ pc = "idle" /\ running = NoPoller /\ cur = NoPoller /\ now = 0 /\ again = FALSE
  /\ switching = "no"
  /\ fault = "none"

-----------------------------------------------------------------------------
(* Lists and the tree. *)

At(loop) == fault = "none" /\ switching = "no" /\ pc = loop

(* The neighbours of p in s; NoPoller at the ends. *)
Index(s, p) == CHOOSE k \in DOMAIN s : s[k] = p
Prev(s, p) == LET k == Index(s, p) IN IF k = 1 THEN NoPoller ELSE s[k - 1]
Succ(s, p) == LET k == Index(s, p) IN IF k = Len(s) THEN NoPoller ELSE s[k + 1]
First(s) == IF s = <<>> THEN NoPoller ELSE s[1]
LastOf(s) == IF s = <<>> THEN NoPoller ELSE s[Len(s)]

(* Where RB_INSERT may put a node with this key into tree: between a node that
   is not later and one that is.  There is one such place if the tree is sorted. *)
Slots(tree, key) ==
  {k \in 0 .. Len(tree) :
     /\ k > 0 => next_run_tick[tree[k]] <= key
     /\ k < Len(tree) => key < next_run_tick[tree[k + 1]]}

poller_insert_timer_no_cache(tree, first, p, key) ==   \* mutant: the cache is set only once
  /\ next_run_tick' = [next_run_tick EXCEPT ![p] = key]
  /\ \E k \in Slots(tree, key) : timed_pollers' = InsertAt(tree, k + 1, p)
  /\ first_timed_poller' = IF first = NoPoller THEN p ELSE first

(* Insert p with the given next_run_tick; the cached first poller is replaced
   by an earlier one only. *)
poller_insert_timer(tree, first, p, key) ==
  /\ next_run_tick' = [next_run_tick EXCEPT ![p] = key]
  /\ \E k \in Slots(tree, key) : timed_pollers' = InsertAt(tree, k + 1, p)
  /\ first_timed_poller' =
       IF first = NoPoller \/ key < next_run_tick[first] THEN p ELSE first

(* The cache after p was taken out of the tree, which leaves tree. *)
FirstWithout(p, tree) == IF first_timed_poller = p THEN First(tree) ELSE first_timed_poller

(* What becomes of a poller that is taken out of its list or tree. *)
Free(p) == state' = [state EXCEPT ![p] = "none"] /\ UNCHANGED paused_pollers
Park(p) ==
  /\ state' = [state EXCEPT ![p] = "PAUSED"]
  /\ paused_pollers' = Append(paused_pollers, p)

(* A timed poller is due one period from now, another one joins the list. *)
thread_insert_poller(p, period) ==
  \/ /\ period > 0
     /\ poller_insert_timer(timed_pollers, first_timed_poller, p, period)
     /\ UNCHANGED active_pollers
  \/ /\ period = 0
     /\ active_pollers' = Append(active_pollers, p)
     /\ UNCHANGED <<next_run_tick, timedVars>>

-----------------------------------------------------------------------------
(* Calls of the user, from a message or from the fn of a poller. *)

UserRuns ==
  /\ fault = "none" /\ switching = "no"
  /\ pc \in {"messages", "intr_messages"} \/ running # NoPoller

(* With the interrupt facility the poller gets a timerfd or an eventfd of its
   own, which is armed at once in interrupt mode. *)
poller_register(p) ==
  /\ UserRuns
  /\ state[p] = "none"
  /\ state' = [state EXCEPT ![p] = "WAITING"]
  /\ period_ticks' = [period_ticks EXCEPT ![p] = Period[p]]
  /\ thread_insert_poller(p, Period[p])
  /\ intr' = [intr EXCEPT ![p] = IF InterruptEnabled THEN "own" ELSE "none"]
  /\ timer' = [timer EXCEPT ![p] = IF in_interrupt /\ Period[p] > 0 THEN Period[p] ELSE Off]
  /\ readable' = IF in_interrupt /\ Period[p] = 0 THEN readable \cup {p} ELSE readable
  /\ UNCHANGED <<paused_pollers, loopVars, modeVars, poller_unregistered, fault>>

(* The own fd is closed. *)
poller_interrupt_fini(p) ==
  /\ timer' = [timer EXCEPT ![p] = Off]
  /\ readable' = readable \ {p}

(* The user brings an fd of its own; its handler and mode callback are the
   user's code. *)
spdk_poller_register_interrupt(p) ==
  /\ UserRuns
  /\ state[p] \notin {"none", "UNREGISTERED"}
  /\ intr[p] = "own"
  /\ intr' = [intr EXCEPT ![p] = "custom"]
  /\ poller_interrupt_fini(p)
  /\ UNCHANGED <<pollerVars, listVars, loopVars, modeVars, poller_unregistered, fault>>

spdk_poller_unregister_frees(p) ==   \* mutant: a paused poller is freed at once
  /\ UserRuns
  /\ state[p] \notin {"none", "UNREGISTERED"}
  /\ state' = [state EXCEPT ![p] = IF state[p] = "PAUSED" THEN "none" ELSE "UNREGISTERED"]
  /\ intr' = [intr EXCEPT ![p] = "none"]
  /\ poller_interrupt_fini(p)
  /\ poller_unregistered' = InterruptEnabled
  /\ UNCHANGED <<active_pollers, paused_pollers, period_ticks, next_run_tick, timedVars,
                 loopVars, modeVars, fault>>

spdk_poller_unregister_stays(p) ==   \* mutant: a paused poller stays on its list
  /\ UserRuns
  /\ state[p] \notin {"none", "UNREGISTERED"}
  /\ state' = [state EXCEPT ![p] = "UNREGISTERED"]
  /\ intr' = [intr EXCEPT ![p] = "none"]
  /\ poller_interrupt_fini(p)
  /\ poller_unregistered' = InterruptEnabled
  /\ UNCHANGED <<paused_pollers, active_pollers, period_ticks, next_run_tick, timedVars,
                 loopVars, modeVars, fault>>

(* The poller is only marked: the walks free it.  A paused one, which no walk
   comes by, goes to the active list. *)
spdk_poller_unregister(p) ==
  /\ UserRuns
  /\ state[p] \notin {"none", "UNREGISTERED"}
  /\ state' = [state EXCEPT ![p] = "UNREGISTERED"]
  /\ intr' = [intr EXCEPT ![p] = "none"]
  /\ poller_interrupt_fini(p)
  /\ poller_unregistered' = InterruptEnabled
  /\ \/ /\ state[p] = "PAUSED"
        /\ paused_pollers' = Remove(paused_pollers, p)
        /\ active_pollers' = Append(active_pollers, p)
        /\ period_ticks' = [period_ticks EXCEPT ![p] = 0]
     \/ /\ state[p] # "PAUSED"
        /\ UNCHANGED <<paused_pollers, active_pollers, period_ticks>>
  /\ UNCHANGED <<next_run_tick, timedVars, loopVars, modeVars, fault>>

spdk_poller_pause_now(p) ==   \* mutant: a poller waiting for its turn is moved at once
  /\ UserRuns
  /\ \/ /\ state[p] = "WAITING" /\ Park(p)
        /\ active_pollers' = SelectSeq(active_pollers, LAMBDA q : q # p)
        /\ timed_pollers' = SelectSeq(timed_pollers, LAMBDA q : q # p)
        /\ first_timed_poller' = FirstWithout(p, timed_pollers')
     \/ /\ state[p] = "RUNNING"
        /\ state' = [state EXCEPT ![p] = "PAUSING"]
        /\ UNCHANGED listVars
  /\ UNCHANGED <<period_ticks, next_run_tick, fdVars, loopVars, modeVars,
                 poller_unregistered, fault>>

(* A poller that is paused, or about to be, stays so. *)
spdk_poller_pause(p) ==
  /\ UserRuns
  /\ state[p] \in {"RUNNING", "WAITING"}
  /\ state' = [state EXCEPT ![p] = "PAUSING"]
  /\ UNCHANGED <<period_ticks, next_run_tick, fdVars, listVars, loopVars, modeVars,
                 poller_unregistered, fault>>

(* A paused poller goes back to its list or tree; one not yet paused is there. *)
spdk_poller_resume(p) ==
  /\ UserRuns
  /\ state' = [state EXCEPT ![p] = "WAITING"]
  /\ \/ /\ state[p] = "PAUSED"
        /\ paused_pollers' = Remove(paused_pollers, p)
        /\ thread_insert_poller(p, period_ticks[p])
     \/ /\ state[p] = "PAUSING"
        /\ UNCHANGED <<next_run_tick, listVars>>
  /\ UNCHANGED <<period_ticks, fdVars, loopVars, modeVars, poller_unregistered, fault>>

-----------------------------------------------------------------------------
(* spdk_thread_poll in poll mode. *)

PollBegins ==
  /\ At("idle") /\ ~in_interrupt
  /\ pc' = "messages" /\ now' = 0
  /\ UNCHANGED <<running, cur, again, pollerVars, fdVars, listVars, modeVars,
                 poller_unregistered, fault>>

Registered(s) == SelectSeq(s, LAMBDA p : state[p] # "UNREGISTERED")

(* The message an unregistration sends, in either mode. *)
_thread_remove_pollers ==
  /\ At("messages") \/ At("intr_messages")
  /\ poller_unregistered
  /\ LET gone == {p \in ToSet(active_pollers) \cup ToSet(timed_pollers) :
                    state[p] = "UNREGISTERED"}
     IN /\ active_pollers' = Registered(active_pollers)
        /\ timed_pollers' = Registered(timed_pollers)
        /\ first_timed_poller' =
             IF first_timed_poller \in gone THEN First(Registered(timed_pollers))
             ELSE first_timed_poller
        /\ state' = [p \in Pollers |-> IF p \in gone THEN "none" ELSE state[p]]
  /\ poller_unregistered' = FALSE
  /\ UNCHANGED <<period_ticks, next_run_tick, fdVars, paused_pollers, loopVars, modeVars, fault>>

(* The walk over the active pollers begins at the tail. *)
MessagesEnd ==
  /\ At("messages")
  /\ pc' = "active" /\ cur' = LastOf(active_pollers)
  /\ UNCHANGED <<running, now, again, pollerVars, fdVars, listVars, modeVars,
                 poller_unregistered, fault>>

(* thread_execute_poller before fn. *)
VisitActive ==
  /\ At("active") /\ running = NoPoller /\ cur # NoPoller
  /\ cur' = Prev(active_pollers, cur)
  /\ \/ /\ state[cur] = "UNREGISTERED" /\ Free(cur)
        /\ active_pollers' = Remove(active_pollers, cur)
        /\ UNCHANGED <<running, fault>>
     \/ /\ state[cur] = "PAUSING" /\ Park(cur)
        /\ active_pollers' = Remove(active_pollers, cur)
        /\ UNCHANGED <<running, fault>>
     \/ /\ state[cur] = "WAITING"
        /\ state' = [state EXCEPT ![cur] = "RUNNING"]
        /\ running' = cur
        /\ UNCHANGED <<active_pollers, paused_pollers, fault>>
     \/ /\ state[cur] \notin {"UNREGISTERED", "PAUSING", "WAITING"}
        /\ fault' = "bad_state"
        /\ UNCHANGED <<state, running, active_pollers, paused_pollers>>
  /\ UNCHANGED <<period_ticks, next_run_tick, fdVars, timedVars, pc, now, again, modeVars,
                 poller_unregistered>>

(* thread_execute_poller after fn. *)
ActiveReturns ==
  /\ At("active") /\ running # NoPoller
  /\ running' = NoPoller
  /\ \/ /\ state[running] = "UNREGISTERED" /\ Free(running)
        /\ active_pollers' = Remove(active_pollers, running)
     \/ /\ state[running] = "PAUSING" /\ Park(running)
        /\ active_pollers' = Remove(active_pollers, running)
     \/ /\ state[running] \in {"RUNNING", "WAITING"}
        /\ state' = [state EXCEPT ![running] = "WAITING"]
        /\ UNCHANGED <<active_pollers, paused_pollers>>
  /\ UNCHANGED <<period_ticks, next_run_tick, fdVars, timedVars, pc, cur, now, again, modeVars,
                 poller_unregistered, fault>>

ActiveEnds ==
  /\ At("active") /\ running = NoPoller /\ cur = NoPoller
  /\ pc' = "timed" /\ cur' = first_timed_poller
  /\ UNCHANGED <<running, now, again, pollerVars, fdVars, listVars, modeVars,
                 poller_unregistered, fault>>

TimedDone == IF cur = NoPoller THEN TRUE ELSE now < next_run_tick[cur]

(* The next timed poller leaves the tree; thread_execute_timed_poller before fn. *)
VisitTimed ==
  /\ At("timed") /\ running = NoPoller /\ ~TimedDone
  /\ LET rest == Remove(timed_pollers, cur)
         tmp == Succ(timed_pollers, cur)
     IN /\ timed_pollers' = rest
        /\ first_timed_poller' = IF first_timed_poller = cur THEN tmp ELSE first_timed_poller
        /\ cur' = tmp
  /\ \/ state[cur] = "UNREGISTERED" /\ Free(cur) /\ UNCHANGED <<running, fault>>
     \/ state[cur] = "PAUSING" /\ Park(cur) /\ UNCHANGED <<running, fault>>
     \/ /\ state[cur] = "WAITING"
        /\ state' = [state EXCEPT ![cur] = "RUNNING"]
        /\ running' = cur
        /\ UNCHANGED <<paused_pollers, fault>>
     \/ /\ state[cur] \notin {"UNREGISTERED", "PAUSING", "WAITING"}
        /\ fault' = "bad_state"
        /\ UNCHANGED <<state, running, paused_pollers>>
  /\ UNCHANGED <<period_ticks, next_run_tick, fdVars, active_pollers, pc, now, again, modeVars,
                 poller_unregistered>>

TimedReturnsResumed ==   \* mutant: a poller resumed by its own fn is not put back
  /\ At("timed") /\ running # NoPoller
  /\ running' = NoPoller
  /\ \/ /\ state[running] = "UNREGISTERED" /\ Free(running)
        /\ UNCHANGED <<next_run_tick, timedVars>>
     \/ /\ state[running] = "PAUSING" /\ Park(running)
        /\ UNCHANGED <<next_run_tick, timedVars>>
     \/ /\ state[running] = "WAITING"
        /\ UNCHANGED <<state, next_run_tick, timedVars, paused_pollers>>
     \/ /\ state[running] = "RUNNING"
        /\ state' = [state EXCEPT ![running] = "WAITING"]
        /\ poller_insert_timer(timed_pollers, first_timed_poller, running,
                               now + period_ticks[running])
        /\ UNCHANGED paused_pollers
  /\ UNCHANGED <<period_ticks, fdVars, active_pollers, pc, cur, now, again, modeVars,
                 poller_unregistered, fault>>

(* thread_execute_timed_poller after fn. *)
TimedReturns ==
  /\ At("timed") /\ running # NoPoller
  /\ running' = NoPoller
  /\ \/ /\ state[running] = "UNREGISTERED" /\ Free(running)
        /\ UNCHANGED <<next_run_tick, timedVars>>
     \/ /\ state[running] = "PAUSING" /\ Park(running)
        /\ UNCHANGED <<next_run_tick, timedVars>>
     \/ /\ state[running] \in {"RUNNING", "WAITING"}
        /\ state' = [state EXCEPT ![running] = "WAITING"]
        /\ poller_insert_timer(timed_pollers, first_timed_poller, running,
                               now + period_ticks[running])
        /\ UNCHANGED paused_pollers
  /\ UNCHANGED <<period_ticks, fdVars, active_pollers, pc, cur, now, again, modeVars,
                 poller_unregistered, fault>>

(* A thread that went to interrupt mode during the poll is polled once more. *)
PollEnds ==
  /\ At("timed") /\ running = NoPoller /\ TimedDone
  /\ again' = (in_interrupt /\ ~again)
  /\ pc' = IF again' THEN "messages" ELSE "idle"
  /\ cur' = NoPoller
  /\ UNCHANGED <<running, now, pollerVars, fdVars, listVars, modeVars, poller_unregistered, fault>>

-----------------------------------------------------------------------------
(* spdk_thread_poll in interrupt mode: the fd_group runs what is readable. *)

(* msg_fd was written to: thread_interrupt_msg_process. *)
MessageEvent ==
  /\ At("idle") /\ in_interrupt
  /\ pc' = "intr_messages"
  /\ UNCHANGED <<running, cur, now, again, pollerVars, fdVars, listVars, modeVars,
                 poller_unregistered, fault>>

MessageEventEnds ==
  /\ At("intr_messages")
  /\ pc' = "idle"
  /\ UNCHANGED <<running, cur, now, again, pollerVars, fdVars, listVars, modeVars,
                 poller_unregistered, fault>>

(* interrupt_timerfd_process acknowledges the expiry; a busy poller's eventfd
   stays readable.  fn is called whatever the state of the poller. *)
PollerEvent(p) ==
  /\ At("idle") /\ in_interrupt
  /\ p \in readable
  /\ readable' = IF Period[p] > 0 THEN readable \ {p} ELSE readable
  /\ running' = p
  /\ pc' = "event"
  /\ UNCHANGED <<intr, timer, cur, now, again, pollerVars, listVars, modeVars,
                 poller_unregistered, fault>>

PollerEventReturns ==
  /\ At("event")
  /\ running' = NoPoller
  /\ pc' = "idle"
  /\ UNCHANGED <<cur, now, again, pollerVars, fdVars, listVars, modeVars,
                 poller_unregistered, fault>>

-----------------------------------------------------------------------------
(* spdk_thread_set_interrupt_mode. *)

(* The pollers poller_set_interrupt_mode turns to their own fd. *)
Switched(s) == {p \in ToSet(s) : state[p] # "UNREGISTERED" /\ intr[p] = "own"}

(* To interrupt mode: timerfds are armed with what is left until next_run_tick,
   where zero leaves them disarmed, and eventfds are written to. *)
ToInterruptMode ==
  /\ UserRuns
  /\ InterruptEnabled /\ ~in_interrupt
  /\ LET on == Switched(timed_pollers) \cup Switched(active_pollers) \cup Switched(paused_pollers)
         timed == {p \in on : period_ticks[p] > 0}
         next == [p \in Pollers |-> IF p \in timed /\ next_run_tick[p] < 0 THEN OneUs
                                    ELSE next_run_tick[p]]
     IN /\ next_run_tick' = next
        /\ timer' = [p \in Pollers |-> IF p \notin timed THEN timer[p]
                                       ELSE IF next[p] = 0 THEN Off ELSE next[p]]
        /\ readable' = (readable \ timed) \cup (on \ timed)
  /\ in_interrupt' = TRUE
  /\ UNCHANGED <<state, period_ticks, intr, listVars, loopVars, switching,
                 poller_unregistered, fault>>

(* To poll mode: RB_FOREACH_SAFE over the timed pollers first ... *)
ToPollMode ==
  /\ UserRuns
  /\ in_interrupt
  /\ switching' = IF timed_pollers = <<>> THEN "rest" ELSE First(timed_pollers)
  /\ UNCHANGED <<pollerVars, fdVars, listVars, loopVars, in_interrupt, poller_unregistered, fault>>

(* ... each of which is put where the time left on its timer says ... *)
RearmTimed ==
  /\ fault = "none" /\ switching \in Pollers
  /\ LET p == switching
         tmp == Succ(timed_pollers, p)
         tree == Remove(timed_pollers, p)
     IN /\ switching' = IF tmp = NoPoller THEN "rest" ELSE tmp
        /\ \/ /\ p \in Switched(timed_pollers)
              /\ poller_insert_timer(tree, FirstWithout(p, tree), p, Max({timer[p], 0}))
              /\ timer' = [timer EXCEPT ![p] = Off] /\ readable' = readable \ {p}
           \/ /\ p \notin Switched(timed_pollers)
              /\ UNCHANGED <<next_run_tick, timedVars, timer, readable>>
  /\ UNCHANGED <<state, period_ticks, intr, active_pollers, paused_pollers, loopVars,
                 in_interrupt, poller_unregistered, fault>>

(* ... then the busy ones, and the paused ones too: a paused timed poller is not
   in the tree that poller_remove_timer takes it from. *)
ModeSwitched ==
  /\ fault = "none" /\ switching = "rest"
  /\ IF \E p \in Switched(paused_pollers) : period_ticks[p] > 0
     THEN fault' = "absent_from_tree" /\ UNCHANGED <<readable, in_interrupt, switching>>
     ELSE /\ readable' = readable \ (Switched(active_pollers) \cup Switched(paused_pollers))
          /\ in_interrupt' = FALSE
          /\ switching' = "no"
          /\ UNCHANGED fault
  /\ UNCHANGED <<pollerVars, intr, timer, listVars, loopVars, poller_unregistered>>

-----------------------------------------------------------------------------
(* The clock.  A switch of the mode takes less than a tick. *)
Tick ==
  /\ fault = "none" /\ switching = "no"
  /\ pc \in {"messages", "active", "timed"} => now > -MaxPollTicks
  /\ now' = IF pc \in {"messages", "active", "timed"} THEN now - 1 ELSE 0
  /\ next_run_tick' = [p \in Pollers |-> Max({next_run_tick[p] - 1, Overdue})]
  /\ timer' = [p \in Pollers |-> IF timer[p] = Off THEN Off
                                  ELSE IF timer[p] = 1 THEN Period[p] ELSE timer[p] - 1]
  /\ readable' = readable \cup {p \in Pollers : timer[p] = 1}
  /\ UNCHANGED <<state, period_ticks, intr, listVars, pc, running, cur, again, modeVars,
                 poller_unregistered, fault>>

User ==
  \/ ToInterruptMode \/ ToPollMode
  \/ \E p \in Pollers :
       \/ poller_register(p)
       \/ spdk_poller_register_interrupt(p)
       \/ spdk_poller_unregister(p)
       \/ spdk_poller_pause(p)
       \/ spdk_poller_resume(p)

Poll ==
  \/ PollBegins \/ MessagesEnd
  \/ VisitActive \/ ActiveReturns \/ ActiveEnds
  \/ VisitTimed \/ TimedReturns \/ PollEnds

Events ==
  \/ MessageEvent \/ MessageEventEnds
  \/ (\E p \in Pollers : PollerEvent(p)) \/ PollerEventReturns

Next ==
  \/ User \/ Poll \/ Events \/ _thread_remove_pollers
  \/ RearmTimed \/ ModeSwitched
  \/ Tick

Spec == Init /\ [][Next]_vars

(* The thread is polled for ever, and fn and messages return. *)
FairSpec == Spec /\ WF_vars(Poll) /\ WF_vars(Tick)

-----------------------------------------------------------------------------
(* Properties. *)

Count(s, p) == Cardinality({k \in DOMAIN s : s[k] = p})

(* Every allocated poller is in exactly one place, once: the list or the tree
   its state and period say, or taken out of the tree while its fn runs. *)
EachInOnePlace ==
  fault = "none" =>
    \A p \in Pollers :
      LET out == pc = "timed" /\ running = p IN
      /\ Count(active_pollers, p) =
           IF state[p] \notin {"none", "PAUSED"} /\ period_ticks[p] = 0 THEN 1 ELSE 0
      /\ Count(timed_pollers, p) =
           IF state[p] \notin {"none", "PAUSED"} /\ period_ticks[p] > 0 /\ ~out THEN 1 ELSE 0
      /\ Count(paused_pollers, p) = IF state[p] = "PAUSED" THEN 1 ELSE 0

(* The poller a walk has saved to go on with is still where the walk will look
   for it, whatever the pollers called in between. *)
WalkGoesOn ==
  /\ pc = "active" /\ cur # NoPoller => cur \in ToSet(active_pollers)
  /\ pc = "timed" /\ cur # NoPoller => cur \in ToSet(timed_pollers)
  /\ switching \in Pollers => switching \in ToSet(timed_pollers)

(* In poll mode the cached first poller is the earliest, and a poll does not end
   before every timed poller that is due has been taken out. *)
NoDuePollerMissed ==
  ~in_interrupt =>
    /\ first_timed_poller = First(timed_pollers)
    /\ \A p \in ToSet(timed_pollers) :
          /\ next_run_tick[first_timed_poller] <= next_run_tick[p]
          /\ pc = "timed" /\ running = NoPoller /\ TimedDone => now < next_run_tick[p]

(* No walk comes across a poller in a state its switch does not expect. *)
StatesExpected == fault # "bad_state"

(* A poller that is registered and not paused is run again and again. *)
NoStarvation ==
  \A p \in Pollers :
    <>[](state[p] \in {"WAITING", "RUNNING"}) => []<>(running = p)

(* An unregistered poller is freed in the end. *)
UnregisteredIsFreed ==
  \A p \in Pollers : state[p] = "UNREGISTERED" ~> state[p] = "none"

(* The lists, the tree and the states agree at every point of a walk and of a
   switch of mode. *)
PollersInPlace == TypeOK /\ EachInOnePlace /\ WalkGoesOn /\ StatesExpected
=============================================================================
