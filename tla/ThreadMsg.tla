----------------------------- MODULE ThreadMsg ------------------------------
(***************************************************************************)
(* How messages reach one SPDK thread (lib/thread/thread.c): senders on    *)
(* other cores enqueue without a lock and write to msg_fd only if they see *)
(* the thread in interrupt mode; the thread dequeues a batch at a time,    *)
(* switches between poll and interrupt mode from within its messages, and  *)
(* exits.                                                                  *)
(*                                                                         *)
(* A step is one access to memory that both sides use.  What the function  *)
(* of a user's message does is a choice of the actions of User.            *)
(***************************************************************************)
EXTENDS Integers, Sequences

CONSTANTS
  Senders,           \* callers of spdk_thread_send_msg on other cores
  MaxSent,           \* bound on the messages of each
  BatchSize,         \* SPDK_MSG_BATCH_SIZE
  MaxSwitches        \* bound on the mode switches within one spdk_thread_poll

ASSUME BoundsAssumption ==
  MaxSent \in Nat /\ BatchSize \in Nat \ {0} /\ MaxSwitches \in Nat

VARIABLES
  g_interrupt_mode,  \* the interrupt facility is on, from before the first thread
  \* struct spdk_thread
  messages,       \* the ring
  critical_msg,   \* a critical message is outstanding
  msg_fd,         \* the eventfd is readable
  in_interrupt, state,
  \* the thread's stack
  pc,
  batch,          \* dequeued and not returned from yet
  loop,           \* the loop that runs it: thread_poll, once "again", or the fd_group
  switches,       \* mode switches in this spdk_thread_poll
  \* each sender's stack
  spc, saw,       \* where it is, and the value of in_interrupt it loaded
  sent,           \* how much each has sent
  overtaken       \* history: some load of in_interrupt came before its store

modeVars == <<g_interrupt_mode, in_interrupt, state>>
thrVars == <<messages, critical_msg, msg_fd, modeVars>>
runVars == <<pc, batch, loop, switches>>
sndVars == <<spc, saw, sent, overtaken>>
vars == <<thrVars, runVars, sndVars>>

TypeOK ==
  /\ messages \in Seq({"fn", "_thread_exit"})
  /\ batch \in Seq({"fn", "_thread_exit"}) /\ Len(batch) <= BatchSize
  /\ critical_msg \in BOOLEAN /\ msg_fd \in BOOLEAN /\ in_interrupt \in BOOLEAN
  /\ state \in {"RUNNING", "EXITING", "EXITED"}
  /\ pc \in {"idle", "critical", "in_critical", "dequeue", "batch",
             "exit", "exited", "msg_exit", "msg_exited"}
  /\ loop \in {"poll", "again", "event"}
  /\ switches \in 0 .. MaxSwitches
  /\ spc \in [Senders -> {"idle", "enqueue", "enqueue_late", "notify", "notify_saw"}]
  /\ saw \in [Senders -> BOOLEAN]
  /\ sent \in [Senders -> 0 .. MaxSent]
  /\ g_interrupt_mode \in BOOLEAN /\ overtaken \in BOOLEAN

(* A new thread starts in interrupt mode if that is enabled. *)
Init ==
  /\ messages = <<>> /\ batch = <<>>
  /\ g_interrupt_mode \in BOOLEAN
  /\ critical_msg = FALSE /\ msg_fd = FALSE /\ in_interrupt = g_interrupt_mode
  /\ state = "RUNNING"
  /\ pc = "idle" /\ loop = "poll" /\ switches = 0
  /\ spc = [s \in Senders |-> "idle"] /\ saw = [s \in Senders |-> FALSE]
  /\ sent = [s \in Senders |-> 0] /\ overtaken = FALSE

-----------------------------------------------------------------------------
(* Senders. *)

(* The call begins: a target that has exited would abort the program, which
   senders avoid. *)
spdk_thread_send_msg(s) ==
  /\ spc[s] = "idle" /\ sent[s] < MaxSent
  /\ state # "EXITED"
  /\ sent' = [sent EXCEPT ![s] = @ + 1]
  /\ spc' = [spc EXCEPT ![s] = "enqueue"]
  /\ UNCHANGED <<thrVars, runVars, saw, overtaken>>

(* The load of in_interrupt that thread_send_msg_notification makes may be
   satisfied before the store to the ring is seen: no fence orders the two. *)
LoadsEarly(s) ==
  /\ spc[s] = "enqueue" /\ g_interrupt_mode
  /\ saw' = [saw EXCEPT ![s] = in_interrupt]
  /\ overtaken' = TRUE
  /\ spc' = [spc EXCEPT ![s] = "enqueue_late"]
  /\ UNCHANGED <<thrVars, runVars, sent>>

spdk_ring_enqueue(s) ==
  /\ \/ spc[s] = "enqueue" /\ spc' = [spc EXCEPT ![s] = "notify"]
     \/ spc[s] = "enqueue_late" /\ spc' = [spc EXCEPT ![s] = "notify_saw"]
  /\ messages' = Append(messages, "fn")
  /\ UNCHANGED <<critical_msg, msg_fd, modeVars, runVars, saw, sent, overtaken>>

(* A signal handler's message, one at a time: its compare-and-exchange is
   ordered before the load of in_interrupt. *)
spdk_thread_send_critical_msg(s) ==
  /\ spc[s] = "idle" /\ sent[s] < MaxSent
  /\ state # "EXITED"
  /\ ~critical_msg
  /\ critical_msg' = TRUE
  /\ sent' = [sent EXCEPT ![s] = @ + 1]
  /\ spc' = [spc EXCEPT ![s] = "notify"]
  /\ UNCHANGED <<messages, msg_fd, modeVars, runVars, saw, overtaken>>

(* Write to msg_fd if the thread is, or was seen, in interrupt mode. *)
thread_send_msg_notification(s) ==
  /\ \/ spc[s] = "notify" /\ msg_fd' = (msg_fd \/ in_interrupt)
     \/ spc[s] = "notify_saw" /\ msg_fd' = (msg_fd \/ saw[s])
  /\ spc' = [spc EXCEPT ![s] = "idle"]
  /\ saw' = [saw EXCEPT ![s] = FALSE]
  /\ UNCHANGED <<messages, critical_msg, modeVars, runVars, sent, overtaken>>

-----------------------------------------------------------------------------
(* spdk_thread_poll. *)

PollBegins ==
  /\ pc = "idle" /\ state # "EXITED"
  /\ ~in_interrupt
  /\ pc' = "critical" /\ loop' = "poll" /\ switches' = 0
  /\ UNCHANGED <<thrVars, batch, sndVars>>

(* In interrupt mode the fd_group reads msg_fd before it calls
   thread_interrupt_msg_process. *)
FdEvent ==
  /\ pc = "idle" /\ state # "EXITED"
  /\ in_interrupt /\ msg_fd
  /\ msg_fd' = FALSE
  /\ pc' = "critical" /\ loop' = "event" /\ switches' = 0
  /\ UNCHANGED <<messages, critical_msg, modeVars, batch, sndVars>>

LoadCritical ==
  /\ pc = "critical"
  /\ pc' = IF critical_msg THEN "in_critical" ELSE "dequeue"
  /\ UNCHANGED <<thrVars, batch, loop, switches, sndVars>>

(* The slot is cleared after the message was run. *)
ClearCritical ==
  /\ pc = "in_critical"
  /\ critical_msg' = FALSE
  /\ pc' = "dequeue"
  /\ UNCHANGED <<messages, msg_fd, modeVars, batch, loop, switches, sndVars>>

LeastOf(m, n) == IF m < n THEN m ELSE n

DequeueSilently ==   \* mutant: messages that stay behind are not announced
  /\ pc = "dequeue"
  /\ LET count == LeastOf(Len(messages), BatchSize)
     IN /\ batch' = SubSeq(messages, 1, count)
        /\ messages' = SubSeq(messages, count + 1, Len(messages))
  /\ pc' = "batch"
  /\ UNCHANGED <<msg_fd, critical_msg, modeVars, loop, switches, sndVars>>

(* msg_queue_run_batch takes a batch, and asks for another event if that
   leaves messages behind in interrupt mode. *)
Dequeue ==
  /\ pc = "dequeue"
  /\ LET count == LeastOf(Len(messages), BatchSize)
     IN /\ batch' = SubSeq(messages, 1, count)
        /\ messages' = SubSeq(messages, count + 1, Len(messages))
  /\ msg_fd' = (msg_fd \/ (in_interrupt /\ messages' # <<>>))
  /\ pc' = "batch"
  /\ UNCHANGED <<critical_msg, modeVars, loop, switches, sndVars>>

(* The function of the first message returns. *)
MessageReturns ==
  /\ pc = "batch" /\ batch # <<>> /\ Head(batch) = "fn"
  /\ batch' = Tail(batch)
  /\ UNCHANGED <<thrVars, pc, loop, switches, sndVars>>

PollsOnce ==   \* mutant: a thread that left poll mode is not polled once more
  /\ pc = "batch" /\ batch = <<>> /\ loop # "event"
  /\ loop' = "poll"
  /\ pc' = IF state = "EXITING" THEN "exit" ELSE "idle"
  /\ UNCHANGED <<thrVars, batch, switches, sndVars>>

(* A thread that went to interrupt mode is polled once more; then it exits if
   it is to. *)
PollEnds ==
  /\ pc = "batch" /\ batch = <<>> /\ loop # "event"
  /\ loop' = IF loop = "poll" /\ in_interrupt THEN "again" ELSE "poll"
  /\ pc' = IF loop' = "again" THEN "critical"
           ELSE IF state = "EXITING" THEN "exit" ELSE "idle"
  /\ UNCHANGED <<thrVars, batch, switches, sndVars>>

(* thread_interrupt_msg_process clears msg_fd in poll mode. *)
EventEnds ==
  /\ pc = "batch" /\ batch = <<>> /\ loop = "event"
  /\ msg_fd' = (msg_fd /\ in_interrupt)
  /\ pc' = "idle" /\ loop' = "poll"
  /\ UNCHANGED <<messages, critical_msg, modeVars, batch, switches, sndVars>>

-----------------------------------------------------------------------------
(* What the function of a message, or the critical one, may call. *)

UserRuns == pc = "in_critical" \/ (pc = "batch" /\ batch # <<>> /\ Head(batch) = "fn")

(* The pollers are module Poller's. *)
spdk_thread_set_interrupt_mode ==
  /\ UserRuns
  /\ g_interrupt_mode /\ switches < MaxSwitches
  /\ in_interrupt' = ~in_interrupt
  /\ switches' = switches + 1
  /\ UNCHANGED <<g_interrupt_mode, messages, critical_msg, msg_fd, state, pc, batch, loop,
                 sndVars>>

(* The thread's own message, with the notification. *)
SendSelf(msg) ==
  /\ messages' = Append(messages, msg)
  /\ msg_fd' = (msg_fd \/ in_interrupt)

spdk_thread_exit ==
  /\ UserRuns /\ state = "RUNNING"
  /\ state' = "EXITING"
  /\ IF g_interrupt_mode THEN SendSelf("_thread_exit") ELSE UNCHANGED <<messages, msg_fd>>
  /\ UNCHANGED <<g_interrupt_mode, critical_msg, in_interrupt, runVars, sndVars>>

(* The _thread_exit message calls thread_exit. *)
_thread_exit ==
  /\ pc = "batch" /\ batch # <<>> /\ Head(batch) = "_thread_exit"
  /\ pc' = "msg_exit"
  /\ UNCHANGED <<thrVars, batch, loop, switches, sndVars>>

(* thread_exit gives up while the ring holds a message, whereupon _thread_exit
   sends itself again ... *)
CheckRing ==
  \/ /\ pc = "exit"
     /\ pc' = IF messages = <<>> THEN "exited" ELSE "idle"
     /\ UNCHANGED <<messages, msg_fd, batch>>
  \/ /\ pc = "msg_exit" /\ messages = <<>>
     /\ pc' = "msg_exited"
     /\ UNCHANGED <<messages, msg_fd, batch>>
  \/ /\ pc = "msg_exit" /\ messages # <<>>
     /\ SendSelf("_thread_exit")
     /\ batch' = Tail(batch)
     /\ pc' = "batch"

thread_exit_checks ==
  /\ CheckRing
  /\ UNCHANGED <<critical_msg, modeVars, loop, switches, sndVars>>

(* ... and marks the thread otherwise. *)
thread_exit_marks ==
  /\ pc \in {"exited", "msg_exited"}
  /\ state' = "EXITED"
  /\ \/ pc = "exited" /\ pc' = "idle" /\ UNCHANGED batch
     \/ pc = "msg_exited" /\ pc' = "batch" /\ batch' = Tail(batch)
  /\ UNCHANGED <<g_interrupt_mode, messages, critical_msg, msg_fd, in_interrupt, loop,
                 switches, sndVars>>

-----------------------------------------------------------------------------
Send(s) ==
  \/ spdk_thread_send_msg(s)
  \/ spdk_thread_send_critical_msg(s)

Sending(s) ==
  \/ LoadsEarly(s) \/ spdk_ring_enqueue(s) \/ thread_send_msg_notification(s)

Poll ==
  \/ PollBegins \/ FdEvent \/ LoadCritical \/ ClearCritical \/ Dequeue
  \/ MessageReturns \/ PollEnds \/ EventEnds
  \/ _thread_exit \/ thread_exit_checks \/ thread_exit_marks

Next ==
  \/ \E s \in Senders : Send(s) \/ Sending(s)
  \/ Poll
  \/ spdk_thread_set_interrupt_mode \/ spdk_thread_exit

Spec == Init /\ [][Next]_vars

(* The reactor polls the thread, or waits for its fds; a call that began ends. *)
FairSpec == Spec /\ WF_vars(Poll) /\ \A s \in Senders : WF_vars(Sending(s))

-----------------------------------------------------------------------------
(* Properties. *)

(* A thread that sleeps in interrupt mode with something to do has msg_fd to
   wake it up, or a sender about to write to it: "after sending thread msg, it is
   necessary to check whether target thread runs in interrupt mode and then
   decide whether do event notification". *)
NoLostWakeup ==
  pc = "idle" /\ in_interrupt /\ state # "EXITED" /\ (messages # <<>> \/ critical_msg) =>
    msg_fd \/ \E s \in Senders : spc[s] = "notify" \/ (spc[s] = "notify_saw" /\ saw[s])

(* The same as long as every sender's load comes after its store: across mode
   switches, the extra poll and batches that leave messages behind. *)
NoLostWakeupInOrder == ~overtaken => NoLostWakeup

(* What was sent in order is dequeued in the end, even if nothing more is sent,
   unless the thread exits; a critical message is run and makes room for the
   next one. *)
MessagesRun ==
  /\ messages # <<>> ~> (messages = <<>> \/ state = "EXITED" \/ overtaken)
  /\ critical_msg ~> (~critical_msg \/ state = "EXITED" \/ overtaken)

(* The thread never sleeps on work that it was sent in order. *)
WakeupSound == TypeOK /\ NoLostWakeupInOrder
=============================================================================
