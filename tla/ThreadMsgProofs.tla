-------------------------- MODULE ThreadMsgProofs ---------------------------
(***************************************************************************)
(* Proofs about ThreadMsg, for any number of senders, messages and any     *)
(* batch size.                                                             *)
(***************************************************************************)
EXTENDS ThreadMsg, SequenceTheorems, TLAPS

-----------------------------------------------------------------------------
(* The inductive invariant. *)

Msgs == {"fn", "_thread_exit"}

(* Somebody has woken the thread up or is about to. *)
Awake == msg_fd \/ \E s \in Senders : spc[s] = "notify"

(* A message that calls thread_exit is still in the batch; a sender whose load came
   after its store has no stale value to act on. *)
Stacks ==
  /\ pc \in {"msg_exit", "msg_exited"} => batch # <<>>
  /\ ~overtaken => \A s \in Senders : spc[s] \in {"idle", "enqueue", "notify"}

(* The mode in which a poll runs follows from the loop and from whether it has been
   switched, which happens once: a poll starts in poll mode, the fd_group calls in
   interrupt mode, and the extra poll is one after the switch. *)
Modes ==
  /\ switches \in {0, 1}
  /\ pc \notin {"idle", "exit", "exited"} =>
       /\ loop = "poll" => (in_interrupt <=> switches = 1)
       /\ loop = "event" => (in_interrupt <=> switches = 0)
       /\ loop = "again" => in_interrupt /\ switches = 1
  /\ pc \in {"idle", "exit", "exited"} => loop = "poll"

(* The thread is in interrupt mode and has been so since the pass over its messages
   began, or between passes: what the pass does not look at any more has its wakeup. *)
Sleepy == in_interrupt /\ (loop # "poll" \/ pc \in {"idle", "exit", "exited"})

Covered ==
  Sleepy =>
    /\ pc \notin {"critical", "in_critical"} /\ critical_msg => Awake
    /\ pc \notin {"critical", "in_critical", "dequeue"} /\ messages # <<>> => Awake

IndInv == TypeOK /\ Stacks /\ Modes /\ (~overtaken => Covered)

-----------------------------------------------------------------------------
(* One lemma per action. *)

(* Taking a message off the batch. *)
LEMMA TailShorter ==
  ASSUME NEW S, NEW s \in Seq(S), s # <<>>, NEW n \in Nat, Len(s) <= n
  PROVE  Tail(s) \in Seq(S) /\ Len(Tail(s)) <= n
  <1>1. Tail(s) \in Seq(S) /\ Len(Tail(s)) = Len(s) - 1 /\ Len(s) \in Nat
    BY HeadTailProperties, LenProperties
  <1> QED
    BY <1>1

(* A message is about to be sent. *)
LEMMA SendInd ==
  ASSUME IndInv, NEW s \in Senders, spdk_thread_send_msg(s)
  PROVE  IndInv'
  <1> USE DEF IndInv, spdk_thread_send_msg, thrVars, modeVars, runVars, sndVars
  <1>1. TypeOK'
    BY BoundsAssumption DEF TypeOK
  <1>2. Stacks'
    BY DEF Stacks, TypeOK
  <1>3. Modes'
    BY DEF Modes, TypeOK, Stacks
  <1>4. ~overtaken' => Covered'
    BY DEF Covered, Modes, Sleepy, Awake, TypeOK, Stacks
  <1> QED
    BY <1>1, <1>2, <1>3, <1>4

(* A load overtakes the store. *)
LEMMA LoadsEarlyInd ==
  ASSUME IndInv, NEW s \in Senders, LoadsEarly(s)
  PROVE  IndInv'
  <1> USE DEF IndInv, LoadsEarly, thrVars, modeVars, runVars, sndVars
  <1>1. TypeOK'
    BY BoundsAssumption DEF TypeOK
  <1>2. Stacks'
    BY DEF Stacks, TypeOK
  <1>3. Modes'
    BY DEF Modes, TypeOK, Stacks
  <1>4. ~overtaken' => Covered'
    BY DEF Covered, Modes, Sleepy, Awake, TypeOK, Stacks
  <1> QED
    BY <1>1, <1>2, <1>3, <1>4

(* A message is in the ring before its sender looks at the mode. *)
LEMMA EnqueueInd ==
  ASSUME IndInv, NEW s \in Senders, spdk_ring_enqueue(s)
  PROVE  IndInv'
  <1> USE DEF IndInv, spdk_ring_enqueue, thrVars, modeVars, runVars, sndVars
  <1>1. TypeOK'
    BY BoundsAssumption DEF TypeOK
  <1>2. Stacks'
    BY DEF Stacks, TypeOK
  <1>3. Modes'
    BY DEF Modes, TypeOK, Stacks
  <1>4. ~overtaken' => Covered'
    BY DEF Covered, Modes, Sleepy, Awake, TypeOK, Stacks
  <1> QED
    BY <1>1, <1>2, <1>3, <1>4

(* A critical message is outstanding before its sender looks at the mode. *)
LEMMA CriticalInd ==
  ASSUME IndInv, NEW s \in Senders, spdk_thread_send_critical_msg(s)
  PROVE  IndInv'
  <1> USE DEF IndInv, spdk_thread_send_critical_msg, thrVars, modeVars, runVars, sndVars
  <1>1. TypeOK'
    BY BoundsAssumption DEF TypeOK
  <1>2. Stacks'
    BY DEF Stacks, TypeOK
  <1>3. Modes'
    BY DEF Modes, TypeOK, Stacks
  <1>4. ~overtaken' => Covered'
    BY DEF Covered, Modes, Sleepy, Awake, TypeOK, Stacks
  <1> QED
    BY <1>1, <1>2, <1>3, <1>4

(* A sender that sees interrupt mode wakes the thread. *)
LEMMA NotifyInd ==
  ASSUME IndInv, NEW s \in Senders, thread_send_msg_notification(s)
  PROVE  IndInv'
  <1> USE DEF IndInv, thread_send_msg_notification, thrVars, modeVars, runVars, sndVars
  <1>1. TypeOK'
    BY BoundsAssumption DEF TypeOK
  <1>2. Stacks'
    BY DEF Stacks, TypeOK
  <1>3. Modes'
    BY DEF Modes, TypeOK, Stacks
  <1>4. ~overtaken' => Covered'
    BY DEF Covered, Modes, Sleepy, Awake, TypeOK, Stacks
  <1> QED
    BY <1>1, <1>2, <1>3, <1>4

(* A poll begins in poll mode. *)
LEMMA PollBeginsInd ==
  ASSUME IndInv, PollBegins
  PROVE  IndInv'
  <1> USE DEF IndInv, PollBegins, thrVars, modeVars, runVars, sndVars
  <1>1. TypeOK'
    BY BoundsAssumption DEF TypeOK
  <1>2. Stacks'
    BY DEF Stacks, TypeOK
  <1>3. Modes'
    BY DEF Modes, TypeOK, Stacks
  <1>4. ~overtaken' => Covered'
    BY DEF Covered, Modes, Sleepy, Awake, TypeOK, Stacks
  <1> QED
    BY <1>1, <1>2, <1>3, <1>4

(* The fd_group calls in interrupt mode, with msg_fd read. *)
LEMMA FdEventInd ==
  ASSUME IndInv, FdEvent
  PROVE  IndInv'
  <1> USE DEF IndInv, FdEvent, thrVars, modeVars, runVars, sndVars
  <1>1. TypeOK'
    <2>1. 0 \in 0 .. MaxSwitches
      BY BoundsAssumption
    <2>2. FALSE \in BOOLEAN
      OBVIOUS
    <2> QED
      BY <2>1, <2>2 DEF TypeOK
  <1>2. Stacks'
    BY DEF Stacks, TypeOK
  <1>3. Modes'
    BY DEF Modes, TypeOK, Stacks
  <1>4. ~overtaken' => Covered'
    BY DEF Covered, Modes, Sleepy, Awake, TypeOK, Stacks
  <1> QED
    BY <1>1, <1>2, <1>3, <1>4

(* The critical message is looked for. *)
LEMMA LoadCriticalInd ==
  ASSUME IndInv, LoadCritical
  PROVE  IndInv'
  <1> USE DEF IndInv, LoadCritical, thrVars, modeVars, runVars, sndVars
  <1>1. TypeOK'
    BY BoundsAssumption DEF TypeOK
  <1>2. Stacks'
    BY DEF Stacks, TypeOK
  <1>3. Modes'
    BY DEF Modes, TypeOK, Stacks
  <1>4. ~overtaken' => Covered'
    BY DEF Covered, Modes, Sleepy, Awake, TypeOK, Stacks
  <1> QED
    BY <1>1, <1>2, <1>3, <1>4

(* It has been run. *)
LEMMA ClearCriticalInd ==
  ASSUME IndInv, ClearCritical
  PROVE  IndInv'
  <1> USE DEF IndInv, ClearCritical, thrVars, modeVars, runVars, sndVars
  <1>1. TypeOK'
    BY BoundsAssumption DEF TypeOK
  <1>2. Stacks'
    BY DEF Stacks, TypeOK
  <1>3. Modes'
    BY DEF Modes, TypeOK, Stacks
  <1>4. ~overtaken' => Covered'
    BY DEF Covered, Modes, Sleepy, Awake, TypeOK, Stacks
  <1> QED
    BY <1>1, <1>2, <1>3, <1>4

(* A batch is taken; what stays behind is announced. *)
LEMMA DequeueInd ==
  ASSUME IndInv, Dequeue
  PROVE  IndInv'
  <1> USE DEF IndInv, Dequeue, thrVars, modeVars, runVars, sndVars
  <1>1. TypeOK'
    <2> DEFINE count == LeastOf(Len(messages), BatchSize)
    <2>1. /\ messages \in Seq(Msgs) /\ Len(messages) \in Nat
          /\ \A i \in 1 .. Len(messages) : messages[i] \in Msgs
      BY LenProperties, ElementOfSeq DEF TypeOK, Msgs
    <2>2. count \in 0 .. Len(messages) /\ count <= BatchSize /\ count \in Nat
      BY <2>1, BoundsAssumption DEF LeastOf
    <2> HIDE DEF count
    <2>3. SubSeq(messages, 1, count) \in Seq(Msgs)
          /\ Len(SubSeq(messages, 1, count)) = IF 1 <= count THEN count - 1 + 1 ELSE 0
      BY <2>1, <2>2, SubSeqProperties
    <2>4. SubSeq(messages, count + 1, Len(messages)) \in Seq(Msgs)
      BY <2>1, <2>2, SubSeqProperties
    <2>5. Len(SubSeq(messages, 1, count)) <= BatchSize
      BY <2>2, <2>3, BoundsAssumption
    <2>6. msg_fd' \in BOOLEAN
      BY Zenon DEF TypeOK
    <2> QED
      BY <2>3, <2>4, <2>5, <2>6 DEF TypeOK, Msgs, count
  <1>2. Stacks'
    BY DEF Stacks, TypeOK
  <1>3. Modes'
    BY DEF Modes, TypeOK, Stacks
  <1>4. ~overtaken' => Covered'
    BY DEF Covered, Modes, Sleepy, Awake, TypeOK, Stacks
  <1> QED
    BY <1>1, <1>2, <1>3, <1>4

(* A message returns. *)
LEMMA ReturnsInd ==
  ASSUME IndInv, MessageReturns
  PROVE  IndInv'
  <1> USE DEF IndInv, MessageReturns, thrVars, modeVars, runVars, sndVars
  <1>1. TypeOK'
    BY BoundsAssumption DEF TypeOK
  <1>2. Stacks'
    BY DEF Stacks, TypeOK
  <1>3. Modes'
    BY DEF Modes, TypeOK, Stacks
  <1>4. ~overtaken' => Covered'
    BY DEF Covered, Modes, Sleepy, Awake, TypeOK, Stacks
  <1> QED
    BY <1>1, <1>2, <1>3, <1>4

(* A pass is over: there is another after a switch to interrupt mode. *)
LEMMA PollEndsInd ==
  ASSUME IndInv, PollEnds
  PROVE  IndInv'
  <1> USE DEF IndInv, PollEnds, thrVars, modeVars, runVars, sndVars
  <1>1. TypeOK'
    BY BoundsAssumption DEF TypeOK
  <1>2. Stacks'
    BY DEF Stacks, TypeOK
  <1>3. Modes'
    BY DEF Modes, TypeOK, Stacks
  <1>4. ~overtaken' => Covered'
    BY DEF Covered, Modes, Sleepy, Awake, TypeOK, Stacks
  <1> QED
    BY <1>1, <1>2, <1>3, <1>4

(* The event is handled. *)
LEMMA EventEndsInd ==
  ASSUME IndInv, EventEnds
  PROVE  IndInv'
  <1> USE DEF IndInv, EventEnds, thrVars, modeVars, runVars, sndVars
  <1>1. TypeOK'
    BY BoundsAssumption DEF TypeOK
  <1>2. Stacks'
    BY DEF Stacks, TypeOK
  <1>3. Modes'
    BY DEF Modes, TypeOK, Stacks
  <1>4. ~overtaken' => Covered'
    BY DEF Covered, Modes, Sleepy, Awake, TypeOK, Stacks
  <1> QED
    BY <1>1, <1>2, <1>3, <1>4

(* The mode is switched, for the first time in this poll. *)
LEMMA SwitchInd ==
  ASSUME IndInv, MaxSwitches <= 1, spdk_thread_set_interrupt_mode
  PROVE  IndInv'
  <1> USE DEF IndInv, spdk_thread_set_interrupt_mode, UserRuns, thrVars, modeVars, runVars, sndVars
  <1>1. TypeOK'
    BY BoundsAssumption DEF TypeOK
  <1>2. Stacks'
    BY DEF Stacks, TypeOK
  <1>3. Modes'
    <2>1. switches = 0 /\ switches' = 1
      BY BoundsAssumption DEF Modes, TypeOK
    <2>2. in_interrupt' <=> ~in_interrupt
      OBVIOUS
    <2>3. pc' = pc /\ loop' = loop /\ pc \notin {"idle", "exit", "exited"}
      OBVIOUS
    <2>4. loop # "again"
      BY <2>1, <2>3 DEF Modes
    <2> QED
      BY <2>1, <2>2, <2>3, <2>4 DEF Modes
  <1>4. ~overtaken' => Covered'
    <2>1. pc' = pc /\ loop' = loop /\ pc \notin {"idle", "exit", "exited"}
      OBVIOUS
    <2>2. switches' = switches + 1 /\ switches \in {0, 1} /\ switches' \in {0, 1}
      BY <1>3 DEF Modes
    <2>3. switches' = 1
      BY <2>2
    <2>4. loop = "event" => ~in_interrupt'
      BY <1>3, <2>1, <2>3 DEF Modes
    <2>5. loop # "again"
      BY <2>1, <2>2, <2>3 DEF Modes
    <2> QED
      BY <2>1, <2>4, <2>5 DEF Covered, Sleepy, TypeOK
  <1> QED
    BY <1>1, <1>2, <1>3, <1>4

(* The thread is to exit. *)
LEMMA ExitInd ==
  ASSUME IndInv, spdk_thread_exit
  PROVE  IndInv'
  <1> USE DEF IndInv, spdk_thread_exit, UserRuns, SendSelf, thrVars, modeVars, runVars, sndVars
  <1>1. TypeOK'
    <2>0. messages \in Seq(Msgs) /\ "_thread_exit" \in Msgs
      BY DEF TypeOK, Msgs
    <2>1. messages' \in Seq(Msgs)
      BY <2>0, AppendProperties
    <2>2. msg_fd' \in BOOLEAN
      BY DEF TypeOK
    <2> QED
      BY <2>1, <2>2 DEF TypeOK, Msgs
  <1>2. Stacks'
    BY DEF Stacks, TypeOK
  <1>3. Modes'
    BY DEF Modes, TypeOK, Stacks
  <1>4. ~overtaken' => Covered'
    BY DEF Covered, Modes, Sleepy, Awake, TypeOK, Stacks
  <1> QED
    BY <1>1, <1>2, <1>3, <1>4

(* The message of the exit calls thread_exit. *)
LEMMA ExitMessageInd ==
  ASSUME IndInv, _thread_exit
  PROVE  IndInv'
  <1> USE DEF IndInv, _thread_exit, thrVars, modeVars, runVars, sndVars
  <1>1. TypeOK'
    BY BoundsAssumption DEF TypeOK
  <1>2. Stacks'
    BY DEF Stacks, TypeOK
  <1>3. Modes'
    BY DEF Modes, TypeOK, Stacks
  <1>4. ~overtaken' => Covered'
    BY DEF Covered, Modes, Sleepy, Awake, TypeOK, Stacks
  <1> QED
    BY <1>1, <1>2, <1>3, <1>4

(* thread_exit looks at the ring. *)
LEMMA ExitChecksInd ==
  ASSUME IndInv, thread_exit_checks
  PROVE  IndInv'
  <1> USE DEF IndInv, thread_exit_checks, CheckRing, SendSelf, thrVars, modeVars, runVars, sndVars
  <1>1. TypeOK'
    <2>0. messages \in Seq(Msgs) /\ "_thread_exit" \in Msgs
      BY DEF TypeOK, Msgs
    <2>1. messages' \in Seq(Msgs)
      BY <2>0, AppendProperties
    <2>2. batch \in Seq(Msgs) /\ Len(batch) <= BatchSize /\ BatchSize \in Nat
          /\ (pc = "msg_exit" => batch # <<>>)
      BY BoundsAssumption DEF TypeOK, Msgs, Stacks
    <2>4. batch' \in Seq(Msgs) /\ Len(batch') <= BatchSize
      BY <2>2, TailShorter
    <2>3. msg_fd' \in BOOLEAN
      BY DEF TypeOK
    <2> QED
      BY <2>1, <2>3, <2>4 DEF TypeOK, Msgs
  <1>2. Stacks'
    BY DEF Stacks, TypeOK
  <1>3. Modes'
    BY DEF Modes, TypeOK, Stacks
  <1>4. ~overtaken' => Covered'
    BY DEF Covered, Modes, Sleepy, Awake, TypeOK, Stacks
  <1> QED
    BY <1>1, <1>2, <1>3, <1>4

(* The thread has exited. *)
LEMMA ExitMarksInd ==
  ASSUME IndInv, thread_exit_marks
  PROVE  IndInv'
  <1> USE DEF IndInv, thread_exit_marks, thrVars, modeVars, runVars, sndVars
  <1>1. TypeOK'
    <2>1. batch \in Seq(Msgs) /\ Len(batch) <= BatchSize /\ BatchSize \in Nat
          /\ (pc = "msg_exited" => batch # <<>>)
      BY BoundsAssumption DEF TypeOK, Msgs, Stacks
    <2>2. batch' \in Seq(Msgs) /\ Len(batch') <= BatchSize
      BY <2>1, TailShorter
    <2> QED
      BY <2>2 DEF TypeOK, Msgs
  <1>2. Stacks'
    BY DEF Stacks, TypeOK
  <1>3. Modes'
    BY DEF Modes, TypeOK, Stacks
  <1>4. ~overtaken' => Covered'
    BY DEF Covered, Modes, Sleepy, Awake, TypeOK, Stacks
  <1> QED
    BY <1>1, <1>2, <1>3, <1>4

-----------------------------------------------------------------------------
(* The theorem. *)

(* The inductive invariant holds at the start. *)
LEMMA InitInd == Init => IndInv
  <1> SUFFICES ASSUME Init PROVE IndInv
    OBVIOUS
  <1>1. TypeOK
    <2>1. <<>> \in Seq(Msgs) /\ Len(<<>>) <= BatchSize
      BY BoundsAssumption, EmptySeq
    <2>2. 0 \in 0 .. MaxSwitches /\ 0 \in 0 .. MaxSent
      BY BoundsAssumption
    <2> QED
      BY <2>1, <2>2 DEF Init, TypeOK, Msgs
  <1>2. Stacks /\ Modes /\ Covered
    BY DEF Init, Stacks, Modes, Covered
  <1> QED
    BY <1>1, <1>2 DEF IndInv

(* Every step preserves it. *)
LEMMA NextInd ==
  ASSUME MaxSwitches <= 1
  PROVE  IndInv /\ [Next]_vars => IndInv'
  <1> SUFFICES ASSUME IndInv, [Next]_vars PROVE IndInv'
    OBVIOUS
  <1>1. CASE UNCHANGED vars
    BY <1>1 DEF vars, thrVars, modeVars, runVars, sndVars, IndInv, TypeOK, Stacks, Modes,
                Covered, Sleepy, Awake
  <1>2. CASE \E s \in Senders : Send(s) \/ Sending(s)
    BY <1>2, SendInd, CriticalInd, LoadsEarlyInd, EnqueueInd, NotifyInd DEF Send, Sending
  <1>3. CASE Poll
    BY <1>3, PollBeginsInd, FdEventInd, LoadCriticalInd, ClearCriticalInd, DequeueInd,
       ReturnsInd, PollEndsInd, EventEndsInd, ExitMessageInd, ExitChecksInd, ExitMarksInd
    DEF Poll
  <1>4. CASE spdk_thread_set_interrupt_mode \/ spdk_thread_exit
    BY <1>4, SwitchInd, ExitInd
  <1> QED
    BY <1>1, <1>2, <1>3, <1>4 DEF Next

(* Provided that messages switch the mode at most once in a poll, a thread never
   sleeps in interrupt mode on messages that were stored before their sender looked
   at the mode: for any number of senders, whatever batches leave behind, and
   wherever in the poll the switch falls. *)
THEOREM WakeupCorrect ==
  ASSUME MaxSwitches <= 1
  PROVE  Spec => []WakeupSound
  <1>1. IndInv => WakeupSound
    <2> SUFFICES ASSUME IndInv, ~overtaken PROVE NoLostWakeup
      BY DEF IndInv, WakeupSound, NoLostWakeupInOrder
    <2> QED
      BY DEF IndInv, NoLostWakeup, Covered, Sleepy, Awake
  <1>2. IndInv /\ [Next]_vars => IndInv'
    BY NextInd
  <1> QED
    BY <1>1, <1>2, InitInd, PTL DEF Spec
=============================================================================
