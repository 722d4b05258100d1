-------------------------- MODULE RefCountedDevice --------------------------
(***************************************************************************)
(* What lib/thread promises the users of an io_device, without messages,   *)
(* counters or locks: threads hold a registered device through channels,   *)
(* iterations run over it, it closes when no iteration runs, and it is     *)
(* gone when the last holder has let go.                                   *)
(***************************************************************************)
CONSTANTS Threads, Devs, Iters

VARIABLES
  phase,     \* of each device
  holders,   \* threads with a channel that destroy_cb has not finished
  active     \* iterations that may still call fn on a channel of the device

vars == <<phase, holders, active>>

Init ==
  /\ phase = [d \in Devs |-> "absent"]
  /\ holders = [d \in Devs |-> {}]
  /\ active = [d \in Devs |-> {}]

Register(d) ==
  /\ phase[d] = "absent"
  /\ \A e \in Devs : phase[e] # "registered"
  /\ phase' = [phase EXCEPT ![d] = "registered"]
  /\ UNCHANGED <<holders, active>>

Acquire(t, d) ==
  /\ phase[d] = "registered"
  /\ t \notin holders[d]
  /\ holders' = [holders EXCEPT ![d] = @ \cup {t}]
  /\ UNCHANGED <<phase, active>>

Release(t, d) ==
  /\ t \in holders[d]
  /\ holders' = [holders EXCEPT ![d] = @ \ {t}]
  /\ UNCHANGED <<phase, active>>

Begin(i, d) ==
  /\ phase[d] = "registered"
  /\ \A e \in Devs : i \notin active[e]
  /\ active' = [active EXCEPT ![d] = @ \cup {i}]
  /\ UNCHANGED <<phase, holders>>

End(i, d) ==
  /\ i \in active[d]
  /\ active' = [active EXCEPT ![d] = @ \ {i}]
  /\ UNCHANGED <<phase, holders>>

(* No more channels and iterations from here on. *)
Close(d) ==
  /\ phase[d] = "registered"
  /\ active[d] = {}
  /\ phase' = [phase EXCEPT ![d] = "draining"]
  /\ UNCHANGED <<holders, active>>

(* unregister_cb has run, the struct is freed. *)
Finish(d) ==
  /\ phase[d] = "draining"
  /\ holders[d] = {}
  /\ phase' = [phase EXCEPT ![d] = "gone"]
  /\ UNCHANGED <<holders, active>>

Next ==
  \E d \in Devs :
    \/ Register(d) \/ Close(d) \/ Finish(d)
    \/ \E t \in Threads : Acquire(t, d) \/ Release(t, d)
    \/ \E i \in Iters : Begin(i, d) \/ End(i, d)

Spec == Init /\ [][Next]_vars
=============================================================================
