--------------------------- MODULE IoDeviceProofs ---------------------------
(***************************************************************************)
(* Proofs about IoDevice, for any number of threads, devices and           *)
(* iterations.                                                             *)
(***************************************************************************)
EXTENDS IoDevice, FiniteSetTheorems, SequenceTheorems, TLAPS

-----------------------------------------------------------------------------
(* Counting messages in a ring. *)

(* The places of a message in a finite ring are finitely many. *)
LEMMA PlacesFinite ==
  ASSUME NEW S, NEW s \in Seq(S), NEW m
  PROVE  IsFiniteSet(Places(s, m)) /\ Cardinality(Places(s, m)) \in Nat
  <1>1. Places(s, m) \in SUBSET (1 .. Len(s))
    BY LenProperties DEF Places
  <1>2. IsFiniteSet(1 .. Len(s))
    BY LenProperties, FS_Interval
  <1> QED
    BY <1>1, <1>2, FS_Subset, FS_CardinalityType

(* Sending e adds one place to those of e, and none to the others. *)
LEMMA PlacesAppend ==
  ASSUME NEW S, NEW s \in Seq(S), NEW e \in S, NEW m
  PROVE  Cardinality(Places(Append(s, e), m)) =
           IF e = m THEN Cardinality(Places(s, m)) + 1 ELSE Cardinality(Places(s, m))
  <1>1. /\ DOMAIN s = 1 .. Len(s) /\ Len(s) \in Nat
        /\ DOMAIN Append(s, e) = 1 .. Len(s) + 1
        /\ Append(s, e)[Len(s) + 1] = e
        /\ \A k \in 1 .. Len(s) : Append(s, e)[k] = s[k]
    BY LenProperties
  <1>2. CASE e = m
    <2>1. Places(Append(s, e), m) = Places(s, m) \cup {Len(s) + 1}
      BY <1>1, <1>2 DEF Places
    <2>2. Len(s) + 1 \notin Places(s, m)
      BY <1>1 DEF Places
    <2> QED
      BY <1>2, <2>1, <2>2, PlacesFinite, FS_AddElement
  <1>3. CASE e # m
    <2>1. Places(Append(s, e), m) = Places(s, m)
      BY <1>1, <1>3 DEF Places
    <2> QED
      BY <1>3, <2>1
  <1> QED
    BY <1>2, <1>3

(* Taking the head off removes one place of the head, and none of the others. *)
LEMMA PlacesTail ==
  ASSUME NEW S, NEW s \in Seq(S), s # <<>>, NEW m
  PROVE  Cardinality(Places(Tail(s), m)) =
           IF Head(s) = m THEN Cardinality(Places(s, m)) - 1 ELSE Cardinality(Places(s, m))
  <1> DEFINE A == Places(Tail(s), m)
             B == Places(s, m) \ {1}
             f == [k \in A |-> k + 1]
  <1>1. /\ Len(s) \in Nat \ {0} /\ DOMAIN s = 1 .. Len(s) /\ Head(s) = s[1]
        /\ Tail(s) \in Seq(S) /\ DOMAIN Tail(s) = 1 .. Len(s) - 1
        /\ \A k \in 1 .. Len(s) - 1 : Tail(s)[k] = s[k + 1]
    BY LenProperties, HeadTailProperties, EmptySeq
  <1>2. f \in Bijection(A, B)
    <2>1. f \in [A -> B]
      BY <1>1 DEF Places
    <2>2. \A j, k \in A : f[j] = f[k] => j = k
      BY <1>1 DEF Places
    <2>3. \A b \in B : \E k \in A : f[k] = b
      <3> TAKE b \in B
      <3>1. b - 1 \in A
        BY <1>1 DEF Places
      <3>2. f[b - 1] = b
        BY <1>1, <3>1 DEF Places
      <3> QED
        BY <3>1, <3>2
    <2> QED
      BY <2>1, <2>2, <2>3 DEF Bijection, Injection, Surjection, IsInjective
  <1>3. IsFiniteSet(A)
    BY <1>1, PlacesFinite
  <1>4. Cardinality(A) = Cardinality(B)
    BY <1>2, <1>3, FS_Bijection DEF ExistsBijection
  <1>5. 1 \in Places(s, m) <=> Head(s) = m
    BY <1>1 DEF Places
  <1> QED
    BY <1>4, <1>5, PlacesFinite, FS_RemoveElement

-----------------------------------------------------------------------------
(* The rings: what taking a message off and sending one does to them. *)

Rings == [Threads -> Seq(Msg)]
Count(q, t, m) == Cardinality(Places(q[t], m))

(* The handled message is a message, and the ring without it is a ring. *)
LEMMA PopEffect ==
  ASSUME TypeOK, NEW t \in Threads, messages[t] # <<>>
  PROVE  /\ Head(messages[t]) \in Msg
         /\ Pop(t) \in Rings
         /\ \A u \in Threads : \A m : Count(Pop(t), u, m) =
              IF u = t /\ m = Head(messages[t]) THEN Count(messages, u, m) - 1
              ELSE Count(messages, u, m)
  <1>1. messages \in Rings /\ messages[t] \in Seq(Msg)
    BY DEF TypeOK, Rings
  <1>2. Head(messages[t]) \in Msg /\ Tail(messages[t]) \in Seq(Msg)
    BY <1>1, HeadTailProperties
  <1>3. Pop(t) \in Rings
    BY <1>1, <1>2 DEF Pop, Rings
  <1>4. ASSUME NEW u \in Threads, NEW m
        PROVE  Count(Pop(t), u, m) =
                 IF u = t /\ m = Head(messages[t]) THEN Count(messages, u, m) - 1
                 ELSE Count(messages, u, m)
    <2>1. CASE u = t
      BY <1>1, <2>1, PlacesTail DEF Pop, Rings, Count
    <2>2. CASE u # t
      BY <1>1, <2>2 DEF Pop, Rings, Count
    <2> QED
      BY <2>1, <2>2
  <1> QED
    BY <1>2, <1>3, <1>4

(* A send adds the message to one ring, or finds the target exited. *)
LEMMA SendEffect ==
  ASSUME TypeOK, NEW q \in Rings, NEW to \in Threads, NEW m \in Msg,
         spdk_thread_send_msg(q, to, m)
  PROVE  /\ messages' \in Rings
         /\ fault' \in Fault
         /\ \A u \in Threads : \A x : x # m => Count(messages', u, x) = Count(q, u, x)
         /\ \A u \in Threads : u # to => Count(messages', u, m) = Count(q, u, m)
         /\ fault' = fault \/ state[to] = "EXITED"
         /\ state[to] # "EXITED" =>
              fault' = fault /\ Count(messages', to, m) = Count(q, to, m) + 1
  <1>1. CASE state[to] = "EXITED"
    BY <1>1 DEF spdk_thread_send_msg, TypeOK, Fault
  <1>2. CASE state[to] # "EXITED"
    <2>1. messages' = [q EXCEPT ![to] = Append(q[to], m)] /\ fault' = fault
      BY <1>2 DEF spdk_thread_send_msg
    <2>2. q[to] \in Seq(Msg) /\ Append(q[to], m) \in Seq(Msg)
      BY DEF Rings
    <2>3. messages' \in Rings /\ messages'[to] = Append(q[to], m)
      BY <2>1, <2>2 DEF Rings
    <2>4. \A u \in Threads : u # to => messages'[u] = q[u]
      BY <2>1 DEF Rings
    <2>5. \A x : Count(messages', to, x) =
                   IF x = m THEN Count(q, to, x) + 1 ELSE Count(q, to, x)
      BY <2>2, <2>3, PlacesAppend DEF Count
    <2> QED
      BY <1>2, <2>1, <2>3, <2>4, <2>5 DEF Count, TypeOK
  <1> QED
    BY <1>1, <1>2

-----------------------------------------------------------------------------
(* The inductive invariant. *)

PutMsg(d) == [fn |-> "put_io_channel", arg |-> d]
FinishMsg(d) == [fn |-> "_finish_unregister", arg |-> d]

(* A channel whose create_cb runs has its one reference; one whose destroy_cb
   runs is in no tree. *)
PointsOK ==
  \A t \in Threads :
    /\ at[t].pt = "create_cb" =>
         t \in io_channels[at[t].dev] /\ destroy_ref[t][at[t].dev] = 0
    /\ at[t].pt = "destroy_cb" => t \notin io_channels[at[t].dev]

(* destroy_ref counts the messages, and only a channel in the tree has some. *)
PutsOK ==
  \A t \in Threads, d \in Devs :
    /\ destroy_ref[t][d] = Count(messages, t, PutMsg(d))
    /\ destroy_ref[t][d] > 0 => t \in io_channels[d]

(* The device has been freed, or somebody is about to. *)
Closing(d) ==
  \/ life[d] = "freed"
  \/ \E t \in Threads : at[t] = [pt |-> "io_device_free", dev |-> d]
  \/ \E t \in Threads : Count(messages, t, FinishMsg(d)) > 0

(* Nobody is about to free a device that is registered or held. *)
ClosedOK ==
  \A d \in Devs :
    /\ d \in unregistered => d \notin g_io_devices /\ life[d] # "unused"
    /\ d \in g_io_devices => life[d] # "unused"
    /\ Closing(d) => d \in unregistered /\ Holders(d) = {}

(* A device somebody unregistered knows the thread to tell. *)
ThreadKnown ==
  \A d \in unregistered \cup pending_unregister : unregister_thread[d] \in Threads

IndInv == TypeOK /\ RefcntCountsHolders /\ PointsOK /\ PutsOK /\ ClosedOK /\ ThreadKnown

(* What the type of the state says of the handled message and of the point. *)
LEMMA Typing ==
  ASSUME TypeOK, NEW t \in Threads
  PROVE  /\ At(t, "create_cb") \/ At(t, "destroy_cb") \/ At(t, "io_device_free")
             \/ At(t, "recheck") => at[t].dev \in Devs
         /\ At(t, "complete") => at[t].iter \in Iters
         /\ \A fn \in {"put_io_channel", "_finish_unregister", "__pending_unregister"} :
              Handles(t, fn) => Arg(t) \in Devs /\ Head(messages[t]) = [fn |-> fn, arg |-> Arg(t)]
         /\ \A fn \in {"_call_channel", "_call_completion"} :
              Handles(t, fn) => Arg(t) \in Iters /\ Head(messages[t]) = [fn |-> fn, arg |-> Arg(t)]
  <1>1. at[t] \in Point
    BY DEF TypeOK
  <1>2. messages[t] # <<>> => Head(messages[t]) \in Msg
    BY PopEffect
  <1> QED
    BY <1>1, <1>2 DEF At, Handles, Arg, Point, Idle, Msg

(* The places of a thread's state are finite sets. *)
LEMMA HoldersFinite ==
  ASSUME NEW d
  PROVE  IsFiniteSet(Holders(d)) /\ Cardinality(Holders(d)) \in Nat
  BY ThreadsAssumption, FS_Subset, FS_CardinalityType DEF Holders

(* The number of holders of a device is a natural number. *)
LEMMA CountNat ==
  ASSUME NEW q \in Rings, NEW t \in Threads, NEW m
  PROVE  Count(q, t, m) \in Nat
  BY PlacesFinite DEF Rings, Count

(* Initially. *)
LEMMA InitInd == Init => IndInv
  <1> SUFFICES ASSUME Init PROVE IndInv
    OBVIOUS
  <1>1. TypeOK
    BY DevsAssumption, ThreadsAssumption, MaxRefAssumption
    DEF Init, TypeOK, Iter, Point, Idle, Fault
  <1>2. \A d \in Devs : Holders(d) = {}
    BY DEF Init, Holders, Idle
  <1>3. \A t \in Threads : \A m : Count(messages, t, m) = 0
    BY FS_EmptySet DEF Init, Count, Places
  <1>4. RefcntCountsHolders
    BY <1>2, FS_EmptySet DEF Init, RefcntCountsHolders
  <1>5. PointsOK /\ PutsOK
    BY <1>3 DEF Init, PointsOK, PutsOK, Idle
  <1>6. ClosedOK
    <2>1. \A d \in Devs : ~Closing(d)
      <3>1. \A t \in Threads : at[t].pt = "idle"
        BY DEF Init, Idle
      <3> QED
        BY <1>3, <3>1 DEF Init, Closing
    <2> QED
      BY <2>1 DEF ClosedOK, Init
  <1>7. ThreadKnown
    BY DEF Init, ThreadKnown
  <1> QED
    BY <1>1, <1>4, <1>5, <1>6, <1>7 DEF IndInv

-----------------------------------------------------------------------------
(* What a step leaves alone. *)

Destroying(t, d) == at[t] = [pt |-> "destroy_cb", dev |-> d]

(* Steps that neither make nor drop a channel, a put message or a reference. *)
LEMMA ChannelsKept ==
  ASSUME IndInv, TypeOK',
         \A t \in Threads, d \in Devs :
            /\ Destroying(t, d)' <=> Destroying(t, d)
            /\ Count(messages', t, PutMsg(d)) = Count(messages, t, PutMsg(d)),
         UNCHANGED <<io_channels, destroy_ref, refcnt>>,
         \A t \in Threads : at'[t].pt = "create_cb" => at'[t] = at[t]
  PROVE  /\ RefcntCountsHolders' /\ PointsOK' /\ PutsOK'
         /\ \A d \in Devs : Holders(d)' = Holders(d)
  <1>1. \A d \in Devs : Holders(d)' = Holders(d)
    BY DEF Holders, Destroying
  <1>2. RefcntCountsHolders'
    BY <1>1 DEF IndInv, RefcntCountsHolders
  <1>3. PointsOK'
    <2> SUFFICES ASSUME NEW t \in Threads
                 PROVE  /\ at'[t].pt = "create_cb" =>
                            t \in io_channels[at'[t].dev] /\ destroy_ref[t][at'[t].dev] = 0
                        /\ at'[t].pt = "destroy_cb" => t \notin io_channels[at'[t].dev]
      BY DEF PointsOK
    <2>1. at'[t] \in Point
      BY DEF TypeOK
    <2>2. CASE at'[t].pt = "create_cb"
      BY <2>2 DEF IndInv, PointsOK
    <2>3. CASE at'[t].pt = "destroy_cb"
      <3>1. at'[t].dev \in Devs /\ Destroying(t, at[t].dev)'
        BY <2>1, <2>3 DEF Point, Idle, Destroying
      <3>2. Destroying(t, at'[t].dev)
        BY <3>1 DEF Destroying
      <3> QED
        BY <2>3, <3>1, <3>2 DEF IndInv, PointsOK, Destroying
    <2> QED
      BY <2>2, <2>3
  <1>4. PutsOK'
    BY DEF IndInv, PutsOK
  <1> QED
    BY <1>1, <1>2, <1>3, <1>4

(* Steps that bring no device nearer to being freed. *)
LEMMA ClosedKept ==
  ASSUME IndInv, UNCHANGED <<unregistered, g_io_devices, life>>,
         messages' \in Rings,
         \A d \in Devs : Holders(d)' \subseteq Holders(d),
         \A t \in Threads, d \in Devs :
            Count(messages', t, FinishMsg(d)) <= Count(messages, t, FinishMsg(d)),
         \A t \in Threads : at'[t].pt = "io_device_free" => at'[t] = at[t]
  PROVE  ClosedOK'
  <1>1. \A d \in Devs : Closing(d)' => Closing(d)
    <2>1. \A t \in Threads, d \in Devs :
            Count(messages', t, FinishMsg(d)) \in Nat /\ Count(messages, t, FinishMsg(d)) \in Nat
      BY CountNat DEF IndInv, TypeOK, Rings
    <2> QED
      BY <2>1 DEF Closing
  <1> QED
    BY <1>1 DEF IndInv, ClosedOK

(* Steps that touch neither channels nor the life of a device, and send no
   message about them. *)
DevicesKept ==
  UNCHANGED <<io_channels, destroy_ref, refcnt, unregistered, g_io_devices, life,
              pending_unregister, unregister_thread>>

MailKept(q) ==
  \A t \in Threads, d \in Devs :
    /\ Count(q, t, PutMsg(d)) = Count(messages, t, PutMsg(d))
    /\ Count(q, t, FinishMsg(d)) = Count(messages, t, FinishMsg(d))

PointsKept ==
  \A t \in Threads :
    \/ at'[t] = at[t]
    \/ at[t].pt # "destroy_cb" /\ at'[t].pt \notin {"create_cb", "destroy_cb", "io_device_free"}

(* Steps that change neither the channels, the devices nor the messages about
   them keep the invariant. *)
LEMMA Frame ==
  ASSUME IndInv, TypeOK', DevicesKept, MailKept(messages'), PointsKept
  PROVE  IndInv'
  <1> USE DEF DevicesKept, MailKept, PointsKept
  <1>1. \A t \in Threads, d \in Devs : Destroying(t, d)' <=> Destroying(t, d)
    BY DEF Destroying
  <1>2. \A t \in Threads : at'[t].pt \in {"create_cb", "io_device_free"} => at'[t] = at[t]
    OBVIOUS
  <1>3. /\ RefcntCountsHolders' /\ PointsOK' /\ PutsOK'
        /\ \A d \in Devs : Holders(d)' = Holders(d)
    BY <1>1, <1>2, ChannelsKept
  <1>4. \A t \in Threads, d \in Devs : Count(messages, t, FinishMsg(d)) \in Nat
    BY CountNat DEF IndInv, TypeOK, Rings
  <1>5. ClosedOK'
    BY <1>2, <1>3, <1>4, ClosedKept DEF TypeOK, Rings
  <1>6. ThreadKnown'
    BY DEF IndInv, ThreadKnown
  <1> QED
    BY <1>3, <1>5, <1>6 DEF IndInv

-----------------------------------------------------------------------------
(* The steps, one lemma for each action that the invariant is about. *)

(* Registering a device. *)
LEMMA RegisterInd ==
  ASSUME IndInv, NEW t \in Threads, NEW d \in Devs, spdk_io_device_register(t, d)
  PROVE  IndInv'
  <1> USE DEF spdk_io_device_register, refVars, chVars, flagVars, thrVars
  <1>1. TypeOK'
    BY DEF IndInv, TypeOK
  <1>2. /\ RefcntCountsHolders' /\ PointsOK' /\ PutsOK'
        /\ \A e \in Devs : Holders(e)' = Holders(e)
    BY <1>1, ChannelsKept DEF Destroying
  <1>3. ClosedOK'
    <2>1. \A e \in Devs : Closing(e)' => Closing(e)
      BY DEF IndInv, TypeOK, Closing
    <2>2. d \notin unregistered
      BY DEF IndInv, ClosedOK
    <2>3. /\ \A e \in Devs : e # d => life'[e] = life[e]
          /\ life'[d] = "live" /\ g_io_devices' = {d} /\ unregistered' = unregistered
      BY DEF IndInv, TypeOK
    <2> QED
      BY ONLY IndInv, <1>2, <2>1, <2>2, <2>3 DEF IndInv, ClosedOK
  <1>4. ThreadKnown'
    BY DEF IndInv, ThreadKnown
  <1> QED
    BY <1>1, <1>2, <1>3, <1>4 DEF IndInv

(* Unregistering one, from rings that lost no message about channels. *)
LEMMA UnregisterInd ==
  ASSUME IndInv, NEW t \in Threads, NEW d \in Devs, NEW cb \in BOOLEAN,
         Runs(t), d \in g_io_devices, Unregister(t, d, cb), fault' \in Fault, messages' \in Rings,
         MailKept(messages')
  PROVE  IndInv'
  <1> USE DEF MailKept
  <1> DEFINE p == [pt |-> "io_device_free", dev |-> d]
  <1>1. at' = at \/ (at' = [at EXCEPT ![t] = p] /\ ~Iterated(d) /\ refcnt[d] = 0)
    BY DEF Unregister, IndInv, TypeOK
  <1>2. p \in Point
    BY DEF Point
  <1>3. TypeOK'
    <2>1. at' \in [Threads -> Point]
      BY <1>1, <1>2 DEF IndInv, TypeOK
    <2>2. pending_unregister_count' \in [Threads -> Int]
      BY DEF IndInv, TypeOK, Unregister
    <2>3. unregister_cb' \subseteq Devs /\ unregister_thread' \in [Devs -> Threads \cup {NoThread}]
      BY DEF IndInv, TypeOK, Unregister
    <2>4. /\ g_io_devices' \subseteq Devs /\ unregistered' \subseteq Devs
          /\ pending_unregister' \subseteq Devs
      BY DEF IndInv, TypeOK, Unregister
    <2> QED
      BY <2>1, <2>2, <2>3, <2>4 DEF IndInv, TypeOK, Rings, Unregister, refVars, chVars
  <1>4. at[t].pt = "idle" /\ p.pt = "io_device_free"
    BY DEF Runs, At
  <1> HIDE DEF p
  <1>5. \A u \in Threads : at'[u] = at[u] \/ (u = t /\ at'[u] = p)
    BY <1>1 DEF IndInv, TypeOK
  <1>6. /\ RefcntCountsHolders' /\ PointsOK' /\ PutsOK'
        /\ \A e \in Devs : Holders(e)' = Holders(e)
    <2>1. UNCHANGED <<io_channels, destroy_ref, refcnt>>
      BY DEF Unregister, refVars, chVars
    <2> QED
      BY <1>3, <1>4, <1>5, <2>1, ChannelsKept DEF Destroying
  <1>7. ClosedOK'
    <2>1. CASE Iterated(d)
      <3>1. UNCHANGED <<at, unregistered, g_io_devices, life>>
        BY <2>1 DEF Unregister
      <3>2. \A e \in Devs : Closing(e)' => Closing(e)
        BY <3>1 DEF Closing
      <3> QED
        BY <1>6, <3>1, <3>2 DEF IndInv, ClosedOK
    <2>2. CASE ~Iterated(d)
      <3>1. /\ unregistered' = unregistered \cup {d} /\ g_io_devices' = g_io_devices \ {d}
            /\ life' = life
        BY <2>2 DEF Unregister
      <3>2. \A e \in Devs : Closing(e)' => Closing(e) \/ (e = d /\ refcnt[d] = 0)
        BY <1>1, <1>5, <3>1 DEF Closing, p
      <3>3. refcnt[d] = 0 => Holders(d) = {}
        BY HoldersFinite, FS_EmptySet DEF IndInv, RefcntCountsHolders
      <3> QED
        BY <1>6, <3>1, <3>2, <3>3 DEF IndInv, ClosedOK
    <2> QED
      BY <2>1, <2>2
  <1>8. ThreadKnown'
    <2>1. unregister_thread' = [unregister_thread EXCEPT ![d] = t]
      BY DEF Unregister
    <2>2. /\ unregistered' \subseteq unregistered \cup {d}
          /\ pending_unregister' \subseteq pending_unregister \cup {d}
      BY DEF Unregister
    <2> QED
      BY <2>1, <2>2 DEF IndInv, TypeOK, ThreadKnown
  <1> QED
    BY <1>3, <1>6, <1>7, <1>8 DEF IndInv

(* The user's call, and the deferred one. *)
LEMMA UserUnregisterInd ==
  ASSUME IndInv, NEW t \in Threads, NEW d \in Devs, NEW cb \in BOOLEAN,
         spdk_io_device_unregister(t, d, cb)
  PROVE  IndInv'
  <1>1. Runs(t) /\ d \in g_io_devices /\ Unregister(t, d, cb) /\ UNCHANGED <<messages, fault>>
    BY DEF spdk_io_device_unregister, Quiet
  <1> QED
    BY <1>1, UnregisterInd DEF IndInv, TypeOK, Rings, MailKept

(* Taking a message off that is about neither a channel nor a free. *)
LEMMA PopOther ==
  ASSUME TypeOK, NEW t \in Threads, messages[t] # <<>>,
         Head(messages[t]).fn \notin {"put_io_channel", "_finish_unregister"}
  PROVE  Pop(t) \in Rings /\ MailKept(Pop(t))
  <1>1. \A e \in Devs : Head(messages[t]) # PutMsg(e) /\ Head(messages[t]) # FinishMsg(e)
    BY DEF PutMsg, FinishMsg
  <1> QED
    BY <1>1, PopEffect DEF MailKept

(* The unregister that waited for the iterations runs as a message. *)
LEMMA DeferredUnregisterInd ==
  ASSUME IndInv, NEW t \in Threads, __pending_unregister(t)
  PROVE  IndInv'
  <1> DEFINE d == Arg(t)
  <1>1. Handles(t, "__pending_unregister") /\ d \in Devs
    BY Typing DEF IndInv, __pending_unregister
  <1>2. Pop(t) \in Rings /\ MailKept(Pop(t))
    BY <1>1, PopOther DEF Handles, IndInv
  <1>3. \/ \E why \in Fault : Fail(why, Pop(t)) /\ UNCHANGED <<devVars, chVars, iter, thrVars, at>>
        \/ \E e \in g_io_devices : Unregister(t, e, d \in unregister_cb) /\ Quiet(Pop(t))
    BY DEF __pending_unregister, Fault
  <1>4. CASE \E why \in Fault : Fail(why, Pop(t)) /\ UNCHANGED <<devVars, chVars, iter, thrVars, at>>
    <2>1. messages' = Pop(t) /\ fault' \in Fault
      BY <1>4 DEF Fail
    <2>2. UNCHANGED <<devVars, chVars, iter, thrVars, at>>
      BY <1>4
    <2>3. TypeOK'
      BY <1>2, <2>1, <2>2 DEF IndInv, TypeOK, devVars, lifeVars, flagVars, refVars, chVars, thrVars, Rings
    <2>4. DevicesKept /\ PointsKept
      BY <2>2 DEF DevicesKept, PointsKept, devVars, lifeVars, flagVars, refVars, chVars
    <2> QED
      BY <1>2, <2>1, <2>3, <2>4, Frame
  <1>5. ASSUME NEW e \in g_io_devices, Unregister(t, e, d \in unregister_cb), Quiet(Pop(t))
        PROVE  IndInv'
    <2>1. messages' = Pop(t) /\ fault' \in Fault /\ e \in Devs /\ Runs(t)
      BY <1>1, <1>5 DEF Quiet, IndInv, TypeOK, Handles
    <2>2. Unregister(t, e, TRUE) \/ Unregister(t, e, FALSE)
      BY <1>5 DEF Unregister
    <2>3. CASE Unregister(t, e, TRUE)
      BY ONLY IndInv, <1>2, <2>1, <2>3, UnregisterInd
    <2>4. CASE Unregister(t, e, FALSE)
      BY ONLY IndInv, <1>2, <2>1, <2>4, UnregisterInd
    <2> QED
      BY <2>2, <2>3, <2>4
  <1> QED
    BY <1>3, <1>4, <1>5

(* Steps that send no message about a free keep what is known of a freed device. *)
LEMMA ClosedStep ==
  ASSUME IndInv, UNCHANGED <<unregistered, g_io_devices>>,
         \A e \in Devs : life'[e] = "unused" => life[e] = "unused",
         \A e \in Devs : Holders(e)' \subseteq Holders(e),
         \A e \in Devs : Closing(e)' => Closing(e)
  PROVE  ClosedOK'
  BY DEF IndInv, ClosedOK

(* Freeing the struct, or sending unregister_cb to its thread. *)
LEMMA FreeInd ==
  ASSUME IndInv, NEW t \in Threads, io_device_free(t)
  PROVE  IndInv'
  <1> DEFINE d == at[t].dev
             m == FinishMsg(d)
  <1>1. /\ At(t, "io_device_free") /\ d \in Devs /\ at[t] = [pt |-> "io_device_free", dev |-> d]
        /\ at' = [at EXCEPT ![t] = Idle]
    <2>1. at[t] \in Point /\ at[t].pt = "io_device_free" /\ at' = [at EXCEPT ![t] = Idle]
      BY DEF IndInv, TypeOK, io_device_free, At, Goto
    <2> QED
      BY <2>1 DEF Point, Idle, At, io_device_free
  <1>2. Closing(d) /\ d \in unregistered /\ life[d] # "unused" /\ unregister_thread[d] \in Threads
    BY <1>1 DEF Closing, IndInv, ClosedOK, ThreadKnown
  <1>3. UNCHANGED <<g_io_devices, flagVars, for_each_count, refVars, chVars, iter, thrVars>>
    BY DEF io_device_free
  <1>4. m \in Msg /\ messages \in Rings
    BY <1>1 DEF Msg, FinishMsg, Rings, IndInv, TypeOK
  <1>5. \/ life' = [life EXCEPT ![d] = "freed"] /\ UNCHANGED <<messages, fault>>
        \/ life' = life /\ spdk_thread_send_msg(messages, unregister_thread[d], m)
    BY DEF io_device_free, Quiet, FinishMsg
  <1> HIDE DEF d, m
  <1>6. /\ messages' \in Rings /\ fault' \in Fault
        /\ \A u \in Threads : \A x : x # m => Count(messages', u, x) = Count(messages, u, x)
    BY <1>2, <1>4, <1>5, SendEffect DEF IndInv, TypeOK
  <1>7. \A u \in Threads : at'[u] = at[u] \/ (u = t /\ at'[u] = Idle)
    BY <1>1 DEF IndInv, TypeOK
  <1>8. TypeOK'
    <2>1. at' \in [Threads -> Point]
      BY <1>1 DEF IndInv, TypeOK, Point
    <2>2. life' \in [Devs -> {"unused", "live", "freed"}]
      BY <1>5 DEF IndInv, TypeOK
    <2> QED
      BY <1>3, <1>6, <2>1, <2>2 DEF IndInv, TypeOK, flagVars, refVars, chVars, thrVars, Rings
  <1>9. /\ RefcntCountsHolders' /\ PointsOK' /\ PutsOK'
        /\ \A e \in Devs : Holders(e)' = Holders(e)
    <2>1. \A u \in Threads, e \in Devs : Destroying(u, e)' <=> Destroying(u, e)
      BY <1>1, <1>7 DEF Destroying, Idle, At
    <2>2. \A e \in Devs : PutMsg(e) # m
      BY DEF PutMsg, FinishMsg, m
    <2>3. UNCHANGED <<io_channels, destroy_ref, refcnt>>
      BY <1>3 DEF refVars, chVars
    <2>4. \A u \in Threads : at'[u].pt = "create_cb" => at'[u] = at[u]
      BY <1>7 DEF Idle
    <2> QED
      BY ONLY IndInv, <1>6, <1>8, <2>1, <2>2, <2>3, <2>4, ChannelsKept
  <1>10. ClosedOK'
    <2>1. UNCHANGED <<unregistered, g_io_devices>>
      BY <1>3 DEF flagVars
    <2>2. \A e \in Devs : life'[e] = life[e] \/ (e = d /\ life'[e] = "freed")
      BY <1>5 DEF IndInv, TypeOK
    <2>3. \A e \in Devs : e # d => FinishMsg(e) # m
      BY DEF FinishMsg, m
    <2>4. \A u \in Threads, e \in Devs :
            at'[u] = [pt |-> "io_device_free", dev |-> e] => at[u] = at'[u]
      BY <1>7 DEF Idle
    <2>5. \A e \in Devs : Closing(e)' => Closing(e)
      BY <1>2, <1>6, <2>2, <2>3, <2>4 DEF Closing
    <2> QED
      BY ONLY IndInv, <1>2, <1>9, <2>1, <2>2, <2>5, ClosedStep
  <1>11. ThreadKnown'
    BY <1>3 DEF flagVars, IndInv, ThreadKnown
  <1> QED
    BY <1>8, <1>9, <1>10, <1>11 DEF IndInv

(* unregister_cb has run. *)
LEMMA FinishInd ==
  ASSUME IndInv, NEW t \in Threads, _finish_unregister(t)
  PROVE  IndInv'
  <1> DEFINE d == Arg(t)
  <1>1. Handles(t, "_finish_unregister") /\ d \in Devs /\ Head(messages[t]) = FinishMsg(d)
    BY Typing DEF IndInv, _finish_unregister, FinishMsg
  <1>2. /\ life' = [life EXCEPT ![d] = "freed"] /\ messages' = Pop(t)
        /\ pending_unregister_count' \in [Threads -> Int]
        /\ UNCHANGED <<g_io_devices, flagVars, for_each_count, refVars, chVars, iter, state,
                       thr_for_each_count, at, fault>>
    BY DEF _finish_unregister, Quiet, IndInv, TypeOK
  <1>3. /\ Pop(t) \in Rings
        /\ \A u \in Threads : \A x : Count(Pop(t), u, x) =
              IF u = t /\ x = FinishMsg(d) THEN Count(messages, u, x) - 1 ELSE Count(messages, u, x)
    BY <1>1, PopEffect DEF Handles, IndInv
  <1>4. Closing(d) /\ d \in unregistered /\ life[d] # "unused"
    <2>1. Count(messages, t, FinishMsg(d)) \in Nat /\ Count(Pop(t), t, FinishMsg(d)) \in Nat
      BY <1>3, CountNat DEF IndInv, TypeOK, Rings
    <2>2. Count(messages, t, FinishMsg(d)) > 0
      BY <1>3, <2>1
    <2> QED
      BY <1>1, <2>2 DEF Closing, IndInv, ClosedOK
  <1> HIDE DEF d
  <1>5. TypeOK'
    <2>1. life' \in [Devs -> {"unused", "live", "freed"}]
      BY <1>2 DEF IndInv, TypeOK
    <2> QED
      BY <1>2, <1>3, <2>1 DEF IndInv, TypeOK, flagVars, refVars, chVars, Rings
  <1>6. UNCHANGED <<io_channels, destroy_ref, refcnt, unregistered, g_io_devices,
                    pending_unregister, unregister_thread, at>>
    BY <1>2 DEF flagVars, refVars, chVars
  <1>7. /\ RefcntCountsHolders' /\ PointsOK' /\ PutsOK'
        /\ \A e \in Devs : Holders(e)' = Holders(e)
    <2>1. \A e \in Devs : PutMsg(e) # FinishMsg(d)
      BY DEF PutMsg, FinishMsg
    <2>2. \A u \in Threads, e \in Devs : Count(messages', u, PutMsg(e)) = Count(messages, u, PutMsg(e))
      BY <1>2, <1>3, <2>1
    <2> QED
      BY ONLY IndInv, <1>5, <1>6, <2>2, ChannelsKept DEF Destroying
  <1>8. ClosedOK'
    <2>1. \A e \in Devs : life'[e] = life[e] \/ (e = d /\ life'[e] = "freed")
      BY <1>2 DEF IndInv, TypeOK
    <2>2. \A e \in Devs : e # d => FinishMsg(e) # FinishMsg(d)
      BY DEF FinishMsg
    <2>3. \A e \in Devs, u \in Threads :
            e # d => Count(messages', u, FinishMsg(e)) = Count(messages, u, FinishMsg(e))
      BY <1>2, <1>3, <2>2
    <2>4. \A e \in Devs : Closing(e)' => Closing(e)
      BY <1>4, <1>6, <2>1, <2>3 DEF Closing
    <2> QED
      BY ONLY IndInv, <1>4, <1>6, <1>7, <2>1, <2>4, ClosedStep
  <1>9. ThreadKnown'
    BY <1>6 DEF IndInv, ThreadKnown
  <1> QED
    BY <1>5, <1>7, <1>8, <1>9 DEF IndInv

(* Steps that keep devices and rings: a further reference, a create_cb that
   succeeds, and the three steps of thread exit. *)
LEMMA RefInd ==
  ASSUME IndInv, NEW t \in Threads, NEW d \in Devs,
         GetExisting(t, d) \/ spdk_io_channel_ref(t, d)
  PROVE  IndInv'
  <1>1. /\ ref[t][d] + destroy_ref[t][d] < MaxRef
        /\ ref' = [ref EXCEPT ![t][d] = @ + 1]
        /\ UNCHANGED <<devVars, io_channels, destroy_ref, iter, thrVars, messages, at, fault>>
    BY DEF GetExisting, spdk_io_channel_ref
  <1>2. ref' \in [Threads -> [Devs -> 0 .. MaxRef]]
    <2>1. ref[t][d] \in Nat /\ destroy_ref[t][d] \in Nat /\ ref[t][d] + 1 \in 0 .. MaxRef
      BY <1>1, MaxRefAssumption DEF IndInv, TypeOK
    <2> QED
      BY <1>1, <2>1 DEF IndInv, TypeOK
  <1>3. TypeOK'
    BY <1>1, <1>2 DEF IndInv, TypeOK, devVars, lifeVars, flagVars, refVars, thrVars
  <1>4. DevicesKept /\ MailKept(messages') /\ PointsKept
    BY <1>1 DEF DevicesKept, MailKept, PointsKept, devVars, lifeVars, flagVars, refVars
  <1> QED
    BY <1>3, <1>4, Frame

(* create_cb succeeds, or a thread takes a step of its exit. *)
LEMMA PointInd ==
  ASSUME IndInv, NEW t \in Threads,
         CreateSucceeds(t) \/ ExitChecks(t) \/ ExitMarks(t) \/ spdk_thread_exit(t)
  PROVE  IndInv'
  <1>1. /\ at[t].pt # "destroy_cb"
        /\ at' = at \/ at' = [at EXCEPT ![t] = Idle] \/ at' = [at EXCEPT ![t] = [pt |-> "exited"]]
        /\ state' \in [Threads -> {"RUNNING", "EXITING", "EXITED"}]
        /\ UNCHANGED <<devVars, chVars, iter, pending_unregister_count, thr_for_each_count,
                       messages, fault>>
    <2>1. CASE CreateSucceeds(t)
      BY <2>1 DEF CreateSucceeds, At, Goto, thrVars, IndInv, TypeOK
    <2>2. CASE ExitChecks(t)
      BY <2>2 DEF ExitChecks, Runs, At, Goto, thrVars, IndInv, TypeOK
    <2>3. CASE ExitMarks(t)
      BY <2>3 DEF ExitMarks, At, Goto, thrVars, IndInv, TypeOK
    <2>4. CASE spdk_thread_exit(t)
      BY <2>4 DEF spdk_thread_exit, Runs, At, thrVars, IndInv, TypeOK
    <2> QED
      BY <2>1, <2>2, <2>3, <2>4
  <1>2. at' \in [Threads -> Point] /\ PointsKept
    <2>1. \A p \in {Idle, [pt |-> "exited"]} : p \in Point /\ p.pt \in {"idle", "exited"}
      BY DEF Idle, Point
    <2>2. at \in [Threads -> Point]
      BY DEF IndInv, TypeOK
    <2>3. at' = at \/ \E p \in {Idle, [pt |-> "exited"]} : at' = [at EXCEPT ![t] = p]
      BY <1>1
    <2> QED
      BY <1>1, <2>1, <2>2, <2>3 DEF PointsKept
  <1>3. TypeOK'
    BY <1>1, <1>2 DEF IndInv, TypeOK, devVars, lifeVars, flagVars, refVars, chVars
  <1>4. DevicesKept /\ MailKept(messages')
    BY <1>1 DEF DevicesKept, MailKept, devVars, lifeVars, flagVars, refVars, chVars
  <1> QED
    BY <1>2, <1>3, <1>4, Frame

-----------------------------------------------------------------------------
(* Iterations. *)

(* Sending a message that is about neither a channel nor a free. *)
LEMMA SendOther ==
  ASSUME TypeOK, NEW q \in Rings, MailKept(q), NEW to \in Threads, NEW m \in Msg,
         m.fn \notin {"put_io_channel", "_finish_unregister"},
         spdk_thread_send_msg(q, to, m)
  PROVE  messages' \in Rings /\ fault' \in Fault /\ MailKept(messages')
  <1>1. \A e \in Devs : m # PutMsg(e) /\ m # FinishMsg(e)
    BY DEF PutMsg, FinishMsg
  <1>2. /\ messages' \in Rings /\ fault' \in Fault
        /\ \A u \in Threads : \A x : x # m => Count(messages', u, x) = Count(q, u, x)
    BY SendEffect
  <1> QED
    BY <1>1, <1>2 DEF MailKept

(* Steps that only concern iterations. *)
LEMMA IterFrame ==
  ASSUME IndInv, UNCHANGED <<lifeVars, flagVars, refVars, chVars, state, pending_unregister_count>>,
         iter' \in [Iters -> Iter], for_each_count' \in [Devs -> Int],
         thr_for_each_count' \in [Threads -> Int], at' \in [Threads -> Point],
         messages' \in Rings, fault' \in Fault, MailKept(messages'), PointsKept
  PROVE  IndInv'
  <1>1. TypeOK'
    BY DEF IndInv, TypeOK, lifeVars, flagVars, refVars, chVars, Rings
  <1>2. DevicesKept
    BY DEF DevicesKept, lifeVars, flagVars, refVars, chVars
  <1> QED
    BY <1>1, <1>2, Frame

(* The iteration starts. *)
LEMMA ForEachInd ==
  ASSUME IndInv, NEW t \in Threads, NEW d \in Devs, NEW i \in Iters,
         spdk_for_each_channel(t, d, i)
  PROVE  IndInv'
  <1>1. /\ UNCHANGED <<lifeVars, flagVars, refVars, chVars, state, pending_unregister_count, at>>
        /\ thr_for_each_count' \in [Threads -> Int]
        /\ for_each_count' \in [Devs -> Int]
    <2>1. for_each_count' = for_each_count \/ for_each_count' = [for_each_count EXCEPT ![d] = @ + 1]
      BY DEF spdk_for_each_channel
    <2>2. thr_for_each_count' = [thr_for_each_count EXCEPT ![t] = @ + 1]
      BY DEF spdk_for_each_channel
    <2>3. UNCHANGED <<lifeVars, flagVars, refVars, chVars, state, pending_unregister_count, at>>
      BY DEF spdk_for_each_channel
    <2> QED
      BY <2>1, <2>2, <2>3 DEF IndInv, TypeOK
  <1>2. at' \in [Threads -> Point] /\ PointsKept
    BY <1>1 DEF PointsKept, IndInv, TypeOK
  <1>3. \E r \in Iter, u \in Threads, fn \in {"_call_channel", "_call_completion"} :
          /\ iter' = [iter EXCEPT ![i] = r]
          /\ spdk_thread_send_msg(messages, u, [fn |-> fn, arg |-> i])
    <2>1. CASE d \in pending_unregister \/ dev_threads[d] = {}
      <3>1. \A x \in {0, -1} :
              [st |-> "ended", dev |-> d, cur |-> t, orig |-> t, owed |-> {}, status |-> x] \in Iter
        BY DEF Iter
      <3>2. \A u \in Threads : ~IsFirst(u, {})
        BY DEF IsFirst
      <3> QED
        BY <2>1, <3>1, <3>2 DEF spdk_for_each_channel
    <2>2. CASE ~(d \in pending_unregister \/ dev_threads[d] = {})
      <3>1. \A u \in Threads :
              [st |-> "queued", dev |-> d, cur |-> u, orig |-> t, status |-> 0,
               owed |-> io_channels[d]] \in Iter
        BY DEF Iter, IndInv, TypeOK
      <3> QED
        BY <2>2, <3>1 DEF spdk_for_each_channel
    <2> QED
      BY <2>1, <2>2
  <1>4. iter' \in [Iters -> Iter]
    BY <1>3 DEF IndInv, TypeOK
  <1>5. messages' \in Rings /\ MailKept(messages)
    BY <1>3, SendEffect DEF IndInv, TypeOK, Rings, MailKept, Msg
  <1>6. messages' \in Rings /\ fault' \in Fault /\ MailKept(messages')
    BY <1>3, <1>5, SendOther DEF IndInv, TypeOK, Rings, Msg
  <1> QED
    BY <1>1, <1>2, <1>4, <1>6, IterFrame

(* The iteration goes on to the next thread, or ends. *)
LEMMA ContinueInd ==
  ASSUME IndInv, NEW t \in Threads, NEW i \in Iters, NEW status \in {0, -1}, NEW q \in Rings,
         at[t].pt = "idle", MailKept(q), Continue(t, i, status, q)
  PROVE  IndInv'
  <1>1. UNCHANGED <<lifeVars, flagVars, refVars, chVars, thrVars>>
    BY DEF Continue
  <1>2. iter[i] \in Iter /\ iter[i].dev \in Devs
    BY DEF IndInv, TypeOK, Iter
  <1>3. CASE /\ \E u \in Threads :
                 /\ iter' = [iter EXCEPT ![i].st = "queued", ![i].cur = u, ![i].status = 0]
                 /\ spdk_thread_send_msg(q, u, [fn |-> "_call_channel", arg |-> i])
             /\ UNCHANGED <<for_each_count, at>>
    <2>1. PICK u \in Threads :
            /\ iter' = [iter EXCEPT ![i].st = "queued", ![i].cur = u, ![i].status = 0]
            /\ spdk_thread_send_msg(q, u, [fn |-> "_call_channel", arg |-> i])
      BY <1>3
    <2>2. iter' \in [Iters -> Iter]
      BY <1>2, <2>1 DEF IndInv, TypeOK, Iter
    <2>3. messages' \in Rings /\ fault' \in Fault /\ MailKept(messages')
      BY <2>1, SendOther DEF IndInv, Msg
    <2>4. PointsKept /\ at' \in [Threads -> Point]
      BY <1>3 DEF PointsKept, IndInv, TypeOK
    <2>5. for_each_count' \in [Devs -> Int] /\ thr_for_each_count' \in [Threads -> Int]
      BY <1>1, <1>3 DEF thrVars, IndInv, TypeOK
    <2>6. UNCHANGED <<state, pending_unregister_count>>
      BY <1>1 DEF thrVars
    <2> QED
      BY <1>1, <2>2, <2>3, <2>4, <2>5, <2>6, IterFrame
  <1>4. CASE /\ for_each_count' = [for_each_count EXCEPT ![iter[i].dev] = @ - 1]
             /\ iter' = [iter EXCEPT ![i].st = "ended", ![i].status = status]
             /\ Goto(t, [pt |-> "complete", iter |-> i])
             /\ Quiet(q)
    <2>1. iter' \in [Iters -> Iter]
      BY <1>2, <1>4 DEF IndInv, TypeOK, Iter
    <2>2. messages' \in Rings /\ fault' \in Fault /\ MailKept(messages')
      BY <1>4 DEF Quiet, IndInv, TypeOK
    <2>3. PointsKept /\ at' \in [Threads -> Point]
      <3>1. [pt |-> "complete", iter |-> i] \in Point
        BY DEF Point
      <3>2. at' = [at EXCEPT ![t] = [pt |-> "complete", iter |-> i]] /\ at \in [Threads -> Point]
        BY <1>4 DEF Goto, IndInv, TypeOK
      <3>3. [pt |-> "complete", iter |-> i].pt = "complete"
        OBVIOUS
      <3> QED
        BY <3>1, <3>2, <3>3 DEF PointsKept
    <2>4. for_each_count' \in [Devs -> Int] /\ thr_for_each_count' \in [Threads -> Int]
      BY <1>1, <1>2, <1>4 DEF thrVars, IndInv, TypeOK
    <2>5. UNCHANGED <<state, pending_unregister_count>>
      BY <1>1 DEF thrVars
    <2> QED
      BY <1>1, <2>1, <2>2, <2>3, <2>4, <2>5, IterFrame
  <1> QED
    BY <1>3, <1>4 DEF Continue

(* fn is called, or skipped on a thread that has no channel any more. *)
LEMMA CallChannelInd ==
  ASSUME IndInv, NEW t \in Threads, _call_channel(t)
  PROVE  IndInv'
  <1> DEFINE i == Arg(t)
  <1>1. Handles(t, "_call_channel") /\ i \in Iters /\ at[t].pt = "idle"
    BY Typing DEF IndInv, _call_channel, Handles, Runs, At
  <1>2. Pop(t) \in Rings /\ MailKept(Pop(t))
    BY <1>1, PopOther DEF Handles, IndInv
  <1>3. CASE /\ iter' = [iter EXCEPT ![i].st = "in_fn", ![i].owed = @ \ {t}]
             /\ Quiet(Pop(t))
             /\ UNCHANGED <<devVars, chVars, thrVars, at>>
    <2>1. iter' \in [Iters -> Iter]
      <3>1. iter[i] \in Iter /\ iter[i].owed \ {t} \in SUBSET Threads
        BY <1>1 DEF IndInv, TypeOK, Iter
      <3> QED
        BY <1>1, <1>3, <3>1 DEF IndInv, TypeOK, Iter
    <2>2. messages' \in Rings /\ fault' \in Fault /\ MailKept(messages')
      BY <1>2, <1>3 DEF Quiet, IndInv, TypeOK
    <2>3. PointsKept /\ at' \in [Threads -> Point]
      BY <1>3 DEF PointsKept, IndInv, TypeOK
    <2>4. for_each_count' \in [Devs -> Int] /\ thr_for_each_count' \in [Threads -> Int]
      BY <1>3 DEF devVars, thrVars, IndInv, TypeOK
    <2>5. UNCHANGED <<lifeVars, flagVars, refVars, chVars, state, pending_unregister_count>>
      BY <1>3 DEF devVars, thrVars
    <2> QED
      BY <2>1, <2>2, <2>3, <2>4, <2>5, IterFrame
  <1>4. CASE Continue(t, i, 0, Pop(t))
    BY <1>1, <1>2, <1>4, ContinueInd
  <1> QED
    BY <1>3, <1>4 DEF _call_channel

(* The function of an iteration calls spdk_for_each_channel_continue. *)
LEMMA CallsContinueInd ==
  ASSUME IndInv, NEW t \in Threads, NEW i \in Iters, NEW status \in {0, -1},
         spdk_for_each_channel_continue(t, i, status)
  PROVE  IndInv'
  <1>1. at[t].pt = "idle" /\ Continue(t, i, status, messages) /\ messages \in Rings
    BY DEF spdk_for_each_channel_continue, Runs, At, IndInv, TypeOK, Rings
  <1>2. MailKept(messages)
    BY DEF MailKept
  <1> QED
    BY <1>1, <1>2, ContinueInd

(* Sending the completion, and looking at the device once more. *)
LEMMA CompletesInd ==
  ASSUME IndInv, NEW t \in Threads, ContinueCompletes(t) \/ ContinueRechecks(t)
  PROVE  IndInv'
  <1>1. UNCHANGED <<devVars, chVars, iter, thrVars>> /\ at[t].pt # "destroy_cb"
    BY DEF ContinueCompletes, ContinueRechecks, At
  <1>2. messages \in Rings /\ MailKept(messages)
    BY DEF IndInv, TypeOK, Rings, MailKept
  <1>3. /\ messages' \in Rings /\ fault' \in Fault /\ MailKept(messages')
        /\ \E p \in Point : at' = [at EXCEPT ![t] = p] /\ p.pt \in {"idle", "recheck"}
    <2>1. CASE ContinueCompletes(t)
      <3> DEFINE i == at[t].iter
      <3>1. i \in Iters /\ iter[i] \in Iter
        BY <2>1, Typing DEF ContinueCompletes, IndInv, TypeOK
      <3>2. iter[i].orig \in Threads /\ iter[i].dev \in Devs
        BY <3>1 DEF Iter
      <3>3. /\ spdk_thread_send_msg(messages, iter[i].orig, [fn |-> "_call_completion", arg |-> i])
            /\ at' = [at EXCEPT ![t] = [pt |-> "recheck", dev |-> iter[i].dev]]
        BY <2>1 DEF ContinueCompletes, Goto
      <3>4. [pt |-> "recheck", dev |-> iter[i].dev] \in Point
        BY <3>2 DEF Point
      <3>5. [fn |-> "_call_completion", arg |-> i] \in Msg
        BY <3>1 DEF Msg
      <3>6. messages' \in Rings /\ fault' \in Fault /\ MailKept(messages')
        BY <1>2, <3>2, <3>3, <3>5, SendOther DEF IndInv
      <3> QED
        BY <3>3, <3>4, <3>6
    <2>2. CASE ContinueRechecks(t)
      <3> DEFINE d == at[t].dev
      <3>1. d \in Devs /\ at' = [at EXCEPT ![t] = Idle] /\ Idle \in Point /\ Idle.pt = "idle"
        BY <2>2, Typing DEF ContinueRechecks, Goto, IndInv, Point, Idle
      <3>2. CASE spdk_thread_send_msg(messages, unregister_thread[d],
                                      [fn |-> "__pending_unregister", arg |-> d]) /\ LastEnded(d)
        <4>1. unregister_thread[d] \in Threads
          BY <3>1, <3>2 DEF LastEnded, IndInv, ThreadKnown
        <4>2. [fn |-> "__pending_unregister", arg |-> d] \in Msg
          BY <3>1 DEF Msg
        <4> QED
          BY <1>2, <3>1, <3>2, <4>1, <4>2, SendOther DEF IndInv
      <3>3. CASE messages' = messages /\ fault' \in Fault
        BY <1>2, <3>1, <3>3
      <3> QED
        BY <2>2, <3>2, <3>3 DEF ContinueRechecks, Fail, Quiet, Fault, IndInv, TypeOK
    <2> QED
      BY <2>1, <2>2
  <1>4. at' \in [Threads -> Point] /\ PointsKept
    BY <1>1, <1>3 DEF IndInv, TypeOK, PointsKept
  <1>5. /\ UNCHANGED <<lifeVars, flagVars, refVars, chVars, state, pending_unregister_count>>
        /\ iter' \in [Iters -> Iter] /\ for_each_count' \in [Devs -> Int]
        /\ thr_for_each_count' \in [Threads -> Int]
    BY <1>1 DEF devVars, thrVars, IndInv, TypeOK
  <1> QED
    BY <1>3, <1>4, <1>5, IterFrame

(* cpl runs. *)
LEMMA CompletionInd ==
  ASSUME IndInv, NEW t \in Threads, _call_completion(t)
  PROVE  IndInv'
  <1> DEFINE i == Arg(t)
  <1>1. Handles(t, "_call_completion") /\ i \in Iters
    BY Typing DEF IndInv, _call_completion
  <1>2. Pop(t) \in Rings /\ MailKept(Pop(t))
    BY <1>1, PopOther DEF Handles, IndInv
  <1>3. messages' \in Rings /\ fault' \in Fault /\ MailKept(messages')
    BY <1>2 DEF _call_completion, Quiet, IndInv, TypeOK
  <1>4. iter' \in [Iters -> Iter]
    <2>1. iter' = [iter EXCEPT ![i].st = "completed"] /\ iter \in [Iters -> Iter]
      BY DEF _call_completion, IndInv, TypeOK
    <2> HIDE DEF i
    <2> QED
      BY <1>1, <2>1 DEF Iter
  <1>5. thr_for_each_count' \in [Threads -> Int]
    BY DEF _call_completion, IndInv, TypeOK
  <1>6. UNCHANGED <<devVars, chVars, state, pending_unregister_count, at>>
    BY DEF _call_completion
  <1>7. PointsKept /\ at' \in [Threads -> Point] /\ for_each_count' \in [Devs -> Int]
    BY <1>6 DEF PointsKept, IndInv, TypeOK, devVars
  <1>8. UNCHANGED <<lifeVars, flagVars, refVars, chVars, state, pending_unregister_count>>
    BY <1>6 DEF devVars
  <1> QED
    BY <1>3, <1>4, <1>5, <1>7, <1>8, IterFrame

-----------------------------------------------------------------------------
(* Channels. *)

(* The device a thread's pending point is about is a device. *)
LEMMA PointDev ==
  ASSUME TypeOK, NEW t \in Threads, at[t].pt \in {"create_cb", "destroy_cb"}
  PROVE  at[t].dev \in Devs /\ at[t] = [pt |-> at[t].pt, dev |-> at[t].dev]
  <1>1. at[t] \in Point
    BY DEF TypeOK
  <1> QED
    BY <1>1 DEF Point, Idle

(* A new channel: one more holder, of a device that is registered. *)
LEMMA GetCreateInd ==
  ASSUME IndInv, NEW t \in Threads, NEW d \in Devs, GetCreate(t, d)
  PROVE  IndInv'
  <1> DEFINE p == [pt |-> "create_cb", dev |-> d]
  <1>1. at[t].pt = "idle" /\ d \in g_io_devices /\ t \notin io_channels[d]
    BY DEF GetCreate, Runs, At
  <1>2. UNCHANGED <<lifeVars, flagVars, for_each_count, iter, thrVars, messages, fault>>
    BY DEF GetCreate
  <1>3. at' = [at EXCEPT ![t] = p] /\ p \in Point /\ p.pt = "create_cb" /\ p.dev = d
    BY DEF GetCreate, Goto, Point
  <1> HIDE DEF p
  <1>4. destroy_ref' = destroy_ref /\ destroy_ref[t][d] = 0
    <2>1. destroy_ref[t][d] = 0
      BY <1>1 DEF IndInv, PutsOK, TypeOK
    <2> QED
      BY <2>1 DEF GetCreate, IndInv, TypeOK
  <1>5. /\ io_channels' \in [Devs -> SUBSET Threads]
        /\ io_channels'[d] = io_channels[d] \cup {t}
        /\ \A e \in Devs : e # d => io_channels'[e] = io_channels[e]
    BY DEF GetCreate, IndInv, TypeOK
  <1>6. /\ refcnt' \in [Devs -> Nat]
        /\ refcnt'[d] = refcnt[d] + 1
        /\ \A e \in Devs : e # d => refcnt'[e] = refcnt[e]
    BY DEF GetCreate, IndInv, TypeOK
  <1>7. at' \in [Threads -> Point] /\ at'[t] = p /\ \A u \in Threads : u # t => at'[u] = at[u]
    BY <1>3 DEF IndInv, TypeOK
  <1>8. TypeOK'
    <2>1. ref' \in [Threads -> [Devs -> 0 .. MaxRef]] /\ dev_threads' \in [Devs -> SUBSET Threads]
      BY MaxRefAssumption DEF GetCreate, IndInv, TypeOK
    <2> QED
      BY <1>2, <1>4, <1>5, <1>6, <1>7, <2>1
      DEF IndInv, TypeOK, lifeVars, flagVars, thrVars
  <1>9. /\ Holders(d)' = Holders(d) \cup {t} /\ t \notin Holders(d)
        /\ \A e \in Devs : e # d => Holders(e)' = Holders(e)
    BY <1>1, <1>3, <1>5, <1>7 DEF Holders
  <1>10. RefcntCountsHolders'
    <2>1. Cardinality(Holders(d) \cup {t}) = Cardinality(Holders(d)) + 1
      BY <1>9, HoldersFinite, FS_AddElement
    <2> QED
      BY <1>6, <1>9, <2>1 DEF IndInv, RefcntCountsHolders
  <1>11. PointsOK' /\ PutsOK'
    <2>1. PointsOK'
      <3>1. \A u \in Threads : at[u].pt \in {"create_cb", "destroy_cb"} => at[u].dev \in Devs
        BY PointDev DEF IndInv
      <3> QED
        BY <1>3, <1>4, <1>5, <1>7, <3>1 DEF IndInv, PointsOK
    <2>2. PutsOK'
      BY <1>2, <1>4, <1>5 DEF IndInv, PutsOK
    <2> QED
      BY <2>1, <2>2
  <1>12. ClosedOK'
    <2>1. UNCHANGED <<unregistered, g_io_devices, life, messages>>
      BY <1>2 DEF lifeVars, flagVars
    <2>2. \A e \in Devs : Closing(e)' => Closing(e)
      BY <1>3, <1>7, <2>1 DEF Closing
    <2>3. ~Closing(d)
      BY <1>1 DEF IndInv, ClosedOK
    <2> QED
      BY <1>9, <2>1, <2>2, <2>3 DEF IndInv, ClosedOK
  <1>13. ThreadKnown'
    BY <1>2 DEF flagVars, IndInv, ThreadKnown
  <1> QED
    BY <1>8, <1>10, <1>11, <1>12, <1>13 DEF IndInv

(* One holder less.  Whoever drops the last one of an unregistered device goes
   on to free it. *)
LEMMA DropHolder ==
  ASSUME IndInv, NEW t \in Threads, NEW d \in Devs, t \in Holders(d),
         Holders(d)' = Holders(d) \ {t},
         \A e \in Devs : e # d => Holders(e)' = Holders(e),
         refcnt' = [refcnt EXCEPT ![d] = @ - 1],
         at' = [at EXCEPT ![t] = AfterDrop(d, refcnt[d] - 1)],
         UNCHANGED <<unregistered, g_io_devices, life, messages>>
  PROVE  refcnt' \in [Devs -> Nat] /\ RefcntCountsHolders' /\ ClosedOK'
  <1>1. Cardinality(Holders(d) \ {t}) = Cardinality(Holders(d)) - 1
    BY HoldersFinite, FS_RemoveElement
  <1>2. IsFiniteSet(Holders(d) \ {t}) /\ Cardinality(Holders(d) \ {t}) \in Nat
    BY HoldersFinite, FS_Subset, FS_CardinalityType
  <1>3. refcnt[d] - 1 = Cardinality(Holders(d) \ {t}) /\ refcnt[d] - 1 \in Nat
    BY <1>1, <1>2 DEF IndInv, RefcntCountsHolders
  <1>4. refcnt' \in [Devs -> Nat]
    BY <1>3 DEF IndInv, TypeOK
  <1>5. RefcntCountsHolders'
    <2>1. refcnt'[d] = refcnt[d] - 1 /\ \A e \in Devs : e # d => refcnt'[e] = refcnt[e]
      BY DEF IndInv, TypeOK
    <2> QED
      BY <1>3, <2>1 DEF IndInv, RefcntCountsHolders
  <1>6. ClosedOK'
    <2>1. \A u \in Threads : at'[u] = at[u] \/ (u = t /\ at'[u] = AfterDrop(d, refcnt[d] - 1))
      BY DEF IndInv, TypeOK
    <2>2. \A e \in Devs : AfterDrop(d, refcnt[d] - 1) = [pt |-> "io_device_free", dev |-> e] =>
            e = d /\ d \in unregistered /\ refcnt[d] - 1 = 0
      BY DEF AfterDrop, Idle
    <2>3. \A e \in Devs : Closing(e)' =>
            Closing(e) \/ (e = d /\ d \in unregistered /\ refcnt[d] - 1 = 0)
      BY <2>1, <2>2 DEF Closing
    <2>4. refcnt[d] - 1 = 0 => Holders(d)' = {}
      BY <1>2, <1>3, FS_EmptySet
    <2>5. \A e \in Devs : Holders(e)' \subseteq Holders(e)
      OBVIOUS
    <2> QED
      BY <2>3, <2>4, <2>5 DEF IndInv, ClosedOK
  <1> QED
    BY <1>4, <1>5, <1>6

(* Where a thread goes after it dropped a reference is a point. *)
LEMMA AfterDropPoint ==
  ASSUME NEW d \in Devs, NEW n
  PROVE  AfterDrop(d, n) \in Point /\ AfterDrop(d, n).pt \in {"idle", "io_device_free"}
  BY DEF AfterDrop, Point, Idle

(* An iteration that no longer owes a thread a call is still an iteration. *)
LEMMA ForgetType ==
  ASSUME TypeOK, NEW t \in Threads, NEW d \in Devs
  PROVE  Forget(t, d) \in [Iters -> Iter]
  <1> SUFFICES ASSUME NEW i \in Iters PROVE [iter[i] EXCEPT !.owed = @ \ {t}] \in Iter /\ iter[i] \in Iter
    BY DEF Forget
  <1>1. iter[i] \in Iter
    BY DEF TypeOK
  <1> QED
    BY <1>1 DEF Iter

(* create_cb failed. *)
LEMMA CreateFailsInd ==
  ASSUME IndInv, NEW t \in Threads, CreateFails(t)
  PROVE  IndInv'
  <1>0. PICK d \in Devs : d = at[t].dev
    BY PointDev DEF CreateFails, At, IndInv
  <1>1. at[t].pt = "create_cb" /\ t \in io_channels[d] /\ destroy_ref[t][d] = 0
    BY <1>0 DEF CreateFails, At, IndInv, PointsOK
  <1> DEFINE p == AfterDrop(d, refcnt[d] - 1)
  <1>2. UNCHANGED <<lifeVars, flagVars, for_each_count, destroy_ref, thrVars, messages, fault>>
    BY DEF CreateFails
  <1>3. /\ io_channels' = [io_channels EXCEPT ![d] = @ \ {t}]
        /\ ref' = [ref EXCEPT ![t][d] = 0]
        /\ refcnt' = [refcnt EXCEPT ![d] = @ - 1]
        /\ dev_threads' = [dev_threads EXCEPT ![d] = @ \ {t}]
        /\ at' = [at EXCEPT ![t] = p]
        /\ iter' = Forget(t, d)
    BY <1>0 DEF CreateFails, Goto
  <1>4. p \in Point /\ p.pt \in {"idle", "io_device_free"}
    BY <1>1, AfterDropPoint
  <1> HIDE DEF p
  <1>5. at' \in [Threads -> Point] /\ at'[t] = p /\ \A u \in Threads : u # t => at'[u] = at[u]
    BY <1>3, <1>4 DEF IndInv, TypeOK
  <1>6. /\ io_channels' \in [Devs -> SUBSET Threads]
        /\ io_channels'[d] = io_channels[d] \ {t}
        /\ \A e \in Devs : e # d => io_channels'[e] = io_channels[e]
    BY <1>1, <1>3 DEF IndInv, TypeOK
  <1>7. /\ t \in Holders(d) /\ Holders(d)' = Holders(d) \ {t}
        /\ \A e \in Devs : e # d => Holders(e)' = Holders(e)
    BY <1>1, <1>4, <1>5, <1>6 DEF Holders
  <1>8. UNCHANGED <<unregistered, g_io_devices, life, messages>>
    BY <1>2 DEF lifeVars, flagVars
  <1>9. refcnt' \in [Devs -> Nat] /\ RefcntCountsHolders' /\ ClosedOK'
    BY <1>1, <1>3, <1>7, <1>8, DropHolder DEF p
  <1>10. TypeOK'
    <2>1. ref' \in [Threads -> [Devs -> 0 .. MaxRef]] /\ dev_threads' \in [Devs -> SUBSET Threads]
      BY <1>1, <1>3, MaxRefAssumption DEF IndInv, TypeOK
    <2>2. iter' \in [Iters -> Iter]
      BY <1>1, <1>3, ForgetType DEF IndInv
    <2> QED
      BY <1>2, <1>5, <1>6, <1>9, <2>1, <2>2 DEF IndInv, TypeOK, lifeVars, flagVars, thrVars
  <1>11. PointsOK'
    <2>1. \A u \in Threads : at[u].pt \in {"create_cb", "destroy_cb"} => at[u].dev \in Devs
      BY PointDev DEF IndInv
    <2> QED
      BY <1>2, <1>4, <1>5, <1>6, <2>1 DEF IndInv, PointsOK
  <1>12. PutsOK'
    BY <1>1, <1>2, <1>6 DEF IndInv, PutsOK
  <1>13. ThreadKnown'
    BY <1>2 DEF flagVars, IndInv, ThreadKnown
  <1> QED
    BY <1>9, <1>10, <1>11, <1>12, <1>13 DEF IndInv

(* destroy_cb returned. *)
LEMMA DestroyInd ==
  ASSUME IndInv, NEW t \in Threads, DestroyReturns(t)
  PROVE  IndInv'
  <1>0. PICK d \in Devs : d = at[t].dev
    BY PointDev DEF DestroyReturns, At, IndInv
  <1>1. t \notin io_channels[d] /\ at[t] = [pt |-> "destroy_cb", dev |-> d]
    BY <1>0, PointDev DEF DestroyReturns, At, IndInv, PointsOK
  <1> DEFINE p == AfterDrop(d, refcnt[d] - 1)
  <1>2. UNCHANGED <<lifeVars, flagVars, for_each_count, dev_threads, chVars, iter, thrVars,
                    messages, fault>>
    BY DEF DestroyReturns
  <1>3. refcnt' = [refcnt EXCEPT ![d] = @ - 1] /\ at' = [at EXCEPT ![t] = p]
    BY <1>0 DEF DestroyReturns, Goto
  <1>4. p \in Point /\ p.pt \in {"idle", "io_device_free"}
    BY <1>1, AfterDropPoint
  <1> HIDE DEF p
  <1>5. at' \in [Threads -> Point] /\ at'[t] = p /\ \A u \in Threads : u # t => at'[u] = at[u]
    BY <1>3, <1>4 DEF IndInv, TypeOK
  <1>6. UNCHANGED <<io_channels, destroy_ref>>
    BY <1>2 DEF chVars
  <1>7. /\ t \in Holders(d) /\ Holders(d)' = Holders(d) \ {t}
        /\ \A e \in Devs : e # d => Holders(e)' = Holders(e)
    BY <1>1, <1>4, <1>5, <1>6 DEF Holders
  <1>8. UNCHANGED <<unregistered, g_io_devices, life, messages>>
    BY <1>2 DEF lifeVars, flagVars
  <1>9. refcnt' \in [Devs -> Nat] /\ RefcntCountsHolders' /\ ClosedOK'
    BY <1>1, <1>3, <1>7, <1>8, DropHolder DEF p
  <1>10. TypeOK'
    BY <1>2, <1>5, <1>9 DEF IndInv, TypeOK, lifeVars, flagVars, chVars, thrVars
  <1>11. PointsOK' /\ PutsOK' /\ ThreadKnown'
    <2>1. PointsOK'
      BY <1>4, <1>5, <1>6 DEF IndInv, PointsOK
    <2>2. PutsOK' /\ ThreadKnown'
      BY <1>2, <1>6 DEF flagVars, IndInv, PutsOK, ThreadKnown
    <2> QED
      BY <2>1, <2>2
  <1> QED
    BY <1>9, <1>10, <1>11 DEF IndInv

(* A reference is put; the last one by a message, which destroy_ref counts. *)
LEMMA PutInd ==
  ASSUME IndInv, NEW t \in Threads, NEW d \in Devs, spdk_put_io_channel(t, d)
  PROVE  IndInv'
  <1>1. /\ at[t].pt = "idle" /\ state[t] # "EXITED" /\ t \in io_channels[d] /\ ref[t][d] > 0
        /\ ref' = [ref EXCEPT ![t][d] = @ - 1]
        /\ UNCHANGED <<devVars, io_channels, iter, thrVars, at>>
    BY DEF spdk_put_io_channel, Runs, At
  <1>2. ref' \in [Threads -> [Devs -> 0 .. MaxRef]]
    <2>1. ref[t][d] - 1 \in 0 .. MaxRef
      BY <1>1, MaxRefAssumption DEF IndInv, TypeOK
    <2> QED
      BY <1>1, <2>1 DEF IndInv, TypeOK
  <1>3. CASE UNCHANGED <<messages, fault, destroy_ref>>
    <2>1. TypeOK'
      BY <1>1, <1>2, <1>3 DEF IndInv, TypeOK, devVars, lifeVars, flagVars, refVars, thrVars
    <2>2. DevicesKept /\ MailKept(messages') /\ PointsKept
      BY <1>1, <1>3 DEF DevicesKept, MailKept, PointsKept, devVars, lifeVars, flagVars, refVars
    <2> QED
      BY <2>1, <2>2, Frame
  <1>4. CASE /\ destroy_ref' = [destroy_ref EXCEPT ![t][d] = @ + 1]
             /\ spdk_thread_send_msg(messages, t, PutMsg(d))
    <2>1. PutMsg(d) \in Msg /\ messages \in Rings
      BY DEF PutMsg, Msg, Rings, IndInv, TypeOK
    <2>2. /\ messages' \in Rings /\ fault' \in Fault
          /\ \A u \in Threads : \A x : x # PutMsg(d) => Count(messages', u, x) = Count(messages, u, x)
          /\ \A u \in Threads : u # t => Count(messages', u, PutMsg(d)) = Count(messages, u, PutMsg(d))
          /\ Count(messages', t, PutMsg(d)) = Count(messages, t, PutMsg(d)) + 1
      BY <1>1, <1>4, <2>1, SendEffect DEF IndInv
    <2>3. /\ destroy_ref' \in [Threads -> [Devs -> Nat]]
          /\ destroy_ref'[t][d] = destroy_ref[t][d] + 1
          /\ \A u \in Threads, e \in Devs : u # t \/ e # d => destroy_ref'[u][e] = destroy_ref[u][e]
      BY <1>4 DEF IndInv, TypeOK
    <2>4. TypeOK'
      BY <1>1, <1>2, <2>2, <2>3
      DEF IndInv, TypeOK, devVars, lifeVars, flagVars, refVars, thrVars, Rings
    <2>5. UNCHANGED <<io_channels, refcnt, at, unregistered, g_io_devices, life, pending_unregister,
                      unregister_thread>>
      BY <1>1 DEF devVars, lifeVars, flagVars, refVars
    <2>6. \A e \in Devs : Holders(e)' = Holders(e)
      BY <2>5 DEF Holders
    <2>7. RefcntCountsHolders' /\ ThreadKnown'
      BY <2>5, <2>6 DEF IndInv, RefcntCountsHolders, ThreadKnown
    <2>8. PointsOK'
      <3>1. \A u \in Threads : at[u].pt \in {"create_cb", "destroy_cb"} => u # t /\ at[u].dev \in Devs
        BY <1>1, PointDev DEF IndInv
      <3> QED
        BY <2>3, <2>5, <3>1 DEF IndInv, PointsOK
    <2>9. PutsOK'
      <3>1. \A e \in Devs : e # d => PutMsg(e) # PutMsg(d)
        BY DEF PutMsg
      <3>2. \A u \in Threads, e \in Devs : u # t \/ e # d =>
              Count(messages', u, PutMsg(e)) = Count(messages, u, PutMsg(e))
        BY <2>2, <3>1
      <3> QED
        BY <1>1, <2>2, <2>3, <2>5, <3>2 DEF IndInv, PutsOK
    <2>10. ClosedOK'
      <3>1. \A e \in Devs : FinishMsg(e) # PutMsg(d)
        BY DEF PutMsg, FinishMsg
      <3>2. \A u \in Threads, e \in Devs :
              Count(messages', u, FinishMsg(e)) = Count(messages, u, FinishMsg(e))
        BY <2>2, <3>1
      <3>3. \A e \in Devs : Closing(e)' => Closing(e)
        BY <2>5, <3>2 DEF Closing
      <3> QED
        BY <2>5, <2>6, <3>3, ClosedStep
    <2> QED
      BY <2>4, <2>7, <2>8, <2>9, <2>10 DEF IndInv
  <1> QED
    BY <1>3, <1>4 DEF spdk_put_io_channel, Quiet, PutMsg

(* The message arrives; an abandoned channel leaves the trees, and its thread
   stays a holder until destroy_cb has returned. *)
LEMMA PutMessageInd ==
  ASSUME IndInv, NEW t \in Threads, put_io_channel(t)
  PROVE  IndInv'
  <1>1. PICK d \in Devs : d = Arg(t) /\ Head(messages[t]) = PutMsg(d)
    BY Typing DEF put_io_channel, IndInv, PutMsg
  <1>2. /\ at[t].pt = "idle" /\ messages[t] # <<>> /\ messages' = Pop(t) /\ fault' = fault
        /\ destroy_ref' = [destroy_ref EXCEPT ![t][d] = @ - 1]
        /\ UNCHANGED <<lifeVars, flagVars, for_each_count, refcnt, ref, thrVars>>
    BY <1>1 DEF put_io_channel, Handles, Runs, At, Quiet
  <1>3. /\ Pop(t) \in Rings
        /\ \A u \in Threads : \A x : Count(Pop(t), u, x) =
              IF u = t /\ x = PutMsg(d) THEN Count(messages, u, x) - 1 ELSE Count(messages, u, x)
    BY <1>1, <1>2, PopEffect DEF IndInv
  <1>4. destroy_ref[t][d] > 0 /\ destroy_ref[t][d] - 1 \in Nat /\ t \in io_channels[d]
    <2>1. Count(messages, t, PutMsg(d)) \in Nat /\ Count(Pop(t), t, PutMsg(d)) \in Nat
      BY <1>3, CountNat DEF IndInv, TypeOK, Rings
    <2>2. Count(messages, t, PutMsg(d)) > 0
      BY <1>3, <2>1
    <2> QED
      BY <2>1, <2>2 DEF IndInv, PutsOK
  <1>5. /\ destroy_ref' \in [Threads -> [Devs -> Nat]]
        /\ destroy_ref'[t][d] = destroy_ref[t][d] - 1
        /\ \A u \in Threads, e \in Devs : u # t \/ e # d => destroy_ref'[u][e] = destroy_ref[u][e]
    BY <1>2, <1>4 DEF IndInv, TypeOK
  <1>6. UNCHANGED <<refcnt, unregistered, g_io_devices, life, pending_unregister, unregister_thread>>
    BY <1>2 DEF lifeVars, flagVars
  <1>7. \A u \in Threads, e \in Devs :
          /\ u # t \/ e # d => Count(messages', u, PutMsg(e)) = Count(messages, u, PutMsg(e))
          /\ Count(messages', u, FinishMsg(e)) = Count(messages, u, FinishMsg(e))
    <2>1. \A e \in Devs : FinishMsg(e) # PutMsg(d) /\ (e # d => PutMsg(e) # PutMsg(d))
      BY DEF PutMsg, FinishMsg
    <2> QED
      BY <1>2, <1>3, <2>1
  <1>8. \A u \in Threads : at[u].pt \in {"create_cb", "destroy_cb"} => u # t /\ at[u].dev \in Devs
    BY <1>2, PointDev DEF IndInv
  <1>9. destroy_ref'[t][d] = Count(messages', t, PutMsg(d))
    BY <1>2, <1>3, <1>5 DEF IndInv, PutsOK
  <1>10. CASE UNCHANGED <<io_channels, dev_threads, iter, at>>
    <2>1. TypeOK'
      BY <1>2, <1>3, <1>5, <1>10 DEF IndInv, TypeOK, lifeVars, flagVars, thrVars, Rings
    <2>2. \A e \in Devs : Holders(e)' = Holders(e)
      BY <1>10 DEF Holders
    <2>3. RefcntCountsHolders' /\ ThreadKnown'
      BY <1>6, <2>2 DEF IndInv, RefcntCountsHolders, ThreadKnown
    <2>4. PointsOK'
      BY <1>5, <1>8, <1>10 DEF IndInv, PointsOK
    <2>5. PutsOK'
      BY <1>4, <1>5, <1>7, <1>9, <1>10 DEF IndInv, PutsOK
    <2>6. \A e \in Devs : Closing(e)' => Closing(e)
      BY <1>6, <1>7, <1>10 DEF Closing
    <2>7. ClosedOK'
      BY <1>6, <2>2, <2>6, ClosedStep
    <2> QED
      BY <2>1, <2>3, <2>4, <2>5, <2>7 DEF IndInv
  <1>11. CASE /\ Abandoned(t, d)
              /\ io_channels' = [io_channels EXCEPT ![d] = @ \ {t}]
              /\ dev_threads' = [dev_threads EXCEPT ![d] = @ \ {t}]
              /\ iter' = Forget(t, d)
              /\ Goto(t, [pt |-> "destroy_cb", dev |-> d])
    <2> DEFINE p == [pt |-> "destroy_cb", dev |-> d]
    <2>1. p \in Point /\ p.pt = "destroy_cb" /\ p.dev = d
      BY DEF Point
    <2>2. at' \in [Threads -> Point] /\ at'[t] = p /\ \A u \in Threads : u # t => at'[u] = at[u]
      BY <1>11, <2>1 DEF Goto, IndInv, TypeOK
    <2>3. /\ io_channels' \in [Devs -> SUBSET Threads]
          /\ io_channels'[d] = io_channels[d] \ {t}
          /\ \A e \in Devs : e # d => io_channels'[e] = io_channels[e]
      BY <1>11 DEF IndInv, TypeOK
    <2>4. TypeOK'
      <3>1. dev_threads' \in [Devs -> SUBSET Threads] /\ iter' \in [Iters -> Iter]
        BY <1>11, ForgetType DEF IndInv, TypeOK
      <3> QED
        BY <1>2, <1>3, <1>5, <2>2, <2>3, <3>1 DEF IndInv, TypeOK, lifeVars, flagVars, thrVars, Rings
    <2>5. \A e \in Devs : Holders(e)' = Holders(e)
      BY <1>2, <1>4, <2>1, <2>2, <2>3 DEF Holders
    <2>6. RefcntCountsHolders' /\ ThreadKnown'
      BY <1>6, <2>5 DEF IndInv, RefcntCountsHolders, ThreadKnown
    <2>7. destroy_ref'[t][d] = 0
      BY <1>5, <1>11 DEF Abandoned
    <2> HIDE DEF p
    <2>8. PointsOK'
      BY <1>5, <1>8, <2>1, <2>2, <2>3 DEF IndInv, PointsOK
    <2>9. PutsOK'
      <3>1. ASSUME NEW u \in Threads, NEW e \in Devs
            PROVE  /\ destroy_ref'[u][e] = Count(messages', u, PutMsg(e))
                   /\ destroy_ref'[u][e] > 0 => u \in io_channels'[e]
        <4>1. CASE u = t /\ e = d
          <5>1. destroy_ref'[u][e] = Count(messages', u, PutMsg(e))
            BY <1>9, <4>1, Zenon
          <5>2. destroy_ref'[u][e] = 0
            BY <2>7, <4>1, Zenon
          <5> QED
            BY ONLY <5>1, <5>2
        <4>2. CASE u # t \/ e # d
          <5>1. destroy_ref'[u][e] = destroy_ref[u][e]
            BY <1>5, <4>2
          <5>2. Count(messages', u, PutMsg(e)) = Count(messages, u, PutMsg(e))
            BY <1>7, <4>2
          <5>3. u \in io_channels[e] => u \in io_channels'[e]
            BY <2>3, <4>2
          <5> QED
            BY <5>1, <5>2, <5>3 DEF IndInv, PutsOK
        <4> QED
          BY <4>1, <4>2
      <3> QED
        BY <3>1 DEF PutsOK
    <2>10. \A e \in Devs : Closing(e)' => Closing(e)
      BY <1>6, <1>7, <2>1, <2>2 DEF Closing
    <2>11. ClosedOK'
      BY <1>6, <2>5, <2>10, ClosedStep
    <2> QED
      BY <2>4, <2>6, <2>8, <2>9, <2>11 DEF IndInv
  <1> QED
    BY <1>1, <1>10, <1>11 DEF put_io_channel

-----------------------------------------------------------------------------
(* The theorems. *)

(* Every step of the protocol keeps the invariant. *)
LEMMA NextInd ==
  ASSUME IndInv, [Next]_vars
  PROVE  IndInv'
  <1>1. CASE UNCHANGED vars
    <2>1. TypeOK' /\ DevicesKept /\ MailKept(messages') /\ PointsKept
      BY <1>1 DEF vars, devVars, lifeVars, flagVars, refVars, chVars, thrVars, IndInv, TypeOK,
         DevicesKept, MailKept, PointsKept
    <2> QED
      BY <2>1, Frame
  <1>2. ASSUME NEW t \in Threads, Library(t)
        PROVE  IndInv'
    BY <1>2, DeferredUnregisterInd, FreeInd, FinishInd, PutMessageInd, CallChannelInd,
       CompletesInd, CompletionInd, PointInd DEF Library
  <1>3. ASSUME NEW t \in Threads, Callbacks(t)
        PROVE  IndInv'
    BY <1>3, PointInd, CreateFailsInd, DestroyInd DEF Callbacks
  <1>4. ASSUME NEW t \in Threads, User(t)
        PROVE  IndInv'
    <2>1. CASE spdk_thread_exit(t) \/ ExitChecks(t)
      BY <2>1, PointInd
    <2>2. CASE CallsContinue(t)
      BY <2>2, CallsContinueInd DEF CallsContinue
    <2>3. ASSUME NEW d \in Devs,
                 \/ spdk_io_device_register(t, d)
                 \/ \E cb \in BOOLEAN : spdk_io_device_unregister(t, d, cb)
                 \/ spdk_get_io_channel(t, d)
                 \/ spdk_io_channel_ref(t, d)
                 \/ spdk_put_io_channel(t, d)
                 \/ \E i \in Iters : spdk_for_each_channel(t, d, i)
          PROVE  IndInv'
      BY <2>3, RegisterInd, UserUnregisterInd, RefInd, GetCreateInd, PutInd, ForEachInd
      DEF spdk_get_io_channel
    <2> QED
      BY <1>4, <2>1, <2>2, <2>3 DEF User
  <1> QED
    BY <1>1, <1>2, <1>3, <1>4 DEF Next

(* The inductive invariant holds in every reachable state. *)
LEMMA IndInvHolds == Spec => []IndInv
  <1>1. Init => IndInv
    BY InitInd
  <1>2. IndInv /\ [Next]_vars => IndInv'
    BY NextInd
  <1> QED
    BY <1>1, <1>2, PTL DEF Spec

(* The state of the library stays well-typed: in particular refcnt, ref and
   destroy_ref never go below zero. *)
THEOREM TypeCorrect == Spec => []TypeOK
  <1>1. IndInv => TypeOK
    BY DEF IndInv
  <1> QED
    BY <1>1, IndInvHolds, PTL

(* dev->refcnt is the number of channels that destroy_cb has not finished. *)
THEOREM RefcntCorrect == Spec => []RefcntCountsHolders
  <1>1. IndInv => RefcntCountsHolders
    BY DEF IndInv
  <1> QED
    BY <1>1, IndInvHolds, PTL

(* No struct io_device is freed, and no unregister_cb has run, while a channel
   of the device exists or its destroy_cb runs. *)
THEOREM NoChannelOutlivesDevice == Spec => []FreedHasNoChannel
  <1>1. IndInv => FreedHasNoChannel
    BY DEF IndInv, ClosedOK, Closing, FreedHasNoChannel
  <1> QED
    BY <1>1, IndInvHolds, PTL

-----------------------------------------------------------------------------
(* The inductive invariant, beyond IndInv. *)

CallMsg(i) == [fn |-> "_call_channel", arg |-> i]
CplMsg(i) == [fn |-> "_call_completion", arg |-> i]

Freeing(t, d) == at[t] = [pt |-> "io_device_free", dev |-> d]
Completing(t, i) == at[t] = [pt |-> "complete", iter |-> i]
Finishing(t, d) == Count(messages, t, FinishMsg(d))

(* A channel without references waits for its message; both trees have the same. *)
ChannelsOK ==
  \A d \in Devs :
    /\ dev_threads[d] = io_channels[d]
    /\ \A t \in io_channels[d] : ref[t][d] = 0 => destroy_ref[t][d] > 0

(* Nobody frees d, or one thread or one message does, as is due. *)
OneFree(d) ==
  /\ \A t, u \in Threads : Freeing(t, d) => (Freeing(u, d) => u = t) /\ Finishing(u, d) = 0
  /\ \A t, u \in Threads :
       Finishing(t, d) > 0 =>
         /\ Finishing(t, d) = 1 /\ (Finishing(u, d) > 0 => u = t)
         /\ d \in unregister_cb /\ unregister_thread[d] = t
  /\ (\E t \in Threads : Freeing(t, d) \/ Finishing(t, d) > 0) <=>
       (d \in unregistered /\ Holders(d) = {} /\ life[d] = "live")

FreesOK ==
  /\ \A d \in Devs : life[d] = "live" => d \in g_io_devices \/ d \in unregistered
  /\ fault = "none" => \A d \in Devs : OneFree(d)

(* One message or point carries each iteration. *)
CarriedOK(i) ==
  /\ \A t \in Threads :
       Count(messages, t, CallMsg(i)) = IF iter[i].st = "queued" /\ iter[i].cur = t THEN 1 ELSE 0
  /\ \A t \in Threads :
       Count(messages, t, CplMsg(i)) > 0 =>
         /\ Count(messages, t, CplMsg(i)) = 1 /\ iter[i].st = "ended" /\ iter[i].orig = t
         /\ \A u \in Threads : ~Completing(u, i)
  /\ \A t, u \in Threads : Completing(t, i) => iter[i].st = "ended" /\ (Completing(u, i) => u = t)

(* What fn has not been called on is ahead. *)
OwedOK(i) ==
  /\ iter[i].st = "queued" =>
       \A u \in iter[i].owed : u \in io_channels[iter[i].dev] /\ u >= iter[i].cur
  /\ iter[i].st = "in_fn" =>
       \A u \in iter[i].owed : u \in io_channels[iter[i].dev] /\ u > iter[i].cur
  /\ iter[i].st = "ended" /\ iter[i].status = 0 => iter[i].owed = {}

(* for_each_count counts, and keeps the device registered. *)
ActiveOK(d) ==
  /\ IsFiniteSet(Active(d)) /\ for_each_count[d] = Cardinality(Active(d))
  /\ Active(d) # {} => d \in g_io_devices

ItersOK == (\A i \in Iters : CarriedOK(i) /\ OwedOK(i)) /\ \A d \in Devs : ActiveOK(d)

(* The iterations a thread started, and the unregister_cbs it is to run. *)
Started(t) == {i \in Iters : iter[i].st \in {"queued", "in_fn", "ended"} /\ iter[i].orig = t}
Unregs(t) ==
  {d \in unregistered \cap unregister_cb : life[d] = "live" /\ unregister_thread[d] = t}

CountsOK ==
  \A t \in Threads :
    /\ IsFiniteSet(Started(t)) /\ thr_for_each_count[t] = Cardinality(Started(t))
    /\ IsFiniteSet(Unregs(t)) /\ pending_unregister_count[t] = Cardinality(Unregs(t))

(* The thread has decided to exit, or has. *)
Gone(t) == at[t].pt = "exited" \/ state[t] = "EXITED"

GoneOK ==
  \A t \in Threads : Gone(t) =>
    /\ at[t].pt \in {"exited", "idle"}
    /\ \A d \in Devs : t \notin io_channels[d]
    /\ Started(t) = {} /\ Unregs(t) = {}
    /\ \A i \in Iters : iter[i].st = "queued" => iter[i].cur # t

Inv2 == ChannelsOK /\ FreesOK /\ ItersOK /\ CountsOK /\ GoneOK

-----------------------------------------------------------------------------
(* Steps that leave a part of the state alone. *)

(* A step changes no point of a kind in K. *)
PointsSame(K) ==
  \A u \in Threads : at'[u].pt \in K \/ at[u].pt \in K => at'[u] = at[u]

CountSame(m) == \A u \in Threads : Count(messages', u, m) = Count(messages, u, m)

(* The thread that takes a step has not exited. *)
LEMMA ActsNotGone ==
  ASSUME GoneOK, NEW t \in Threads,
         Runs(t) \/ at[t].pt \notin {"idle", "exited"}
  PROVE  ~Gone(t)
  BY DEF GoneOK, Gone, Runs, At

(* The thread moves from one point to another. *)
LEMMA StepPoints ==
  ASSUME TypeOK, GoneOK, NEW t \in Threads, ~Gone(t), NEW p, p.pt # "exited", state' = state,
         at' = [at EXCEPT ![t] = p]
  PROVE  /\ at'[t] = p
         /\ \A u \in Threads : u # t => at'[u] = at[u]
         /\ \A u \in Threads : Gone(u)' => Gone(u) /\ at'[u] = at[u]
         /\ \A K : at[t].pt \notin K /\ p.pt \notin K => PointsSame(K)
  <1>1. at'[t] = p /\ \A u \in Threads : u # t => at'[u] = at[u]
    BY DEF TypeOK
  <1>2. \A u \in Threads : Gone(u)' => Gone(u) /\ at'[u] = at[u]
    BY <1>1 DEF Gone
  <1>3. \A K : at[t].pt \notin K /\ p.pt \notin K => PointsSame(K)
    BY <1>1 DEF PointsSame
  <1> QED
    BY <1>1, <1>2, <1>3

(* No destroy_cb starts or returns. *)
LEMMA HoldersSame ==
  ASSUME io_channels' = io_channels, PointsSame({"destroy_cb"})
  PROVE  \A d : Holders(d)' = Holders(d)
  BY DEF Holders, PointsSame

(* What is about to free d stays as it is. *)
LEMMA OneFreeKept ==
  ASSUME NEW d \in Devs, OneFree(d), PointsSame({"io_device_free"}), CountSame(FinishMsg(d)),
         Holders(d)' = Holders(d), life'[d] = life[d], (d \in unregistered') = (d \in unregistered),
         (d \in unregister_cb') = (d \in unregister_cb),
         unregister_thread'[d] = unregister_thread[d]
  PROVE  OneFree(d)'
  <1>1. \A t \in Threads : Freeing(t, d)' <=> Freeing(t, d)
    BY DEF Freeing, PointsSame
  <1>2. \A t \in Threads : Finishing(t, d)' = Finishing(t, d)
    BY DEF Finishing, CountSame
  <1> QED
    BY <1>1, <1>2 DEF OneFree

(* What is about to free each device stays as it is. *)
LEMMA FreesKept ==
  ASSUME FreesOK, fault' = "none" => fault = "none", UNCHANGED <<life, unregistered, g_io_devices>>,
         UNCHANGED <<unregister_cb, unregister_thread>>,
         PointsSame({"io_device_free"}), \A d \in Devs : CountSame(FinishMsg(d)),
         \A d \in Devs : Holders(d)' = Holders(d)
  PROVE  FreesOK'
  <1>1. ASSUME fault' = "none", NEW d \in Devs
        PROVE  OneFree(d)'
    <2>1. OneFree(d)
      BY <1>1 DEF FreesOK
    <2> QED
      BY <2>1, OneFreeKept
  <1> QED
    BY <1>1 DEF FreesOK

(* An iteration stays where it is. *)
LEMMA CarriedKept ==
  ASSUME NEW i \in Iters, CarriedOK(i), PointsSame({"complete"}),
         CountSame(CallMsg(i)), CountSame(CplMsg(i)),
         iter'[i].st = iter[i].st, iter'[i].cur = iter[i].cur, iter'[i].orig = iter[i].orig
  PROVE  CarriedOK(i)'
  <1>1. \A t \in Threads : Completing(t, i)' <=> Completing(t, i)
    BY DEF Completing, PointsSame
  <1> QED
    BY <1>1 DEF CarriedOK, CountSame

(* Every iteration stays where it is. *)
LEMMA ItersKept ==
  ASSUME ItersOK, UNCHANGED <<iter, for_each_count>>, PointsSame({"complete"}),
         \A i \in Iters : CountSame(CallMsg(i)) /\ CountSame(CplMsg(i)),
         \A d \in Devs : \A t \in io_channels[d] : t \in io_channels'[d],
         \A i \in Iters : iter[i].dev \in Devs,
         \A d \in Devs : Active(d) # {} => (d \in g_io_devices => d \in g_io_devices')
  PROVE  ItersOK'
  <1>1. \A i \in Iters : CarriedOK(i)'
    BY CarriedKept DEF ItersOK
  <1>2. \A i \in Iters : OwedOK(i)'
    BY DEF ItersOK, OwedOK
  <1>3. \A d \in Devs : ActiveOK(d)'
    BY DEF ItersOK, ActiveOK, Active
  <1> QED
    BY <1>1, <1>2, <1>3 DEF ItersOK

(* No thread exits, and none gets more or less to do before it may. *)
LEMMA ExitsKept ==
  ASSUME CountsOK, GoneOK,
         UNCHANGED <<thr_for_each_count, pending_unregister_count>>,
         \A t \in Threads : Started(t)' = Started(t) /\ Unregs(t)' = Unregs(t),
         \A t \in Threads : Gone(t)' => Gone(t) /\ at'[t] = at[t],
         \A t \in Threads, d \in Devs : Gone(t) /\ t \in io_channels'[d] => t \in io_channels[d],
         \A i \in Iters : iter'[i].st = "queued" => iter[i].st = "queued" /\ iter'[i].cur = iter[i].cur
  PROVE  CountsOK' /\ GoneOK'
  <1>1. CountsOK'
    BY DEF CountsOK
  <1>2. GoneOK'
    BY DEF GoneOK
  <1> QED
    BY <1>1, <1>2

(* A finite set that counts none is empty. *)
LEMMA NoneLeft2 ==
  ASSUME NEW S, IsFiniteSet(S), Cardinality(S) = 0
  PROVE  S = {}
  BY FS_EmptySet

(* Messages of different kinds, or about different things, are different. *)
LEMMA MsgsDiffer ==
  /\ \A d, e : /\ PutMsg(d) # FinishMsg(e)
               /\ d # e => PutMsg(d) # PutMsg(e) /\ FinishMsg(d) # FinishMsg(e)
  /\ \A i, j : /\ CallMsg(i) # CplMsg(j)
               /\ i # j => CallMsg(i) # CallMsg(j) /\ CplMsg(i) # CplMsg(j)
  /\ \A d, i : /\ PutMsg(d) # CallMsg(i) /\ PutMsg(d) # CplMsg(i)
               /\ FinishMsg(d) # CallMsg(i) /\ FinishMsg(d) # CplMsg(i)
  BY DEF PutMsg, FinishMsg, CallMsg, CplMsg

(* The devices of iterations and points are devices. *)
LEMMA IterDevs ==
  ASSUME TypeOK
  PROVE  \A i \in Iters : iter[i] \in Iter /\ iter[i].dev \in Devs /\ iter[i].cur \in Threads
                          /\ iter[i].orig \in Threads
  BY DEF TypeOK, Iter

(* Steps that touch neither devices nor iterations, and channels only in their counters. *)
LEMMA Frame2 ==
  ASSUME TypeOK, Inv2, fault' = "none" => fault = "none",
         UNCHANGED <<life, unregistered, g_io_devices, unregister_cb, unregister_thread>>,
         UNCHANGED <<iter, for_each_count, thr_for_each_count, pending_unregister_count>>,
         UNCHANGED <<io_channels, dev_threads>>, ChannelsOK',
         PointsSame({"io_device_free", "destroy_cb", "complete"}),
         \A d \in Devs : CountSame(FinishMsg(d)),
         \A i \in Iters : CountSame(CallMsg(i)) /\ CountSame(CplMsg(i)),
         \A t \in Threads : Gone(t)' => Gone(t) /\ at'[t] = at[t]
  PROVE  Inv2'
  <1>1. /\ PointsSame({"io_device_free"}) /\ PointsSame({"destroy_cb"}) /\ PointsSame({"complete"})
    BY DEF PointsSame
  <1>2. \A d : Holders(d)' = Holders(d)
    BY <1>1, HoldersSame
  <1>3. FreesOK'
    BY <1>1, <1>2, FreesKept DEF Inv2
  <1>4. ItersOK'
    BY <1>1, IterDevs, ItersKept DEF Inv2
  <1>5. \A t \in Threads : Started(t)' = Started(t) /\ Unregs(t)' = Unregs(t)
    BY DEF Started, Unregs
  <1>6. CountsOK' /\ GoneOK'
    BY <1>5, ExitsKept DEF Inv2
  <1> QED
    BY <1>3, <1>4, <1>6 DEF Inv2

(* Initially nothing is held, iterated or on its way. *)
LEMMA Init2 == Init => Inv2
  <1> SUFFICES ASSUME Init PROVE Inv2
    OBVIOUS
  <1>1. \A t \in Threads : \A m : Count(messages, t, m) = 0
    BY FS_EmptySet DEF Init, Count, Places
  <1>2. Cardinality({}) = 0 /\ IsFiniteSet({})
    BY FS_EmptySet
  <1>3. \A t \in Threads : at[t].pt = "idle"
    BY DEF Init, Idle
  <1>4. ChannelsOK
    BY DEF Init, ChannelsOK
  <1>5. FreesOK
    <2>1. \A d \in Devs : OneFree(d)
      BY <1>1, <1>3 DEF Init, OneFree, Freeing, Finishing
    <2> QED
      BY <2>1 DEF Init, FreesOK
  <1>6. \A i \in Iters : iter[i].st = "unused"
    BY DEF Init
  <1>7. ItersOK
    <2>1. \A i \in Iters : CarriedOK(i) /\ OwedOK(i)
      BY <1>1, <1>3, <1>6 DEF CarriedOK, OwedOK, Completing
    <2>2. \A d \in Devs : Active(d) = {} /\ for_each_count[d] = 0
      BY <1>6 DEF Active, Init
    <2> QED
      BY <1>2, <2>1, <2>2 DEF ItersOK, ActiveOK
  <1>8. CountsOK /\ GoneOK
    <2>1. \A t \in Threads : Started(t) = {} /\ Unregs(t) = {}
      BY <1>6 DEF Started, Unregs, Init
    <2>2. \A t \in Threads : ~Gone(t)
      BY <1>3 DEF Gone, Init
    <2> QED
      BY <1>2, <2>1, <2>2 DEF CountsOK, GoneOK, Init
  <1> QED
    BY <1>4, <1>5, <1>7, <1>8 DEF Inv2

-----------------------------------------------------------------------------
(* The steps. *)

(* A stuttering step. *)
LEMMA Stutter2 ==
  ASSUME IndInv, Inv2, UNCHANGED vars
  PROVE  Inv2'
  <1>1. ChannelsOK'
    BY DEF Inv2, ChannelsOK, vars, devVars, refVars, chVars
  <1> QED
    BY <1>1, Frame2 DEF vars, devVars, lifeVars, flagVars, refVars, chVars, thrVars, IndInv,
       PointsSame, CountSame, Gone

(* Another reference, a create_cb that succeeds, the call of spdk_thread_exit. *)
LEMMA Ref2 ==
  ASSUME IndInv, Inv2, NEW t \in Threads, NEW d \in Devs,
         GetExisting(t, d) \/ spdk_io_channel_ref(t, d)
  PROVE  Inv2'
  <1>1. /\ ref' = [ref EXCEPT ![t][d] = @ + 1] /\ ref[t][d] \in Nat
        /\ UNCHANGED <<devVars, io_channels, destroy_ref, iter, thrVars, messages, at, fault>>
    BY DEF GetExisting, spdk_io_channel_ref, IndInv, TypeOK
  <1>2. \A u \in Threads, e \in Devs : ref'[u][e] = 0 => ref[u][e] = 0
    BY <1>1 DEF IndInv, TypeOK
  <1>3. ChannelsOK'
    BY <1>1, <1>2 DEF Inv2, ChannelsOK, devVars, refVars, IndInv, TypeOK
  <1> QED
    BY <1>1, <1>3, Frame2 DEF devVars, lifeVars, flagVars, refVars, thrVars, IndInv,
       PointsSame, CountSame, Gone

(* create_cb succeeded. *)
LEMMA Create2 ==
  ASSUME IndInv, Inv2, NEW t \in Threads, CreateSucceeds(t)
  PROVE  Inv2'
  <1>1. /\ at[t].pt = "create_cb" /\ at' = [at EXCEPT ![t] = Idle]
        /\ UNCHANGED <<devVars, chVars, iter, thrVars, messages, fault>>
    BY DEF CreateSucceeds, At, Goto
  <1>2. Idle.pt = "idle"
    BY DEF Idle
  <1>3. ~Gone(t)
    BY <1>1, ActsNotGone DEF Inv2
  <1>4. /\ \A u \in Threads : Gone(u)' => Gone(u) /\ at'[u] = at[u]
        /\ PointsSame({"io_device_free", "destroy_cb", "complete"})
    BY <1>1, <1>2, <1>3, StepPoints DEF Inv2, IndInv, thrVars
  <1>5. ChannelsOK'
    BY <1>1 DEF Inv2, ChannelsOK, devVars, refVars, chVars
  <1> QED
    BY <1>1, <1>4, <1>5, Frame2 DEF devVars, lifeVars, flagVars, refVars, chVars, thrVars,
       IndInv, CountSame

(* spdk_thread_exit is called: the thread is not gone yet. *)
LEMMA ExitCall2 ==
  ASSUME IndInv, Inv2, NEW t \in Threads, spdk_thread_exit(t)
  PROVE  Inv2'
  <1>1. /\ state' = [state EXCEPT ![t] = "EXITING"]
        /\ UNCHANGED <<devVars, chVars, iter, pending_unregister_count, thr_for_each_count,
                       messages, at, fault>>
    BY DEF spdk_thread_exit
  <1>2. \A u \in Threads : Gone(u)' => Gone(u) /\ at'[u] = at[u]
    BY <1>1 DEF Gone, IndInv, TypeOK
  <1>3. ChannelsOK'
    BY <1>1 DEF Inv2, ChannelsOK, devVars, refVars, chVars
  <1> QED
    BY <1>1, <1>2, <1>3, Frame2 DEF devVars, lifeVars, flagVars, refVars, chVars,
       IndInv, CountSame, PointsSame

(* The thread may exit: the library has nothing left to do there. *)
LEMMA ExitChecks2 ==
  ASSUME IndInv, Inv2, NEW t \in Threads, ExitChecks(t)
  PROVE  Inv2'
  <1> DEFINE p == [pt |-> "exited"]
  <1>1. /\ at[t].pt = "idle" /\ at' = [at EXCEPT ![t] = p] /\ p.pt = "exited" /\ MayExit(t)
        /\ UNCHANGED <<devVars, chVars, iter, thrVars, messages, fault>>
    BY DEF ExitChecks, Runs, At, Goto
  <1>2. at'[t] = p /\ \A u \in Threads : u # t => at'[u] = at[u]
    BY <1>1 DEF IndInv, TypeOK
  <1>3. /\ PointsSame({"io_device_free"}) /\ PointsSame({"destroy_cb"}) /\ PointsSame({"complete"})
    BY <1>1, <1>2 DEF PointsSame
  <1>4. /\ UNCHANGED <<life, unregistered, g_io_devices, unregister_cb, unregister_thread>>
        /\ UNCHANGED <<iter, for_each_count, thr_for_each_count, pending_unregister_count>>
        /\ UNCHANGED <<io_channels, dev_threads, ref, destroy_ref, messages, state>>
    BY <1>1 DEF devVars, lifeVars, flagVars, refVars, chVars, thrVars
  <1>5. ChannelsOK'
    BY <1>4 DEF Inv2, ChannelsOK
  <1>6. FreesOK'
    <2>1. \A d : Holders(d)' = Holders(d)
      BY <1>3, <1>4, HoldersSame
    <2> QED
      BY <1>1, <1>3, <1>4, <2>1, FreesKept DEF Inv2, CountSame
  <1>7. ItersOK'
    BY <1>3, <1>4, IterDevs, ItersKept DEF Inv2, CountSame, IndInv
  <1>8. \A u \in Threads : Started(u)' = Started(u) /\ Unregs(u)' = Unregs(u)
    BY <1>4 DEF Started, Unregs
  <1>9. CountsOK'
    BY <1>4, <1>8 DEF Inv2, CountsOK
  <1>10. Started(t) = {} /\ Unregs(t) = {}
    BY <1>1, NoneLeft2 DEF MayExit, Inv2, CountsOK
  <1>11. \A i \in Iters : iter[i].st = "queued" => iter[i].cur # t
    <2>1. \A i \in Iters : Count(messages, t, CallMsg(i)) = 0
      BY <1>1, FS_EmptySet DEF MayExit, Count, Places
    <2> QED
      BY <2>1 DEF Inv2, ItersOK, CarriedOK
  <1>12. GoneOK'
    <2>1. ASSUME NEW u \in Threads, Gone(u)'
          PROVE  u # t => Gone(u) /\ at'[u] = at[u]
      BY <1>2, <1>4, <2>1 DEF Gone
    <2> QED
      BY <1>1, <1>2, <1>4, <1>8, <1>10, <1>11, <2>1 DEF Inv2, GoneOK, MayExit
  <1> QED
    BY <1>5, <1>6, <1>7, <1>9, <1>12 DEF Inv2

(* The thread is marked as exited. *)
LEMMA ExitMarks2 ==
  ASSUME IndInv, Inv2, NEW t \in Threads, ExitMarks(t)
  PROVE  Inv2'
  <1>1. /\ at[t].pt = "exited" /\ at' = [at EXCEPT ![t] = Idle] /\ Idle.pt = "idle"
        /\ state' = [state EXCEPT ![t] = "EXITED"]
        /\ UNCHANGED <<devVars, chVars, iter, pending_unregister_count, thr_for_each_count,
                       messages, fault>>
    BY DEF ExitMarks, At, Goto, Idle
  <1>2. /\ at'[t] = Idle /\ \A u \in Threads : u # t => at'[u] = at[u] /\ state'[u] = state[u]
    BY <1>1 DEF IndInv, TypeOK
  <1>3. /\ PointsSame({"io_device_free"}) /\ PointsSame({"destroy_cb"}) /\ PointsSame({"complete"})
    BY <1>1, <1>2 DEF PointsSame
  <1>4. /\ UNCHANGED <<life, unregistered, g_io_devices, unregister_cb, unregister_thread>>
        /\ UNCHANGED <<iter, for_each_count, thr_for_each_count, pending_unregister_count>>
        /\ UNCHANGED <<io_channels, dev_threads, ref, destroy_ref, messages>>
    BY <1>1 DEF devVars, lifeVars, flagVars, refVars, chVars
  <1>5. ChannelsOK'
    BY <1>4 DEF Inv2, ChannelsOK
  <1>6. FreesOK'
    <2>1. \A d : Holders(d)' = Holders(d)
      BY <1>3, <1>4, HoldersSame
    <2> QED
      BY <1>1, <1>3, <1>4, <2>1, FreesKept DEF Inv2, CountSame
  <1>7. ItersOK'
    BY <1>3, <1>4, IterDevs, ItersKept DEF Inv2, CountSame, IndInv
  <1>8. \A u \in Threads : Started(u)' = Started(u) /\ Unregs(u)' = Unregs(u)
    BY <1>4 DEF Started, Unregs
  <1>9. CountsOK'
    BY <1>4, <1>8 DEF Inv2, CountsOK
  <1>10. Gone(t) /\ \A u \in Threads : Gone(u)' => Gone(u)
    BY <1>1, <1>2 DEF Gone
  <1>11. GoneOK'
    BY <1>1, <1>2, <1>4, <1>8, <1>10 DEF Inv2, GoneOK
  <1> QED
    BY <1>5, <1>6, <1>7, <1>9, <1>11 DEF Inv2

-----------------------------------------------------------------------------
(* Devices. *)

(* Nobody frees d, and nobody is to. *)
LEMMA NobodyFreesNext ==
  ASSUME NEW d \in Devs,
         \A t \in Threads : ~Freeing(t, d)' /\ Finishing(t, d)' = 0,
         ~(d \in unregistered' /\ Holders(d)' = {} /\ life'[d] = "live")
  PROVE  OneFree(d)'
  BY DEF OneFree

(* One thread is about to free d. *)
LEMMA ThreadFreesNext ==
  ASSUME NEW d \in Devs, NEW t \in Threads, Freeing(t, d)',
         \A u \in Threads : Finishing(u, d)' = 0 /\ (Freeing(u, d)' => u = t),
         d \in unregistered', Holders(d)' = {}, life'[d] = "live"
  PROVE  OneFree(d)'
  BY DEF OneFree

(* One message is to free d. *)
LEMMA MessageFreesNext ==
  ASSUME NEW d \in Devs, NEW t \in Threads, Finishing(t, d)' = 1,
         \A u \in Threads : ~Freeing(u, d)' /\ (u # t => Finishing(u, d)' = 0),
         d \in unregistered', Holders(d)' = {}, life'[d] = "live",
         d \in unregister_cb', unregister_thread'[d] = t
  PROVE  OneFree(d)'
  <1>1. \A u \in Threads : Finishing(u, d)' > 0 => u = t
    OBVIOUS
  <1>2. \E u \in Threads : Freeing(u, d)' \/ Finishing(u, d)' > 0
    OBVIOUS
  <1> QED
    BY <1>1, <1>2 DEF OneFree

(* What nobody frees. *)
LEMMA NotFreed ==
  ASSUME IndInv, Inv2, fault = "none", NEW d \in Devs,
         d \notin unregistered \/ Holders(d) # {} \/ life[d] # "live"
  PROVE  \A t \in Threads : ~Freeing(t, d) /\ Finishing(t, d) = 0
  <1>1. OneFree(d)
    BY DEF Inv2, FreesOK
  <1>2. \A t \in Threads : Finishing(t, d) \in Nat
    BY CountNat DEF Finishing, IndInv, TypeOK, Rings
  <1> QED
    BY <1>1, <1>2 DEF OneFree

(* A registered device is alive. *)
LEMMA RegisteredLives ==
  ASSUME IndInv, NEW d \in g_io_devices
  PROVE  d \in Devs /\ life[d] = "live" /\ d \notin unregistered
  BY DEF IndInv, TypeOK, ClosedOK, Closing

(* A new struct enters the tree. *)
LEMMA Register2 ==
  ASSUME IndInv, Inv2, NEW t \in Threads, NEW d \in Devs, spdk_io_device_register(t, d)
  PROVE  Inv2'
  <1>1. /\ fault = "none" /\ life[d] = "unused" /\ g_io_devices = {} /\ g_io_devices' = {d}
        /\ life' = [life EXCEPT ![d] = "live"] /\ life \in [Devs -> {"unused", "live", "freed"}]
    BY DEF spdk_io_device_register, Runs, At, IndInv, TypeOK
  <1>2. UNCHANGED <<unregistered, unregister_cb, unregister_thread, for_each_count, dev_threads,
                    io_channels, ref, destroy_ref, iter, state, pending_unregister_count,
                    thr_for_each_count, messages, at, fault>>
    BY DEF spdk_io_device_register, flagVars, refVars, chVars, thrVars
  <1>3. d \notin unregistered /\ \A e \in Devs : e # d => life'[e] = life[e]
    BY <1>1 DEF IndInv, ClosedOK
  <1>4. \A e : Holders(e)' = Holders(e)
    BY <1>2 DEF Holders
  <1>5. \A K, m : PointsSame(K) /\ CountSame(m)
    BY <1>2 DEF PointsSame, CountSame
  <1>6. ChannelsOK'
    BY <1>2 DEF Inv2, ChannelsOK
  <1>7. FreesOK'
    <2>1. ASSUME NEW e \in Devs
          PROVE  OneFree(e)'
      <3>1. CASE e = d
        <4>1. \A u \in Threads : ~Freeing(u, d) /\ Finishing(u, d) = 0
          BY <1>1, <1>3, NotFreed
        <4>2. \A u \in Threads : ~Freeing(u, d)' /\ Finishing(u, d)' = 0
          BY <1>2, <4>1 DEF Freeing, Finishing
        <4> QED
          BY <1>2, <1>3, <3>1, <4>2, NobodyFreesNext
      <3>2. CASE e # d
        <4>1. OneFree(e)
          BY <1>1 DEF Inv2, FreesOK
        <4> QED
          BY <1>2, <1>3, <1>4, <1>5, <3>2, <4>1, OneFreeKept
      <3> QED
        BY <3>1, <3>2
    <2> QED
      BY <1>1, <1>2, <1>3, <2>1 DEF Inv2, FreesOK
  <1>8. ItersOK'
    BY <1>1, <1>2, <1>5, IterDevs, ItersKept DEF Inv2, IndInv
  <1>9. CountsOK' /\ GoneOK'
    <2>1. \A u \in Threads : Started(u)' = Started(u)
      BY <1>2 DEF Started
    <2>2. \A u \in Threads : Unregs(u)' = Unregs(u)
      <3>1. \A e \in unregistered : e \in Devs /\ life'[e] = life[e]
        BY <1>3 DEF IndInv, TypeOK
      <3> QED
        BY <1>2, <3>1 DEF Unregs
    <2>3. \A u \in Threads : Gone(u)' <=> Gone(u)
      BY <1>2 DEF Gone
    <2> QED
      BY <1>2, <2>1, <2>2, <2>3, ExitsKept DEF Inv2
  <1> QED
    BY <1>6, <1>7, <1>8, <1>9 DEF Inv2

(* A device is marked, or leaves the tree, on rings that lost no message about it or
   about an iteration. *)
LEMMA Unregister2 ==
  ASSUME IndInv, Inv2, NEW t \in Threads, NEW d \in g_io_devices, NEW cb \in BOOLEAN,
         Runs(t), Unregister(t, d, cb),
         \A e \in Devs : CountSame(FinishMsg(e)),
         \A i \in Iters : CountSame(CallMsg(i)) /\ CountSame(CplMsg(i))
  PROVE  Inv2'
  <1>1. /\ fault = "none" /\ at[t].pt = "idle" /\ ~Gone(t)
        /\ UNCHANGED <<life, for_each_count, dev_threads, io_channels, ref, destroy_ref, iter, state,
                       thr_for_each_count>>
    BY ActsNotGone DEF Runs, At, Unregister, refVars, chVars, Inv2
  <1>2. d \in Devs /\ life[d] = "live" /\ d \notin unregistered
    BY RegisteredLives
  <1>3. /\ unregister_cb' = IF cb THEN unregister_cb \cup {d} ELSE unregister_cb \ {d}
        /\ unregister_thread' = [unregister_thread EXCEPT ![d] = t]
        /\ unregister_thread \in [Devs -> Threads \cup {NoThread}]
    BY DEF Unregister, IndInv, TypeOK
  <1>4. ChannelsOK'
    BY <1>1 DEF Inv2, ChannelsOK
  <1>5. \A u \in Threads : ~Freeing(u, d) /\ Finishing(u, d) = 0 /\ Finishing(u, d)' = 0
    BY <1>1, <1>2, NotFreed DEF CountSame, Finishing
  <1>6. \A u \in Threads : Started(u)' = Started(u)
    BY <1>1 DEF Started
  <1>7. \A e \in Devs : e # d => /\ (e \in unregister_cb') = (e \in unregister_cb)
                                 /\ unregister_thread'[e] = unregister_thread[e]
    BY <1>3
  <1>8. CASE Iterated(d)
    <2>1. UNCHANGED <<unregistered, g_io_devices, pending_unregister_count, at>>
      BY <1>8 DEF Unregister
    <2>2. /\ \A e : Holders(e)' = Holders(e)
          /\ \A K : PointsSame(K)
      BY <1>1, <2>1 DEF Holders, PointsSame
    <2>3. FreesOK'
      <3>1. ASSUME NEW e \in Devs
            PROVE  OneFree(e)'
        <4>1. CASE e = d
          BY <1>2, <1>5, <2>1, <4>1, NobodyFreesNext DEF Freeing
        <4>2. CASE e # d
          <5>1. OneFree(e)
            BY <1>1 DEF Inv2, FreesOK
          <5> QED
            BY <1>1, <1>7, <2>1, <2>2, <4>2, <5>1, OneFreeKept
        <4> QED
          BY <4>1, <4>2
      <3> QED
        BY <1>1, <2>1, <3>1 DEF Inv2, FreesOK
    <2>4. ItersOK'
      BY <1>1, <2>1, <2>2, IterDevs, ItersKept DEF Inv2, IndInv
    <2>5. CountsOK' /\ GoneOK'
      <3>1. \A u \in Threads : Unregs(u)' = Unregs(u)
        BY <1>1, <1>2, <1>3, <1>7, <2>1 DEF Unregs, IndInv, TypeOK
      <3>2. \A u \in Threads : Gone(u)' <=> Gone(u)
        BY <1>1, <2>1 DEF Gone
      <3> QED
        BY <1>1, <1>6, <2>1, <3>1, <3>2, ExitsKept DEF Inv2
    <2> QED
      BY <1>4, <2>3, <2>4, <2>5 DEF Inv2
  <1>9. CASE ~Iterated(d)
    <2> DEFINE p == [pt |-> "io_device_free", dev |-> d]
               q == IF refcnt[d] > 0 THEN at[t] ELSE p
    <2>1. /\ unregistered' = unregistered \cup {d} /\ g_io_devices' = g_io_devices \ {d}
          /\ pending_unregister_count' = [pending_unregister_count EXCEPT ![t] = IF cb THEN @ + 1 ELSE @]
      BY <1>9 DEF Unregister
    <2>2. at' = [at EXCEPT ![t] = q] /\ q.pt \in {"idle", "io_device_free"}
      BY <1>1, <1>9 DEF Unregister, IndInv, TypeOK
    <2>3. /\ at'[t] = q /\ \A u \in Threads : u # t => at'[u] = at[u]
          /\ \A u \in Threads : Gone(u)' => Gone(u) /\ at'[u] = at[u]
          /\ PointsSame({"destroy_cb"}) /\ PointsSame({"complete"})
      <3> HIDE DEF q
      <3> QED
        BY <1>1, <2>2, StepPoints DEF IndInv, Inv2
    <2>4. \A e : Holders(e)' = Holders(e)
      BY <1>1, <2>3, HoldersSame
    <2>5. refcnt[d] > 0 <=> Holders(d) # {}
      <3>1. refcnt[d] = Cardinality(Holders(d)) /\ refcnt[d] \in Nat
        BY <1>2 DEF IndInv, RefcntCountsHolders, TypeOK
      <3> QED
        BY <3>1, HoldersFinite, FS_EmptySet
    <2>6. FreesOK'
      <3>1. OneFree(d)'
        <4>1. CASE refcnt[d] > 0
          <5>1. \A u \in Threads : at'[u] = at[u]
            BY <2>3, <4>1
          <5> QED
            BY <1>2, <1>5, <2>4, <2>5, <4>1, <5>1, NobodyFreesNext DEF Freeing
        <4>2. CASE ~(refcnt[d] > 0)
          <5>1. Freeing(t, d)' /\ \A u \in Threads : Freeing(u, d)' => u = t
            BY <1>5, <2>3, <4>2 DEF Freeing
          <5>2. d \in unregistered' /\ Holders(d)' = {} /\ life'[d] = "live"
            BY <1>1, <1>2, <2>1, <2>4, <2>5, <4>2
          <5> QED
            BY <1>2, <1>5, <5>1, <5>2, ThreadFreesNext
        <4> QED
          BY <4>1, <4>2
      <3>2. ASSUME NEW e \in Devs, e # d
            PROVE  OneFree(e)'
        <4>1. OneFree(e)
          BY <1>1 DEF Inv2, FreesOK
        <4>2. \A u \in Threads : Freeing(u, e)' <=> Freeing(u, e)
          BY <1>1, <2>3, <3>2 DEF Freeing
        <4>3. \A u \in Threads : Finishing(u, e)' = Finishing(u, e)
          BY DEF Finishing, CountSame
        <4>4. /\ Holders(e)' = Holders(e) /\ life'[e] = life[e]
              /\ (e \in unregistered' <=> e \in unregistered)
              /\ (e \in unregister_cb' <=> e \in unregister_cb)
              /\ unregister_thread'[e] = unregister_thread[e]
          BY <1>1, <1>7, <2>1, <2>4, <3>2
        <4> QED
          BY <4>1, <4>2, <4>3, <4>4 DEF OneFree
      <3> QED
        BY <1>1, <2>1, <3>1, <3>2 DEF Inv2, FreesOK
    <2>7. ItersOK'
      <3>1. Active(d) = {}
        <4>1. IsFiniteSet(Active(d)) /\ for_each_count[d] = Cardinality(Active(d))
          BY <1>2 DEF Inv2, ItersOK, ActiveOK
        <4>2. Cardinality(Active(d)) = 0
          BY <1>9, <4>1, FS_CardinalityType DEF Iterated
        <4> QED
          BY <4>1, <4>2, NoneLeft2
      <3>2. \A e \in Devs : Active(e) # {} => (e \in g_io_devices => e \in g_io_devices')
        BY <2>1, <3>1
      <3> QED
        BY <1>1, <2>3, <3>2, IterDevs, ItersKept DEF Inv2, IndInv
    <2>8. /\ \A u \in Threads : u # t => Unregs(u)' = Unregs(u)
          /\ Unregs(t)' = IF cb THEN Unregs(t) \cup {d} ELSE Unregs(t)
      BY <1>1, <1>2, <1>3, <1>7, <2>1 DEF Unregs, IndInv, TypeOK
    <2>9. CountsOK'
      <3>1. /\ IsFiniteSet(Unregs(t)) /\ pending_unregister_count[t] = Cardinality(Unregs(t))
            /\ d \notin Unregs(t)
        BY <1>2 DEF Inv2, CountsOK, Unregs
      <3>2. /\ IsFiniteSet(Unregs(t) \cup {d})
            /\ Cardinality(Unregs(t) \cup {d}) = Cardinality(Unregs(t)) + 1
        BY <3>1, FS_AddElement
      <3>3. /\ pending_unregister_count'[t] = IF cb THEN pending_unregister_count[t] + 1
                                              ELSE pending_unregister_count[t]
            /\ \A u \in Threads : u # t => pending_unregister_count'[u] = pending_unregister_count[u]
        BY <2>1 DEF IndInv, TypeOK
      <3>4. IsFiniteSet(Unregs(t)') /\ pending_unregister_count'[t] = Cardinality(Unregs(t)')
        BY <2>8, <3>1, <3>2, <3>3
      <3> QED
        BY <1>1, <1>6, <2>8, <3>3, <3>4 DEF Inv2, CountsOK
    <2>10. GoneOK'
      BY <1>1, <1>6, <2>3, <2>8 DEF Inv2, GoneOK
    <2> QED
      BY <1>4, <2>6, <2>7, <2>9, <2>10 DEF Inv2
  <1> QED
    BY <1>8, <1>9

(* The user unregisters a device. *)
LEMMA UserUnregister2 ==
  ASSUME IndInv, Inv2, NEW t \in Threads, NEW d \in Devs, NEW cb \in BOOLEAN,
         spdk_io_device_unregister(t, d, cb)
  PROVE  Inv2'
  <1>1. Runs(t) /\ d \in g_io_devices /\ Unregister(t, d, cb) /\ UNCHANGED messages
    BY DEF spdk_io_device_unregister, Quiet
  <1>2. \A m : CountSame(m)
    BY <1>1 DEF CountSame
  <1> QED
    BY <1>1, <1>2, Unregister2

(* The deferred unregister runs, or finds that it must stop. *)
LEMMA DeferredUnregister2 ==
  ASSUME IndInv, Inv2, NEW t \in Threads, __pending_unregister(t)
  PROVE  Inv2'
  <1> DEFINE d == Arg(t)
  <1>1. /\ Runs(t) /\ messages[t] # <<>> /\ Head(messages[t]).fn = "__pending_unregister"
        /\ messages' = Pop(t)
    BY DEF __pending_unregister, Handles, Fail, Quiet
  <1>2. /\ \A e \in Devs : CountSame(FinishMsg(e))
        /\ \A i \in Iters : CountSame(CallMsg(i)) /\ CountSame(CplMsg(i))
    <2>1. /\ \A e \in Devs : Head(messages[t]) # FinishMsg(e)
          /\ \A i \in Iters : Head(messages[t]) # CallMsg(i) /\ Head(messages[t]) # CplMsg(i)
      BY <1>1 DEF FinishMsg, CallMsg, CplMsg
    <2> QED
      BY <1>1, <2>1, PopEffect DEF CountSame, IndInv
  <1>3. CASE \E e \in g_io_devices : Unregister(t, e, d \in unregister_cb)
    <2>1. PICK e \in g_io_devices : Unregister(t, e, d \in unregister_cb)
      BY <1>3
    <2>2. Unregister(t, e, TRUE) \/ Unregister(t, e, FALSE)
      BY <2>1 DEF Unregister
    <2> QED
      BY ONLY IndInv, Inv2, <1>1, <1>2, <2>2, Unregister2
  <1>4. CASE UNCHANGED <<devVars, chVars, iter, thrVars, at>>
    <2>1. ChannelsOK'
      BY <1>4 DEF Inv2, ChannelsOK, devVars, refVars, chVars
    <2>2. fault = "none"
      BY <1>1 DEF Runs, At
    <2> QED
      BY <1>2, <1>4, <2>1, <2>2, Frame2 DEF devVars, lifeVars, flagVars, refVars, chVars, thrVars,
         IndInv, PointsSame, Gone
  <1> QED
    BY <1>3, <1>4 DEF __pending_unregister

(* The free itself, or unregister_cb sent to its thread. *)
LEMMA Free2 ==
  ASSUME IndInv, Inv2, NEW t \in Threads, io_device_free(t)
  PROVE  Inv2'
  <1>0. PICK d \in Devs : d = at[t].dev
    BY Typing DEF io_device_free, IndInv
  <1>1. /\ fault = "none" /\ at[t] = [pt |-> "io_device_free", dev |-> d] /\ Freeing(t, d)
        /\ at' = [at EXCEPT ![t] = Idle] /\ Idle.pt = "idle" /\ at[t].pt = "io_device_free"
    <2>1. at[t] \in Point /\ at[t].pt = "io_device_free" /\ fault = "none"
      BY DEF IndInv, TypeOK, io_device_free, At
    <2>2. at[t] = [pt |-> "io_device_free", dev |-> d]
      BY <1>0, <2>1 DEF Point, Idle
    <2> QED
      BY <2>1, <2>2 DEF Freeing, Idle, io_device_free, Goto
  <1>2. UNCHANGED <<g_io_devices, unregistered, unregister_cb, unregister_thread, for_each_count,
                    dev_threads, io_channels, ref, destroy_ref, iter, state,
                    pending_unregister_count, thr_for_each_count>>
    BY DEF io_device_free, flagVars, refVars, chVars, thrVars
  <1>3. /\ d \notin unregister_cb =>
             life' = [life EXCEPT ![d] = "freed"] /\ UNCHANGED <<messages, fault>>
        /\ d \in unregister_cb =>
             /\ life' = life
             /\ spdk_thread_send_msg(messages, unregister_thread[d], FinishMsg(d))
    BY <1>0 DEF io_device_free, Quiet, FinishMsg
  <1>4. /\ d \in unregistered /\ Holders(d) = {} /\ life[d] = "live"
        /\ \A u \in Threads : Finishing(u, d) = 0 /\ (Freeing(u, d) => u = t)
    BY <1>1 DEF Inv2, FreesOK, OneFree
  <1>5. ~Gone(t)
    BY <1>1, ActsNotGone DEF Inv2
  <1>6. /\ at'[t] = Idle /\ \A u \in Threads : u # t => at'[u] = at[u]
        /\ \A u \in Threads : Gone(u)' => Gone(u) /\ at'[u] = at[u]
        /\ PointsSame({"destroy_cb"}) /\ PointsSame({"complete"})
    BY <1>1, <1>2, <1>5, StepPoints DEF Inv2, IndInv
  <1>7. \A e : Holders(e)' = Holders(e)
    BY <1>2, <1>6, HoldersSame
  <1>8. \A u \in Threads, e \in Devs : Freeing(u, e)' <=> Freeing(u, e) /\ e # d
    BY <1>1, <1>4, <1>6 DEF Freeing
  <1>9. unregister_thread[d] \in Threads /\ FinishMsg(d) \in Msg /\ messages \in Rings
    BY <1>4 DEF IndInv, ThreadKnown, FinishMsg, Msg, TypeOK, Rings
  <1>10. \A m : m # FinishMsg(d) => CountSame(m)
    BY <1>3, <1>9, SendEffect DEF CountSame, IndInv
  <1>11. \A e \in Devs : e # d => life'[e] = life[e]
    BY <1>3 DEF IndInv, TypeOK
  <1>12. ChannelsOK'
    BY <1>2 DEF Inv2, ChannelsOK
  <1>13. FreesOK'
    <2>1. ASSUME NEW e \in Devs, e # d
          PROVE  OneFree(e)'
      <3>1. OneFree(e) /\ \A u \in Threads : Finishing(u, e)' = Finishing(u, e)
        BY <1>1, <1>10, <2>1, MsgsDiffer DEF Inv2, FreesOK, CountSame, Finishing
      <3> QED
        BY <1>2, <1>7, <1>8, <1>11, <2>1, <3>1 DEF OneFree
    <2>2. CASE d \notin unregister_cb
      <3>1. life'[d] = "freed" /\ messages' = messages
        BY <1>3, <2>2 DEF IndInv, TypeOK
      <3>2. \A u \in Threads : ~Freeing(u, d)' /\ Finishing(u, d)' = 0
        BY <1>4, <1>8, <3>1 DEF Finishing
      <3>3. OneFree(d)'
        BY <3>1, <3>2, NobodyFreesNext
      <3> QED
        BY <1>2, <1>11, <2>1, <3>1, <3>3 DEF Inv2, FreesOK
    <2>3. CASE d \in unregister_cb
      <3>0. PICK to \in Threads : to = unregister_thread[d]
        BY <1>9
      <3>1. ASSUME fault' = "none"
            PROVE  OneFree(d)'
        <4>1. state[to] # "EXITED"
          BY <1>3, <2>3, <3>0, <3>1 DEF spdk_thread_send_msg
        <4>2. /\ Count(messages', to, FinishMsg(d)) = Count(messages, to, FinishMsg(d)) + 1
              /\ \A u \in Threads :
                   u # to => Count(messages', u, FinishMsg(d)) = Count(messages, u, FinishMsg(d))
          BY <1>3, <1>9, <2>3, <3>0, <4>1, SendEffect DEF IndInv
        <4>3. Finishing(to, d)' = 1 /\ \A u \in Threads : u # to => Finishing(u, d)' = 0
          BY <1>4, <4>2 DEF Finishing
        <4>4. d \in unregistered' /\ Holders(d)' = {} /\ life'[d] = "live"
              /\ d \in unregister_cb' /\ unregister_thread'[d] = to
          BY <1>2, <1>3, <1>4, <1>7, <2>3, <3>0
        <4>5. \A u \in Threads : ~Freeing(u, d)'
          BY <1>8
        <4> QED
          BY <4>3, <4>4, <4>5, MessageFreesNext
      <3> QED
        BY <1>2, <1>3, <2>1, <2>3, <3>1 DEF Inv2, FreesOK
    <2> QED
      BY <2>2, <2>3
  <1>14. ItersOK'
    BY <1>2, <1>6, <1>10, IterDevs, ItersKept, MsgsDiffer DEF Inv2, IndInv
  <1>15. CountsOK' /\ GoneOK'
    <2>1. \A u \in Threads : Started(u)' = Started(u)
      BY <1>2 DEF Started
    <2>2. \A u \in Threads : Unregs(u)' = Unregs(u)
      <3>1. \A e \in unregistered \cap unregister_cb : life'[e] = life[e]
        BY <1>3, <1>11 DEF IndInv, TypeOK
      <3> QED
        BY <1>2, <3>1 DEF Unregs
    <2> QED
      BY <1>2, <1>6, <2>1, <2>2, ExitsKept DEF Inv2
  <1> QED
    BY <1>12, <1>13, <1>14, <1>15 DEF Inv2

(* unregister_cb runs. *)
LEMMA Finish2 ==
  ASSUME IndInv, Inv2, NEW t \in Threads, _finish_unregister(t)
  PROVE  Inv2'
  <1>0. PICK d \in Devs : d = Arg(t) /\ Head(messages[t]) = FinishMsg(d)
    BY Typing DEF IndInv, _finish_unregister, FinishMsg
  <1>1. /\ fault = "none" /\ messages[t] # <<>> /\ messages' = Pop(t) /\ Runs(t)
        /\ life' = [life EXCEPT ![d] = "freed"]
        /\ pending_unregister_count' = [pending_unregister_count EXCEPT ![t] = @ - 1]
        /\ UNCHANGED <<g_io_devices, unregistered, unregister_cb, unregister_thread, for_each_count,
                       dev_threads, io_channels, ref, destroy_ref, iter, state,
                       thr_for_each_count, at, fault>>
    BY <1>0 DEF _finish_unregister, Quiet, Handles, Runs, At, flagVars, refVars, chVars
  <1>2. /\ \A u \in Threads : \A x : Count(messages', u, x) =
              IF u = t /\ x = FinishMsg(d) THEN Count(messages, u, x) - 1 ELSE Count(messages, u, x)
        /\ messages' \in Rings
    BY <1>0, <1>1, PopEffect DEF IndInv
  <1>3. Finishing(t, d) > 0
    <2>1. Count(messages, t, FinishMsg(d)) \in Nat /\ Count(messages', t, FinishMsg(d)) \in Nat
      BY <1>2, CountNat DEF IndInv, TypeOK, Rings
    <2> QED
      BY <1>2, <2>1 DEF Finishing
  <1>4. /\ Finishing(t, d) = 1 /\ d \in unregister_cb /\ unregister_thread[d] = t
        /\ d \in unregistered /\ Holders(d) = {} /\ life[d] = "live"
        /\ \A u \in Threads : ~Freeing(u, d) /\ (u # t => Finishing(u, d) = 0)
    <2>1. OneFree(d)
      BY <1>1 DEF Inv2, FreesOK
    <2>2. \A u \in Threads : Finishing(u, d) \in Nat
      BY CountNat DEF Finishing, IndInv, TypeOK, Rings
    <2> QED
      BY <1>3, <2>1, <2>2 DEF OneFree
  <1>5. \A u \in Threads : ~Freeing(u, d)' /\ Finishing(u, d)' = 0
    BY <1>1, <1>2, <1>4 DEF Freeing, Finishing
  <1>6. \A m : m # FinishMsg(d) => CountSame(m)
    BY <1>2 DEF CountSame
  <1>7. life'[d] = "freed" /\ \A e \in Devs : e # d => life'[e] = life[e]
    BY <1>1 DEF IndInv, TypeOK
  <1>8. /\ \A e : Holders(e)' = Holders(e)
        /\ \A K : PointsSame(K)
    BY <1>1 DEF Holders, PointsSame
  <1>9. ChannelsOK'
    BY <1>1 DEF Inv2, ChannelsOK
  <1>10. FreesOK'
    <2>1. OneFree(d)'
      BY <1>5, <1>7, NobodyFreesNext
    <2>2. ASSUME NEW e \in Devs, e # d
          PROVE  OneFree(e)'
      <3>1. OneFree(e) /\ CountSame(FinishMsg(e))
        BY <1>1, <1>6, <2>2, MsgsDiffer DEF Inv2, FreesOK
      <3> QED
        BY <1>1, <1>7, <1>8, <2>2, <3>1, OneFreeKept
    <2> QED
      BY <1>1, <1>7, <2>1, <2>2 DEF Inv2, FreesOK
  <1>11. ItersOK'
    BY <1>1, <1>6, <1>8, IterDevs, ItersKept, MsgsDiffer DEF Inv2, IndInv
  <1>12. \A u \in Threads : Started(u)' = Started(u)
    BY <1>1 DEF Started
  <1>13. /\ Unregs(t)' = Unregs(t) \ {d} /\ d \in Unregs(t)
         /\ \A u \in Threads : u # t => Unregs(u)' = Unregs(u)
    BY <1>1, <1>4, <1>7 DEF Unregs, IndInv, TypeOK
  <1>14. CountsOK'
    <2>1. IsFiniteSet(Unregs(t)) /\ pending_unregister_count[t] = Cardinality(Unregs(t))
      BY DEF Inv2, CountsOK
    <2>2. IsFiniteSet(Unregs(t) \ {d}) /\ Cardinality(Unregs(t) \ {d}) = Cardinality(Unregs(t)) - 1
      BY <1>13, <2>1, FS_RemoveElement
    <2>3. /\ pending_unregister_count'[t] = pending_unregister_count[t] - 1
          /\ \A u \in Threads : u # t => pending_unregister_count'[u] = pending_unregister_count[u]
      BY <1>1 DEF IndInv, TypeOK
    <2>4. IsFiniteSet(Unregs(t)') /\ pending_unregister_count'[t] = Cardinality(Unregs(t)')
      BY <1>13, <2>1, <2>2, <2>3
    <2> QED
      BY <1>1, <1>12, <1>13, <2>3, <2>4 DEF Inv2, CountsOK
  <1>15. GoneOK'
    <2>1. \A u \in Threads : Gone(u)' => Gone(u) /\ u # t
      BY <1>1, ActsNotGone DEF Gone, Inv2
    <2> QED
      BY <1>1, <1>12, <1>13, <2>1 DEF Inv2, GoneOK
  <1> QED
    BY <1>9, <1>10, <1>11, <1>14, <1>15 DEF Inv2

-----------------------------------------------------------------------------
(* Channels. *)

(* A new channel. *)
LEMMA GetCreate2 ==
  ASSUME IndInv, Inv2, NEW t \in Threads, NEW d \in Devs, GetCreate(t, d)
  PROVE  Inv2'
  <1> DEFINE p == [pt |-> "create_cb", dev |-> d]
  <1>1. /\ fault = "none" /\ at[t].pt = "idle" /\ ~Gone(t) /\ d \in g_io_devices
        /\ at' = [at EXCEPT ![t] = p] /\ p.pt = "create_cb"
    BY ActsNotGone DEF GetCreate, Runs, At, Goto, Inv2
  <1>2. UNCHANGED <<life, g_io_devices, unregistered, unregister_cb, unregister_thread,
                    for_each_count, iter, state, pending_unregister_count, thr_for_each_count,
                    messages, fault>>
    BY DEF GetCreate, lifeVars, flagVars, thrVars
  <1>3. /\ at'[t] = p /\ \A u \in Threads : u # t => at'[u] = at[u]
        /\ \A u \in Threads : Gone(u)' => Gone(u) /\ at'[u] = at[u]
        /\ PointsSame({"io_device_free"}) /\ PointsSame({"destroy_cb"}) /\ PointsSame({"complete"})
    <2> HIDE DEF p
    <2> QED
      BY <1>1, <1>2, StepPoints DEF Inv2, IndInv
  <1>4. /\ io_channels'[d] = io_channels[d] \cup {t} /\ dev_threads'[d] = dev_threads[d] \cup {t}
        /\ \A e \in Devs : e # d => io_channels'[e] = io_channels[e] /\ dev_threads'[e] = dev_threads[e]
        /\ ref'[t][d] = 1
        /\ \A u \in Threads, e \in Devs :
             u # t \/ e # d => ref'[u][e] = ref[u][e] /\ destroy_ref'[u][e] = destroy_ref[u][e]
    BY DEF GetCreate, IndInv, TypeOK
  <1>5. d \notin unregistered /\ life[d] = "live"
    BY <1>1, RegisteredLives
  <1>6. ChannelsOK'
    <2>1. ASSUME NEW e \in Devs
          PROVE  /\ dev_threads'[e] = io_channels'[e]
                 /\ \A u \in io_channels'[e] : ref'[u][e] = 0 => destroy_ref'[u][e] > 0
      <3>1. /\ dev_threads[e] = io_channels[e] /\ io_channels[e] \subseteq Threads
            /\ \A u \in io_channels[e] : ref[u][e] = 0 => destroy_ref[u][e] > 0
        BY DEF Inv2, ChannelsOK, IndInv, TypeOK
      <3>2. CASE e = d
        <4>1. dev_threads'[d] = io_channels'[d]
          BY <1>4, <3>1, <3>2
        <4>2. ASSUME NEW u \in io_channels'[d], ref'[u][d] = 0
              PROVE  destroy_ref'[u][d] > 0
          <5>1. u # t
            BY <1>4, <4>2
          <5>2. u \in io_channels[d] /\ u \in Threads
            BY <1>4, <3>1, <3>2, <4>2, <5>1
          <5>3. ref'[u][d] = ref[u][d] /\ destroy_ref'[u][d] = destroy_ref[u][d]
            BY <1>4, <5>1, <5>2
          <5> QED
            BY <3>1, <3>2, <4>2, <5>2, <5>3
        <4> QED
          BY <3>2, <4>1, <4>2
      <3>3. CASE e # d
        BY <1>4, <3>1, <3>3
      <3> QED
        BY <3>2, <3>3
    <2> QED
      BY <2>1 DEF ChannelsOK
  <1>7. \A m : CountSame(m)
    BY <1>2 DEF CountSame
  <1>8. FreesOK'
    <2>1. OneFree(d)'
      <3>1. \A u \in Threads : ~Freeing(u, d) /\ Finishing(u, d) = 0
        BY <1>1, <1>5, NotFreed
      <3>2. \A u \in Threads : ~Freeing(u, d)' /\ Finishing(u, d)' = 0
        BY <1>2, <1>3, <3>1 DEF Freeing, Finishing
      <3> QED
        BY <1>2, <1>5, <3>2, NobodyFreesNext
    <2>2. ASSUME NEW e \in Devs, e # d
          PROVE  OneFree(e)'
      <3>1. OneFree(e)
        BY <1>1 DEF Inv2, FreesOK
      <3>2. Holders(e)' = Holders(e)
        BY <1>3, <1>4, <2>2 DEF Holders, PointsSame
      <3> QED
        BY <1>2, <1>3, <1>7, <2>2, <3>1, <3>2, OneFreeKept
    <2> QED
      BY <1>2, <2>1, <2>2 DEF Inv2, FreesOK
  <1>9. ItersOK'
    <2>1. \A e \in Devs : \A u \in io_channels[e] : u \in io_channels'[e]
      BY <1>4
    <2> QED
      BY <1>2, <1>3, <1>7, <2>1, IterDevs, ItersKept DEF Inv2, IndInv
  <1>10. CountsOK' /\ GoneOK'
    <2>1. \A u \in Threads : Started(u)' = Started(u) /\ Unregs(u)' = Unregs(u)
      BY <1>2 DEF Started, Unregs
    <2>2. \A u \in Threads, e \in Devs : Gone(u) /\ u \in io_channels'[e] => u \in io_channels[e]
      BY <1>1, <1>4
    <2> QED
      BY <1>2, <1>3, <2>1, <2>2, ExitsKept DEF Inv2
  <1> QED
    BY <1>6, <1>8, <1>9, <1>10 DEF Inv2
(* A holder lets go: nobody frees the device but the last one, who does. *)
LEMMA Dropped ==
  ASSUME IndInv, Inv2, fault = "none", NEW t \in Threads, NEW d \in Devs, t \in Holders(d),
         Holders(d)' = Holders(d) \ {t},
         \A e \in Devs : e # d => Holders(e)' = Holders(e),
         at[t].pt \in {"create_cb", "destroy_cb"},
         at' = [at EXCEPT ![t] = AfterDrop(d, refcnt[d] - 1)],
         UNCHANGED <<life, g_io_devices, unregistered, unregister_cb, unregister_thread, messages>>
  PROVE  FreesOK'
  <1>1. refcnt[d] - 1 = 0 <=> Holders(d)' = {}
    <2>1. refcnt[d] = Cardinality(Holders(d)) /\ IsFiniteSet(Holders(d) \ {t})
      BY HoldersFinite, FS_Subset DEF IndInv, RefcntCountsHolders
    <2>2. Cardinality(Holders(d) \ {t}) = Cardinality(Holders(d)) - 1
      BY HoldersFinite, FS_RemoveElement
    <2>3. Cardinality(Holders(d) \ {t}) = 0 <=> Holders(d) \ {t} = {}
      BY <2>1, FS_EmptySet
    <2> QED
      BY <2>1, <2>2, <2>3
  <1>2. /\ at'[t] = AfterDrop(d, refcnt[d] - 1)
        /\ \A u \in Threads : u # t => at'[u] = at[u]
    BY DEF IndInv, TypeOK
  <1>3. d \in unregistered => life[d] = "live"
    BY DEF IndInv, ClosedOK, Closing, TypeOK
  <1>4. \A u \in Threads : ~Freeing(u, d) /\ Finishing(u, d) = 0 /\ Finishing(u, d)' = 0
    BY NotFreed DEF Finishing
  <1>5. OneFree(d)'
    <2>1. CASE d \in unregistered /\ refcnt[d] - 1 = 0
      <3>1. Freeing(t, d)'
        BY <1>2, <2>1 DEF Freeing, AfterDrop
      <3>2. \A u \in Threads : Freeing(u, d)' => u = t
        BY <1>2, <1>4 DEF Freeing
      <3> QED
        BY <1>1, <1>3, <1>4, <2>1, <3>1, <3>2, ThreadFreesNext
    <2>2. CASE ~(d \in unregistered /\ refcnt[d] - 1 = 0)
      <3>1. \A u \in Threads : ~Freeing(u, d)'
        BY <1>2, <1>4, <2>2 DEF Freeing, AfterDrop, Idle
      <3> QED
        BY <1>1, <1>4, <2>2, <3>1, NobodyFreesNext
    <2> QED
      BY <2>1, <2>2
  <1>6. ASSUME NEW e \in Devs, e # d
        PROVE  OneFree(e)'
    <2>1. \A u \in Threads : Freeing(u, e)' <=> Freeing(u, e)
      <3>1. ~Freeing(t, e) /\ ~Freeing(t, e)'
        BY <1>2, <1>6 DEF Freeing, AfterDrop, Idle
      <3> QED
        BY <1>2, <3>1 DEF Freeing
    <2>2. OneFree(e) /\ \A u \in Threads : Finishing(u, e)' = Finishing(u, e)
      BY DEF Inv2, FreesOK, Finishing
    <2> QED
      BY <1>6, <2>1, <2>2 DEF OneFree
  <1> QED
    BY <1>5, <1>6 DEF Inv2, FreesOK

(* A channel leaves the trees: the iterations go on without it. *)
LEMMA Forgotten ==
  ASSUME TypeOK, ItersOK, NEW t \in Threads, NEW d \in Devs, iter' = Forget(t, d),
         io_channels'[d] = io_channels[d] \ {t},
         \A e \in Devs : e # d => io_channels'[e] = io_channels[e],
         UNCHANGED <<for_each_count, g_io_devices>>, PointsSame({"complete"}),
         \A i \in Iters : CountSame(CallMsg(i)) /\ CountSame(CplMsg(i))
  PROVE  /\ ItersOK'
         /\ \A u \in Threads : Started(u)' = Started(u)
         /\ \A i \in Iters : iter'[i].st = iter[i].st /\ iter'[i].cur = iter[i].cur
  <1>1. ASSUME NEW i \in Iters
        PROVE  /\ iter'[i].st = iter[i].st /\ iter'[i].cur = iter[i].cur
               /\ iter'[i].orig = iter[i].orig /\ iter'[i].dev = iter[i].dev
               /\ iter'[i].status = iter[i].status /\ iter[i].dev \in Devs
               /\ iter'[i].owed = IF iter[i].dev = d THEN iter[i].owed \ {t} ELSE iter[i].owed
    <2>1. iter[i] \in Iter
      BY DEF TypeOK
    <2>2. iter'[i] = IF iter[i].dev = d THEN [iter[i] EXCEPT !.owed = @ \ {t}] ELSE iter[i]
      BY DEF Forget
    <2> QED
      BY <2>1, <2>2 DEF Iter
  <1>2. \A i \in Iters : CarriedOK(i)'
    BY <1>1, CarriedKept DEF ItersOK
  <1>3. ASSUME NEW i \in Iters
        PROVE  OwedOK(i)'
    <2>1. OwedOK(i) /\ iter'[i].owed \subseteq iter[i].owed
      BY <1>1 DEF ItersOK
    <2>2. \A u \in iter'[i].owed : u \in io_channels[iter[i].dev] => u \in io_channels'[iter[i].dev]
      BY <1>1
    <2> QED
      BY <1>1, <2>1, <2>2 DEF OwedOK
  <1>4. \A e \in Devs : Active(e)' = Active(e)
    BY <1>1 DEF Active
  <1>5. \A e \in Devs : ActiveOK(e)'
    BY <1>4 DEF ItersOK, ActiveOK
  <1>6. \A u \in Threads : Started(u)' = Started(u)
    BY <1>1 DEF Started
  <1> QED
    BY <1>1, <1>2, <1>3, <1>5, <1>6 DEF ItersOK

(* create_cb failed. *)
LEMMA CreateFails2 ==
  ASSUME IndInv, Inv2, NEW t \in Threads, CreateFails(t)
  PROVE  Inv2'
  <1>0. PICK d \in Devs : d = at[t].dev
    BY Typing DEF CreateFails, IndInv
  <1>1. /\ fault = "none" /\ at[t].pt = "create_cb" /\ at[t] = [pt |-> "create_cb", dev |-> d]
        /\ at' = [at EXCEPT ![t] = AfterDrop(d, refcnt[d] - 1)]
        /\ iter' = Forget(t, d) /\ t \in io_channels[d]
    BY <1>0, PointDev DEF CreateFails, At, Goto, IndInv, PointsOK
  <1>2. UNCHANGED <<life, g_io_devices, unregistered, unregister_cb, unregister_thread,
                    for_each_count, destroy_ref, state, pending_unregister_count,
                    thr_for_each_count, messages, fault>>
    BY DEF CreateFails, lifeVars, flagVars, thrVars
  <1>3. /\ io_channels'[d] = io_channels[d] \ {t} /\ dev_threads'[d] = dev_threads[d] \ {t}
        /\ \A e \in Devs : e # d => io_channels'[e] = io_channels[e] /\ dev_threads'[e] = dev_threads[e]
        /\ \A u \in Threads, e \in Devs : u # t \/ e # d => ref'[u][e] = ref[u][e]
    BY <1>0 DEF CreateFails, IndInv, TypeOK
  <1>4. ~Gone(t)
    BY <1>1, ActsNotGone DEF Inv2
  <1>5. PICK p : p = AfterDrop(d, refcnt[d] - 1) /\ p.pt \in {"idle", "io_device_free"}
    BY AfterDropPoint
  <1>6. /\ at'[t] = p /\ \A u \in Threads : u # t => at'[u] = at[u]
        /\ \A u \in Threads : Gone(u)' => Gone(u) /\ at'[u] = at[u]
        /\ PointsSame({"destroy_cb"}) /\ PointsSame({"complete"})
    BY <1>1, <1>2, <1>4, <1>5, StepPoints DEF Inv2, IndInv
  <1>7. ChannelsOK'
    <2>1. ASSUME NEW e \in Devs
          PROVE  /\ dev_threads'[e] = io_channels'[e]
                 /\ \A u \in io_channels'[e] : ref'[u][e] = 0 => destroy_ref'[u][e] > 0
      <3>1. /\ dev_threads[e] = io_channels[e] /\ io_channels[e] \subseteq Threads
            /\ \A u \in io_channels[e] : ref[u][e] = 0 => destroy_ref[u][e] > 0
        BY DEF Inv2, ChannelsOK, IndInv, TypeOK
      <3>2. dev_threads'[e] = io_channels'[e]
        BY <1>3, <3>1
      <3>3. \A u \in io_channels'[e] : /\ u \in io_channels[e] /\ u \in Threads
                                       /\ u # t \/ e # d
        BY <1>3, <3>1
      <3>4. \A u \in io_channels'[e] : ref'[u][e] = ref[u][e]
        BY <1>3, <3>3
      <3> QED
        BY <1>2, <3>1, <3>2, <3>3, <3>4
    <2> QED
      BY <2>1 DEF ChannelsOK
  <1>8. /\ t \in Holders(d) /\ Holders(d)' = Holders(d) \ {t}
        /\ \A e \in Devs : e # d => Holders(e)' = Holders(e)
    BY <1>1, <1>3, <1>5, <1>6 DEF Holders
  <1>9. FreesOK'
    BY <1>1, <1>2, <1>8, Dropped
  <1>10. \A m : CountSame(m)
    BY <1>2 DEF CountSame
  <1>11. /\ ItersOK'
         /\ \A u \in Threads : Started(u)' = Started(u)
         /\ \A i \in Iters : iter'[i].st = iter[i].st /\ iter'[i].cur = iter[i].cur
    BY <1>1, <1>2, <1>3, <1>6, <1>10, Forgotten DEF Inv2, IndInv
  <1>12. CountsOK' /\ GoneOK'
    <2>1. \A u \in Threads : Unregs(u)' = Unregs(u)
      BY <1>2 DEF Unregs
    <2>2. \A u \in Threads, e \in Devs : u \in io_channels'[e] => u \in io_channels[e]
      BY <1>3
    <2> QED
      BY <1>2, <1>6, <1>11, <2>1, <2>2, ExitsKept DEF Inv2
  <1> QED
    BY <1>7, <1>9, <1>11, <1>12 DEF Inv2

(* destroy_cb returned. *)
LEMMA Destroy2 ==
  ASSUME IndInv, Inv2, NEW t \in Threads, DestroyReturns(t)
  PROVE  Inv2'
  <1>0. PICK d \in Devs : d = at[t].dev
    BY Typing DEF DestroyReturns, IndInv
  <1>1. /\ fault = "none" /\ at[t].pt = "destroy_cb" /\ at[t] = [pt |-> "destroy_cb", dev |-> d]
        /\ at' = [at EXCEPT ![t] = AfterDrop(d, refcnt[d] - 1)]
        /\ t \notin io_channels[d]
    BY <1>0, PointDev DEF DestroyReturns, At, Goto, IndInv, PointsOK
  <1>2. UNCHANGED <<life, g_io_devices, unregistered, unregister_cb, unregister_thread,
                    for_each_count, dev_threads, io_channels, ref, destroy_ref, iter, state,
                    pending_unregister_count, thr_for_each_count, messages, fault>>
    BY DEF DestroyReturns, lifeVars, flagVars, chVars, thrVars
  <1>3. ~Gone(t)
    BY <1>1, ActsNotGone DEF Inv2
  <1>4. PICK p : p = AfterDrop(d, refcnt[d] - 1) /\ p.pt \in {"idle", "io_device_free"}
    BY AfterDropPoint
  <1>5. /\ at'[t] = p /\ \A u \in Threads : u # t => at'[u] = at[u]
        /\ \A u \in Threads : Gone(u)' => Gone(u) /\ at'[u] = at[u]
        /\ PointsSame({"complete"})
    BY <1>1, <1>2, <1>3, <1>4, StepPoints DEF Inv2, IndInv
  <1>6. /\ t \in Holders(d) /\ Holders(d)' = Holders(d) \ {t}
        /\ \A e \in Devs : e # d => Holders(e)' = Holders(e)
    BY <1>1, <1>2, <1>4, <1>5 DEF Holders
  <1>7. FreesOK'
    BY <1>1, <1>2, <1>6, Dropped
  <1>8. \A m : CountSame(m)
    BY <1>2 DEF CountSame
  <1>9. ItersOK'
    BY <1>2, <1>5, <1>8, IterDevs, ItersKept DEF Inv2, IndInv
  <1>10. CountsOK' /\ GoneOK'
    <2>1. \A u \in Threads : Unregs(u)' = Unregs(u) /\ Started(u)' = Started(u)
      BY <1>2 DEF Unregs, Started
    <2> QED
      BY <1>2, <1>5, <2>1, ExitsKept DEF Inv2
  <1>11. ChannelsOK'
    BY <1>2 DEF Inv2, ChannelsOK
  <1> QED
    BY <1>7, <1>9, <1>10, <1>11 DEF Inv2

(* A reference is put; the last one sends the message to its own thread. *)
LEMMA Put2 ==
  ASSUME IndInv, Inv2, NEW t \in Threads, NEW d \in Devs, spdk_put_io_channel(t, d)
  PROVE  Inv2'
  <1>1. /\ fault = "none" /\ state[t] # "EXITED" /\ ref[t][d] \in Nat /\ ref[t][d] > 0
        /\ ref' = [ref EXCEPT ![t][d] = @ - 1]
        /\ UNCHANGED <<devVars, io_channels, iter, thrVars, at>>
    BY DEF spdk_put_io_channel, Runs, At, IndInv, TypeOK
  <1>2. /\ ref'[t][d] = ref[t][d] - 1
        /\ \A u \in Threads, e \in Devs : u # t \/ e # d => ref'[u][e] = ref[u][e]
    BY <1>1 DEF IndInv, TypeOK
  <1>3. UNCHANGED <<dev_threads, io_channels>>
    BY <1>1 DEF devVars, refVars
  <1>4. /\ fault' = fault /\ \A m : m # PutMsg(d) => CountSame(m)
        /\ \A u \in Threads, e \in Devs : u # t \/ e # d => destroy_ref'[u][e] = destroy_ref[u][e]
        /\ ref[t][d] = 1 => destroy_ref'[t][d] > 0
    <2>1. CASE ref[t][d] > 1
      BY <2>1 DEF spdk_put_io_channel, Quiet, CountSame
    <2>2. CASE ref[t][d] = 1
      <3>1. /\ destroy_ref' = [destroy_ref EXCEPT ![t][d] = @ + 1]
            /\ spdk_thread_send_msg(messages, t, PutMsg(d))
        BY <2>2 DEF spdk_put_io_channel, PutMsg
      <3>2. messages \in Rings /\ PutMsg(d) \in Msg
        BY DEF IndInv, TypeOK, Rings, PutMsg, Msg
      <3>3. fault' = fault /\ \A m : m # PutMsg(d) => CountSame(m)
        BY <1>1, <3>1, <3>2, SendEffect DEF IndInv, CountSame
      <3>4. destroy_ref[t][d] \in Nat /\ destroy_ref'[t][d] = destroy_ref[t][d] + 1
        BY <3>1 DEF IndInv, TypeOK
      <3>5. \A u \in Threads, e \in Devs : u # t \/ e # d => destroy_ref'[u][e] = destroy_ref[u][e]
        BY <3>1 DEF IndInv, TypeOK
      <3> QED
        BY <3>3, <3>4, <3>5
    <2> QED
      BY <1>1, <2>1, <2>2
  <1>5. ChannelsOK'
    <2>1. ASSUME NEW e \in Devs, NEW u \in io_channels[e], ref'[u][e] = 0
          PROVE  destroy_ref'[u][e] > 0
      <3>1. u \in Threads /\ (ref[u][e] = 0 => destroy_ref[u][e] > 0)
        BY DEF IndInv, TypeOK, Inv2, ChannelsOK
      <3>2. CASE u = t /\ e = d
        <4>1. ref'[t][d] = 0
          BY <2>1, <3>2
        <4> QED
          BY <1>1, <1>2, <1>4, <3>2, <4>1
      <3>3. CASE u # t \/ e # d
        BY <1>2, <1>4, <2>1, <3>1, <3>3
      <3> QED
        BY <3>2, <3>3
    <2> QED
      BY <1>3, <2>1 DEF ChannelsOK, Inv2
  <1>6. /\ \A e \in Devs : CountSame(FinishMsg(e))
        /\ \A i \in Iters : CountSame(CallMsg(i)) /\ CountSame(CplMsg(i))
    BY <1>4, MsgsDiffer
  <1> QED
    BY <1>1, <1>4, <1>5, <1>6, Frame2 DEF devVars, lifeVars, flagVars, refVars, thrVars, IndInv,
       PointsSame, Gone

(* The message is handled: the channel is in use again, or leaves the trees. *)
LEMMA PutMessage2 ==
  ASSUME IndInv, Inv2, NEW t \in Threads, put_io_channel(t)
  PROVE  Inv2'
  <1>0. PICK d \in Devs : d = Arg(t) /\ Head(messages[t]) = PutMsg(d)
    BY Typing DEF put_io_channel, IndInv, PutMsg
  <1>1. /\ fault = "none" /\ at[t].pt = "idle" /\ ~Gone(t) /\ messages[t] # <<>>
        /\ messages' = Pop(t)
        /\ destroy_ref' = [destroy_ref EXCEPT ![t][d] = @ - 1]
        /\ UNCHANGED <<life, g_io_devices, unregistered, unregister_cb, unregister_thread,
                       for_each_count, ref, state, pending_unregister_count,
                       thr_for_each_count, fault>>
    BY <1>0, ActsNotGone DEF put_io_channel, Handles, Runs, At, Quiet, lifeVars, flagVars, thrVars,
       Inv2
  <1>2. \A u \in Threads : \A x : Count(messages', u, x) =
           IF u = t /\ x = PutMsg(d) THEN Count(messages, u, x) - 1 ELSE Count(messages, u, x)
    BY <1>0, <1>1, PopEffect DEF IndInv
  <1>3. /\ \A e \in Devs : CountSame(FinishMsg(e))
        /\ \A i \in Iters : CountSame(CallMsg(i)) /\ CountSame(CplMsg(i))
    BY <1>2, MsgsDiffer DEF CountSame
  <1>4. destroy_ref[t][d] \in Nat \ {0} /\ t \in io_channels[d]
    <2>1. messages \in Rings /\ messages' \in Rings
      BY <1>1, PopEffect DEF IndInv, TypeOK, Rings
    <2>2. Count(messages, t, PutMsg(d)) \in Nat /\ Count(messages', t, PutMsg(d)) \in Nat
      BY <2>1, CountNat
    <2>3. Count(messages, t, PutMsg(d)) \in Nat \ {0}
      BY <1>2, <2>2
    <2> QED
      BY <2>3 DEF IndInv, PutsOK
  <1>5. /\ destroy_ref'[t][d] = destroy_ref[t][d] - 1
        /\ \A u \in Threads, e \in Devs : u # t \/ e # d => destroy_ref'[u][e] = destroy_ref[u][e]
    BY <1>1 DEF IndInv, TypeOK
  <1>6. ASSUME NEW e \in Devs
        PROVE  /\ dev_threads[e] = io_channels[e]
               /\ \A u \in io_channels[e] :
                    u \in Threads /\ (ref[u][e] = 0 => destroy_ref[u][e] > 0)
    BY DEF IndInv, TypeOK, Inv2, ChannelsOK
  <1>7. CASE ~Abandoned(t, d) /\ UNCHANGED <<io_channels, dev_threads, iter, at>>
    <2>1. ChannelsOK'
      <3>1. ASSUME NEW e \in Devs, NEW u \in io_channels[e], ref[u][e] = 0
            PROVE  destroy_ref'[u][e] > 0
        <4>1. CASE u = t /\ e = d
          <5>1. destroy_ref[t][d] # 1
            BY <1>7, <3>1, <4>1 DEF Abandoned
          <5>2. destroy_ref'[t][d] > 0
            BY <1>4, <1>5, <5>1
          <5> QED
            BY <4>1, <5>2
        <4>2. CASE u # t \/ e # d
          BY <1>5, <1>6, <3>1, <4>2
        <4> QED
          BY <4>1, <4>2
      <3> QED
        BY <1>1, <1>6, <1>7, <3>1 DEF ChannelsOK
    <2> QED
      BY <1>1, <1>3, <1>7, <2>1, Frame2 DEF IndInv, PointsSame, Gone
  <1>8. CASE /\ io_channels' = [io_channels EXCEPT ![d] = @ \ {t}]
             /\ dev_threads' = [dev_threads EXCEPT ![d] = @ \ {t}]
             /\ iter' = Forget(t, d)
             /\ Goto(t, [pt |-> "destroy_cb", dev |-> d])
    <2>a. [pt |-> "destroy_cb", dev |-> d].pt = "destroy_cb"
      OBVIOUS
    <2>0. PICK p : p = [pt |-> "destroy_cb", dev |-> d] /\ p.pt = "destroy_cb"
      BY <2>a, Zenon
    <2>1. /\ io_channels'[d] = io_channels[d] \ {t} /\ dev_threads'[d] = dev_threads[d] \ {t}
          /\ \A e \in Devs :
               e # d => io_channels'[e] = io_channels[e] /\ dev_threads'[e] = dev_threads[e]
      BY <1>8 DEF IndInv, TypeOK
    <2>2. at' = [at EXCEPT ![t] = p]
      BY <1>8, <2>0 DEF Goto
    <2>3. /\ at'[t] = p /\ \A u \in Threads : u # t => at'[u] = at[u]
          /\ \A u \in Threads : Gone(u)' => Gone(u) /\ at'[u] = at[u]
          /\ PointsSame({"io_device_free"}) /\ PointsSame({"complete"})
      BY <1>1, <2>0, <2>2, StepPoints DEF Inv2, IndInv
    <2>4. ChannelsOK'
      <3>1. ASSUME NEW e \in Devs
            PROVE  /\ dev_threads'[e] = io_channels'[e]
                   /\ \A u \in io_channels'[e] : ref'[u][e] = 0 => destroy_ref'[u][e] > 0
        <4>1. dev_threads'[e] = io_channels'[e]
          BY <1>6, <2>1
        <4>2. \A u \in io_channels'[e] : u \in io_channels[e] /\ u \in Threads /\ (u # t \/ e # d)
          BY <1>6, <2>1
        <4>3. \A u \in io_channels'[e] : destroy_ref'[u][e] = destroy_ref[u][e]
          BY <1>5, <4>2
        <4> QED
          BY <1>1, <1>6, <4>1, <4>2, <4>3
      <3> QED
        BY <3>1 DEF ChannelsOK
    <2>5. \A e \in Devs : Holders(e)' = Holders(e)
      BY <1>1, <1>4, <2>0, <2>1, <2>3 DEF Holders
    <2>6. FreesOK'
      BY <1>1, <1>3, <2>3, <2>5, FreesKept DEF Inv2
    <2>7. /\ ItersOK'
          /\ \A u \in Threads : Started(u)' = Started(u)
          /\ \A i \in Iters : iter'[i].st = iter[i].st /\ iter'[i].cur = iter[i].cur
      BY <1>1, <1>3, <1>8, <2>1, <2>3, Forgotten DEF Inv2, IndInv
    <2>8. CountsOK' /\ GoneOK'
      <3>1. \A u \in Threads : Unregs(u)' = Unregs(u)
        BY <1>1 DEF Unregs
      <3>2. \A u \in Threads, e \in Devs : u \in io_channels'[e] => u \in io_channels[e]
        BY <2>1
      <3> QED
        BY <1>1, <2>3, <2>7, <3>1, <3>2, ExitsKept DEF Inv2
    <2> QED
      BY <2>4, <2>6, <2>7, <2>8 DEF Inv2
  <1> QED
    BY <1>0, <1>7, <1>8 DEF put_io_channel

-----------------------------------------------------------------------------
(* Iterations. *)

(* Steps that concern one iteration only. *)
LEMMA IterStep ==
  ASSUME TypeOK, Inv2, NEW i \in Iters, fault' = "none" => fault = "none",
         UNCHANGED <<life, g_io_devices, unregistered, unregister_cb, unregister_thread,
                     dev_threads, io_channels, ref, destroy_ref>>,
         PointsSame({"io_device_free"}), PointsSame({"destroy_cb"}),
         \A m : m # CallMsg(i) /\ m # CplMsg(i) => CountSame(m),
         \A j \in Iters : j # i => iter'[j] = iter[j],
         \A j \in Iters, u \in Threads : j # i => (Completing(u, j)' <=> Completing(u, j)),
         CarriedOK(i)', OwedOK(i)', \A e \in Devs : ActiveOK(e)', CountsOK', GoneOK'
  PROVE  Inv2'
  <1>1. ChannelsOK'
    BY DEF Inv2, ChannelsOK
  <1>2. FreesOK'
    <2>1. \A e : Holders(e)' = Holders(e)
      BY HoldersSame
    <2>2. \A e \in Devs : CountSame(FinishMsg(e))
      BY MsgsDiffer
    <2> QED
      BY <2>1, <2>2, FreesKept DEF Inv2
  <1>3. ASSUME NEW j \in Iters, j # i
        PROVE  CarriedOK(j)' /\ OwedOK(j)'
    <2>1. CountSame(CallMsg(j)) /\ CountSame(CplMsg(j))
      BY <1>3, MsgsDiffer
    <2>2. iter'[j] = iter[j] /\ \A u \in Threads : Completing(u, j)' <=> Completing(u, j)
      BY <1>3
    <2>3. CarriedOK(j) /\ OwedOK(j)
      BY DEF Inv2, ItersOK
    <2>4. CarriedOK(j)'
      BY <2>1, <2>2, <2>3 DEF CarriedOK, CountSame
    <2>5. OwedOK(j)'
      BY <2>2, <2>3 DEF OwedOK
    <2> QED
      BY <2>4, <2>5
  <1>4. ItersOK'
    BY <1>3 DEF ItersOK
  <1> QED
    BY <1>1, <1>2, <1>4 DEF Inv2

(* Before an iteration ends no completion is on its way, and nothing else calls fn. *)
LEMMA NotCarried ==
  ASSUME IndInv, Inv2, NEW i \in Iters
  PROVE  /\ iter[i].st # "ended" =>
              \A u \in Threads : Count(messages, u, CplMsg(i)) = 0 /\ ~Completing(u, i)
         /\ iter[i].st # "queued" => \A u \in Threads : Count(messages, u, CallMsg(i)) = 0
  <1>1. CarriedOK(i)
    BY DEF Inv2, ItersOK
  <1>2. \A u \in Threads : Count(messages, u, CplMsg(i)) \in Nat
    BY CountNat DEF IndInv, TypeOK, Rings
  <1> QED
    BY <1>1, <1>2 DEF CarriedOK

(* The counters of a thread follow the iterations it started. *)
LEMMA StartedMore ==
  ASSUME TypeOK, CountsOK, NEW t \in Threads, NEW i, i \notin Started(t),
         Started(t)' = Started(t) \cup {i},
         \A u \in Threads : u # t => Started(u)' = Started(u),
         \A u \in Threads : Unregs(u)' = Unregs(u),
         thr_for_each_count' = [thr_for_each_count EXCEPT ![t] = @ + 1],
         UNCHANGED pending_unregister_count
  PROVE  CountsOK'
  <1>1. IsFiniteSet(Started(t)) /\ thr_for_each_count[t] = Cardinality(Started(t))
    BY DEF CountsOK
  <1>2. /\ IsFiniteSet(Started(t) \cup {i})
        /\ Cardinality(Started(t) \cup {i}) = Cardinality(Started(t)) + 1
    BY <1>1, FS_AddElement
  <1>3. /\ thr_for_each_count'[t] = thr_for_each_count[t] + 1
        /\ \A u \in Threads : u # t => thr_for_each_count'[u] = thr_for_each_count[u]
    BY DEF TypeOK
  <1>4. IsFiniteSet(Started(t)') /\ thr_for_each_count'[t] = Cardinality(Started(t)')
    BY <1>1, <1>2, <1>3
  <1> QED
    BY <1>3, <1>4 DEF CountsOK

(* The same when one of them completes. *)
LEMMA StartedLess ==
  ASSUME TypeOK, CountsOK, NEW t \in Threads, NEW i \in Started(t),
         Started(t)' = Started(t) \ {i},
         \A u \in Threads : u # t => Started(u)' = Started(u),
         \A u \in Threads : Unregs(u)' = Unregs(u),
         thr_for_each_count' = [thr_for_each_count EXCEPT ![t] = @ - 1],
         UNCHANGED pending_unregister_count
  PROVE  CountsOK'
  <1>1. IsFiniteSet(Started(t)) /\ thr_for_each_count[t] = Cardinality(Started(t))
    BY DEF CountsOK
  <1>2. /\ IsFiniteSet(Started(t) \ {i})
        /\ Cardinality(Started(t) \ {i}) = Cardinality(Started(t)) - 1
    BY <1>1, FS_RemoveElement
  <1>3. /\ thr_for_each_count'[t] = thr_for_each_count[t] - 1
        /\ \A u \in Threads : u # t => thr_for_each_count'[u] = thr_for_each_count[u]
    BY DEF TypeOK
  <1>4. IsFiniteSet(Started(t)') /\ thr_for_each_count'[t] = Cardinality(Started(t)')
    BY <1>1, <1>2, <1>3
  <1> QED
    BY <1>3, <1>4 DEF CountsOK

(* for_each_count follows the iterations over the device. *)
LEMMA ActiveMore ==
  ASSUME TypeOK, ItersOK, NEW d \in g_io_devices, d \in Devs, NEW i, i \notin Active(d),
         Active(d)' = Active(d) \cup {i},
         \A e \in Devs : e # d => Active(e)' = Active(e),
         for_each_count' = [for_each_count EXCEPT ![d] = @ + 1], UNCHANGED g_io_devices
  PROVE  \A e \in Devs : ActiveOK(e)'
  <1>1. IsFiniteSet(Active(d)) /\ for_each_count[d] = Cardinality(Active(d))
    BY DEF ItersOK, ActiveOK
  <1>2. /\ IsFiniteSet(Active(d) \cup {i})
        /\ Cardinality(Active(d) \cup {i}) = Cardinality(Active(d)) + 1
    BY <1>1, FS_AddElement
  <1>3. /\ for_each_count'[d] = for_each_count[d] + 1
        /\ \A e \in Devs : e # d => for_each_count'[e] = for_each_count[e]
    BY DEF TypeOK
  <1>4. ActiveOK(d)'
    <2>1. IsFiniteSet(Active(d)') /\ for_each_count'[d] = Cardinality(Active(d)')
      BY <1>1, <1>2, <1>3
    <2> QED
      BY <2>1 DEF ActiveOK
  <1>5. ASSUME NEW e \in Devs, e # d
        PROVE  ActiveOK(e)'
    BY <1>3, <1>5 DEF ItersOK, ActiveOK
  <1> QED
    BY <1>4, <1>5

(* The same when one of them ends. *)
LEMMA ActiveLess ==
  ASSUME TypeOK, ItersOK, NEW d \in Devs, NEW i \in Active(d),
         Active(d)' = Active(d) \ {i},
         \A e \in Devs : e # d => Active(e)' = Active(e),
         for_each_count' = [for_each_count EXCEPT ![d] = @ - 1], UNCHANGED g_io_devices
  PROVE  \A e \in Devs : ActiveOK(e)'
  <1>1. IsFiniteSet(Active(d)) /\ for_each_count[d] = Cardinality(Active(d)) /\ d \in g_io_devices
    BY DEF ItersOK, ActiveOK
  <1>2. /\ IsFiniteSet(Active(d) \ {i})
        /\ Cardinality(Active(d) \ {i}) = Cardinality(Active(d)) - 1
    BY <1>1, FS_RemoveElement
  <1>3. /\ for_each_count'[d] = for_each_count[d] - 1
        /\ \A e \in Devs : e # d => for_each_count'[e] = for_each_count[e]
    BY DEF TypeOK
  <1>4. ActiveOK(d)'
    <2>1. IsFiniteSet(Active(d)') /\ for_each_count'[d] = Cardinality(Active(d)')
      BY <1>1, <1>2, <1>3
    <2> QED
      BY <1>1, <2>1 DEF ActiveOK
  <1>5. ASSUME NEW e \in Devs, e # d
        PROVE  ActiveOK(e)'
    BY <1>3, <1>5 DEF ItersOK, ActiveOK
  <1> QED
    BY <1>4, <1>5

(* The iteration starts, or completes at once. *)
LEMMA ForEach2 ==
  ASSUME IndInv, Inv2, NEW t \in Threads, NEW d \in Devs, NEW i \in Iters,
         spdk_for_each_channel(t, d, i)
  PROVE  Inv2'
  <1>1. /\ fault = "none" /\ at[t].pt = "idle" /\ ~Gone(t) /\ state[t] # "EXITED"
        /\ d \in g_io_devices /\ iter[i].st = "unused"
        /\ thr_for_each_count' = [thr_for_each_count EXCEPT ![t] = @ + 1]
    BY ActsNotGone DEF spdk_for_each_channel, Runs, At, Inv2
  <1>2. UNCHANGED <<life, g_io_devices, unregistered, unregister_cb, unregister_thread,
                    dev_threads, io_channels, ref, destroy_ref, state, pending_unregister_count,
                    at>>
    BY DEF spdk_for_each_channel, lifeVars, flagVars, refVars, chVars
  <1>3. \A u \in Threads : /\ Count(messages, u, CplMsg(i)) = 0 /\ ~Completing(u, i)
                           /\ Count(messages, u, CallMsg(i)) = 0
    BY <1>1, NotCarried
  <1>4. messages \in Rings /\ CallMsg(i) \in Msg /\ CplMsg(i) \in Msg
    BY DEF IndInv, TypeOK, Rings, CallMsg, CplMsg, Msg
  <1>5. /\ \A K : PointsSame(K)
        /\ \A j \in Iters, u \in Threads : Completing(u, j)' <=> Completing(u, j)
        /\ \A u \in Threads : Unregs(u)' = Unregs(u)
        /\ \A u \in Threads : Gone(u)' <=> Gone(u)
    BY <1>2 DEF PointsSame, Completing, Unregs, Gone
  <1>6. dev_threads[d] = io_channels[d]
    BY DEF Inv2, ChannelsOK
  <1>7. ASSUME NEW rec, iter' = [iter EXCEPT ![i] = rec],
               rec.orig = t, rec.st \in {"queued", "ended"}
        PROVE  /\ iter'[i] = rec /\ \A j \in Iters : j # i => iter'[j] = iter[j]
               /\ CountsOK' /\ Started(t)' = Started(t) \cup {i}
               /\ \A u \in Threads : u # t => Started(u)' = Started(u)
    <2>1. iter'[i] = rec /\ \A j \in Iters : j # i => iter'[j] = iter[j]
      BY <1>7 DEF IndInv, TypeOK
    <2>2. /\ Started(t)' = Started(t) \cup {i} /\ i \notin Started(t)
          /\ \A u \in Threads : u # t => Started(u)' = Started(u)
      BY <1>1, <1>7, <2>1 DEF Started
    <2>3. CountsOK'
      BY <1>1, <1>2, <1>5, <2>2, StartedMore DEF IndInv, Inv2
    <2> QED
      BY <2>1, <2>2, <2>3
  <1>8. CASE d \in pending_unregister \/ dev_threads[d] = {}
    <2> DEFINE rec == [st |-> "ended", dev |-> d, cur |-> t, orig |-> t, owed |-> {},
                       status |-> IF d \in pending_unregister THEN -1 ELSE 0]
    <2>1. /\ iter' = [iter EXCEPT ![i] = rec] /\ for_each_count' = for_each_count
          /\ spdk_thread_send_msg(messages, t, CplMsg(i))
      <3>1. \A u \in Threads : ~IsFirst(u, {})
        BY DEF IsFirst
      <3> QED
        BY <1>8, <3>1 DEF spdk_for_each_channel, CplMsg
    <2>2. rec.st = "ended" /\ rec.orig = t /\ rec.owed = {}
      OBVIOUS
    <2> HIDE DEF rec
    <2>3. /\ iter'[i] = rec /\ \A j \in Iters : j # i => iter'[j] = iter[j]
          /\ CountsOK' /\ \A u \in Threads : u # t => Started(u)' = Started(u)
      BY <1>7, <2>1, <2>2
    <2>4. /\ fault' = fault /\ \A m : m # CplMsg(i) => CountSame(m)
          /\ Count(messages', t, CplMsg(i)) = 1
          /\ \A u \in Threads : u # t => Count(messages', u, CplMsg(i)) = 0
      BY <1>1, <1>3, <1>4, <2>1, SendEffect DEF IndInv, CountSame
    <2>5. CarriedOK(i)'
      <3>1. \A u \in Threads : Count(messages', u, CallMsg(i)) = 0
        BY <1>3, <2>4, MsgsDiffer DEF CountSame
      <3> QED
        BY <1>3, <1>5, <2>2, <2>3, <2>4, <3>1 DEF CarriedOK
    <2>6. OwedOK(i)'
      BY <2>2, <2>3 DEF OwedOK
    <2>7. \A e \in Devs : ActiveOK(e)'
      <3>1. \A e \in Devs : Active(e)' = Active(e)
        BY <1>1, <2>2, <2>3 DEF Active
      <3> QED
        BY <1>2, <2>1, <3>1 DEF Inv2, ItersOK, ActiveOK
    <2>8. GoneOK'
      BY <1>1, <1>2, <1>5, <2>2, <2>3 DEF Inv2, GoneOK
    <2> QED
      BY <1>2, <1>5, <2>3, <2>4, <2>5, <2>6, <2>7, <2>8, IterStep DEF IndInv
  <1>9. CASE ~(d \in pending_unregister \/ dev_threads[d] = {})
    <2>1. PICK u \in Threads :
            /\ IsFirst(u, dev_threads[d])
            /\ iter' = [iter EXCEPT ![i] =
                  [st |-> "queued", dev |-> d, cur |-> u, orig |-> t, status |-> 0,
                   owed |-> io_channels[d]]]
            /\ spdk_thread_send_msg(messages, u, CallMsg(i))
      BY <1>9 DEF spdk_for_each_channel, CallMsg
    <2> DEFINE rec == [st |-> "queued", dev |-> d, cur |-> u, orig |-> t, status |-> 0,
                       owed |-> io_channels[d]]
    <2>2. /\ rec.st = "queued" /\ rec.orig = t /\ rec.owed = io_channels[d] /\ rec.dev = d
          /\ rec.cur = u
      OBVIOUS
    <2>3. iter' = [iter EXCEPT ![i] = rec]
      BY <2>1
    <2> HIDE DEF rec
    <2>4. /\ iter'[i] = rec /\ \A j \in Iters : j # i => iter'[j] = iter[j]
          /\ CountsOK' /\ \A v \in Threads : v # t => Started(v)' = Started(v)
      BY <1>7, <2>2, <2>3
    <2>5. ~Gone(u) /\ state[u] # "EXITED"
      BY <1>6, <2>1 DEF IsFirst, Inv2, GoneOK, Gone
    <2>6. /\ fault' = fault /\ \A m : m # CallMsg(i) => CountSame(m)
          /\ Count(messages', u, CallMsg(i)) = 1
          /\ \A v \in Threads : v # u => Count(messages', v, CallMsg(i)) = 0
      BY <1>3, <1>4, <2>1, <2>5, SendEffect DEF IndInv, CountSame
    <2>7. CarriedOK(i)'
      <3>1. \A v \in Threads : Count(messages', v, CplMsg(i)) = 0
        BY <1>3, <2>6, MsgsDiffer DEF CountSame
      <3> QED
        BY <1>3, <1>5, <2>2, <2>4, <2>6, <3>1 DEF CarriedOK
    <2>8. OwedOK(i)'
      <3>1. \A v \in io_channels[d] : v >= u
        BY <1>6, <2>1, ThreadsAssumption DEF IsFirst, IndInv, TypeOK
      <3> QED
        BY <1>2, <2>2, <2>4, <3>1 DEF OwedOK
    <2>9. \A e \in Devs : ActiveOK(e)'
      <3>1. /\ Active(d)' = Active(d) \cup {i} /\ i \notin Active(d)
            /\ \A e \in Devs : e # d => Active(e)' = Active(e)
        BY <1>1, <2>2, <2>4 DEF Active
      <3>2. for_each_count' = [for_each_count EXCEPT ![d] = @ + 1]
        BY <1>9 DEF spdk_for_each_channel
      <3> QED
        BY <1>1, <1>2, <3>1, <3>2, ActiveMore DEF IndInv, Inv2
    <2>10. GoneOK'
      <3>1. \A j \in Iters : iter'[j].st = "queued" =>
              (j = i /\ iter'[j].cur = u) \/ (iter[j].st = "queued" /\ iter'[j].cur = iter[j].cur)
        BY <2>2, <2>4
      <3> QED
        BY <1>1, <1>2, <1>5, <2>4, <2>5, <3>1 DEF Inv2, GoneOK
    <2> QED
      BY <1>2, <1>5, <2>4, <2>6, <2>7, <2>8, <2>9, <2>10, IterStep DEF IndInv
  <1> QED
    BY <1>8, <1>9

(* The iteration goes on to the next thread, or ends.  What fn has not been
   called on is beyond this thread. *)
LEMMA Continue2 ==
  ASSUME IndInv, Inv2, NEW t \in Threads, NEW i \in Iters, NEW status \in {0, -1},
         NEW q \in Rings, fault = "none", at[t].pt = "idle", ~Gone(t),
         iter[i].st \in {"queued", "in_fn"},
         \A u \in Threads : Count(q, u, CallMsg(i)) = 0,
         \A u \in Threads : \A m : m # CallMsg(i) => Count(q, u, m) = Count(messages, u, m),
         \A u \in iter[i].owed : u \in io_channels[iter[i].dev] /\ u > t,
         Continue(t, i, status, q)
  PROVE  Inv2'
  <1>0. PICK d \in Devs : d = iter[i].dev
    BY IterDevs DEF IndInv
  <1>1. UNCHANGED <<life, g_io_devices, unregistered, unregister_cb, unregister_thread,
                    dev_threads, io_channels, ref, destroy_ref, state, pending_unregister_count,
                    thr_for_each_count>>
    BY DEF Continue, lifeVars, flagVars, refVars, chVars, thrVars
  <1>2. \A u \in Threads : Count(messages, u, CplMsg(i)) = 0 /\ ~Completing(u, i)
    BY NotCarried
  <1>3. \A u \in Threads : Unregs(u)' = Unregs(u)
    BY <1>1 DEF Unregs
  <1>4. /\ dev_threads[d] = io_channels[d] /\ io_channels[d] \subseteq Threads
        /\ iter[i].owed \subseteq Beyond(d, t) /\ iter[i] \in Iter /\ iter \in [Iters -> Iter]
    BY <1>0 DEF Inv2, ChannelsOK, IndInv, TypeOK, Beyond
  <1>5. CASE /\ \E u \in Threads :
                  /\ IsFirst(u, Beyond(d, t))
                  /\ iter' = [iter EXCEPT ![i].st = "queued", ![i].cur = u, ![i].status = 0]
                  /\ spdk_thread_send_msg(q, u, CallMsg(i))
             /\ UNCHANGED <<for_each_count, at>>
    <2>1. PICK u \in Threads :
                  /\ IsFirst(u, Beyond(d, t))
                  /\ iter' = [iter EXCEPT ![i].st = "queued", ![i].cur = u, ![i].status = 0]
                  /\ spdk_thread_send_msg(q, u, CallMsg(i))
      BY <1>5
    <2>2. /\ iter'[i].st = "queued" /\ iter'[i].cur = u /\ iter'[i].status = 0
          /\ iter'[i].dev = d /\ iter'[i].orig = iter[i].orig /\ iter'[i].owed = iter[i].owed
      BY <1>0, <1>4, <2>1 DEF Iter
    <2>3. \A j \in Iters : j # i => iter'[j] = iter[j]
      BY <1>4, <2>1
    <2>4. /\ \A K : PointsSame(K)
          /\ \A j \in Iters, v \in Threads : Completing(v, j)' <=> Completing(v, j)
          /\ \A v \in Threads : Gone(v)' <=> Gone(v)
      BY <1>1, <1>5 DEF PointsSame, Completing, Gone
    <2>5. ~Gone(u) /\ state[u] # "EXITED"
      <3>1. u \in io_channels[d]
        BY <1>4, <2>1 DEF IsFirst, Beyond
      <3> QED
        BY <3>1 DEF Inv2, GoneOK, Gone
    <2>6. /\ fault' = fault /\ \A m : m # CallMsg(i) => CountSame(m)
          /\ Count(messages', u, CallMsg(i)) = 1
          /\ \A v \in Threads : v # u => Count(messages', v, CallMsg(i)) = 0
      <3>1. CallMsg(i) \in Msg
        BY DEF CallMsg, Msg
      <3>2. /\ fault' = fault
            /\ \A v \in Threads : \A m : m # CallMsg(i) => Count(messages', v, m) = Count(q, v, m)
            /\ Count(messages', u, CallMsg(i)) = Count(q, u, CallMsg(i)) + 1
            /\ \A v \in Threads : v # u => Count(messages', v, CallMsg(i)) = Count(q, v, CallMsg(i))
        BY <2>1, <2>5, <3>1, SendEffect DEF IndInv
      <3> QED
        BY <3>2 DEF CountSame
    <2>7. CarriedOK(i)'
      <3>1. \A v \in Threads : Count(messages', v, CplMsg(i)) = 0
        BY <1>2, <2>6, MsgsDiffer DEF CountSame
      <3> QED
        BY <1>2, <2>2, <2>4, <2>6, <3>1 DEF CarriedOK
    <2>8. OwedOK(i)'
      <3>1. \A v \in iter[i].owed : v \in io_channels[d] /\ v >= u
        BY <1>0, <1>4, <2>1, ThreadsAssumption DEF IsFirst
      <3> QED
        BY <1>1, <2>2, <3>1 DEF OwedOK
    <2>9. \A e \in Devs : ActiveOK(e)'
      <3>1. \A e \in Devs : Active(e)' = Active(e)
        BY <1>0, <2>2, <2>3 DEF Active
      <3> QED
        BY <1>1, <1>5, <3>1 DEF Inv2, ItersOK, ActiveOK
    <2>10. \A v \in Threads : Started(v)' = Started(v)
      BY <2>2, <2>3 DEF Started
    <2>11. CountsOK'
      BY <1>1, <1>3, <2>10 DEF Inv2, CountsOK
    <2>12. GoneOK'
      <3>1. \A j \in Iters : iter'[j].st = "queued" =>
              (j = i /\ iter'[j].cur = u) \/ (iter[j].st = "queued" /\ iter'[j].cur = iter[j].cur)
        BY <2>2, <2>3
      <3>2. at' = at
        BY <1>5
      <3> QED
        BY <1>1, <1>3, <2>4, <2>5, <2>10, <3>1, <3>2 DEF Inv2, GoneOK
    <2> QED
      BY <1>1, <2>3, <2>4, <2>6, <2>7, <2>8, <2>9, <2>11, <2>12, IterStep DEF IndInv
  <1>6. CASE /\ status # 0 \/ Beyond(d, t) = {}
             /\ for_each_count' = [for_each_count EXCEPT ![d] = @ - 1]
             /\ iter' = [iter EXCEPT ![i].st = "ended", ![i].status = status]
             /\ Goto(t, [pt |-> "complete", iter |-> i])
             /\ Quiet(q)
    <2>1. /\ iter'[i].st = "ended" /\ iter'[i].status = status
          /\ iter'[i].dev = d /\ iter'[i].orig = iter[i].orig /\ iter'[i].owed = iter[i].owed
      BY <1>0, <1>4, <1>6 DEF Iter
    <2>2. \A j \in Iters : j # i => iter'[j] = iter[j]
      BY <1>4, <1>6
    <2>a. [pt |-> "complete", iter |-> i].pt = "complete"
      OBVIOUS
    <2>3. PICK p : p = [pt |-> "complete", iter |-> i] /\ p.pt = "complete"
      BY <2>a, Zenon
    <2>4. /\ at'[t] = p /\ \A v \in Threads : v # t => at'[v] = at[v]
          /\ \A v \in Threads : Gone(v)' => Gone(v) /\ at'[v] = at[v]
          /\ PointsSame({"destroy_cb"}) /\ PointsSame({"io_device_free"})
      <3>1. at' = [at EXCEPT ![t] = p]
        BY <1>6, <2>3 DEF Goto
      <3> QED
        BY <1>1, <2>3, <3>1, StepPoints DEF Inv2, IndInv
    <2>5. messages' = q /\ fault' = fault /\ \A m : m # CallMsg(i) => CountSame(m)
      BY <1>6 DEF Quiet, CountSame
    <2>6. \A j \in Iters, v \in Threads : Completing(v, j)' <=> Completing(v, j) \/ (j = i /\ v = t)
      <3>1. \A j \in Iters : Completing(t, j)' <=> j = i
        BY <2>3, <2>4 DEF Completing
      <3>2. \A j \in Iters : ~Completing(t, j)
        BY DEF Completing
      <3> QED
        BY <2>4, <3>1, <3>2 DEF Completing
    <2>7. CarriedOK(i)'
      <3>1. \A v \in Threads : /\ Count(messages', v, CplMsg(i)) = 0
                               /\ Count(messages', v, CallMsg(i)) = 0
        BY <1>2, <2>5, MsgsDiffer DEF CountSame
      <3> QED
        BY <1>2, <2>1, <2>6, <3>1 DEF CarriedOK
    <2>8. OwedOK(i)'
      BY <1>4, <1>6, <2>1 DEF OwedOK
    <2>9. \A e \in Devs : ActiveOK(e)'
      <3>1. /\ Active(d)' = Active(d) \ {i} /\ i \in Active(d)
            /\ \A e \in Devs : e # d => Active(e)' = Active(e)
        BY <1>0, <2>1, <2>2 DEF Active
      <3> QED
        BY <1>1, <1>6, <3>1, ActiveLess DEF IndInv, Inv2
    <2>10. \A v \in Threads : Started(v)' = Started(v)
      BY <2>1, <2>2 DEF Started
    <2>11. CountsOK' /\ GoneOK'
      <3>1. \A j \in Iters :
              iter'[j].st = "queued" => iter[j].st = "queued" /\ iter'[j].cur = iter[j].cur
        BY <2>1, <2>2
      <3> QED
        BY <1>1, <1>3, <2>4, <2>10, <3>1, ExitsKept DEF Inv2
    <2>12. \A j \in Iters, v \in Threads : j # i => (Completing(v, j)' <=> Completing(v, j))
      BY <2>6
    <2> QED
      BY <1>1, <2>2, <2>4, <2>5, <2>7, <2>8, <2>9, <2>11, <2>12, IterStep DEF IndInv
  <1> QED
    BY <1>0, <1>5, <1>6 DEF Continue, CallMsg

(* fn is called, or skipped on a thread that has no channel any more. *)
LEMMA CallChannel2 ==
  ASSUME IndInv, Inv2, NEW t \in Threads, _call_channel(t)
  PROVE  Inv2'
  <1>0. PICK i \in Iters : i = Arg(t) /\ Head(messages[t]) = CallMsg(i)
    BY Typing DEF _call_channel, IndInv, CallMsg
  <1>1. /\ fault = "none" /\ at[t].pt = "idle" /\ ~Gone(t) /\ messages[t] # <<>>
    BY ActsNotGone DEF _call_channel, Handles, Runs, At, Inv2
  <1>2. /\ \A u \in Threads : \A x : Count(Pop(t), u, x) =
             IF u = t /\ x = CallMsg(i) THEN Count(messages, u, x) - 1 ELSE Count(messages, u, x)
        /\ Pop(t) \in Rings
    BY <1>0, <1>1, PopEffect DEF IndInv
  <1>3. /\ iter[i].st = "queued" /\ iter[i].cur = t /\ iter[i].st # "ended"
        /\ \A u \in Threads : Count(messages, u, CallMsg(i)) = IF u = t THEN 1 ELSE 0
    <2>1. CarriedOK(i)
      BY DEF Inv2, ItersOK
    <2>2. Count(messages, t, CallMsg(i)) \in Nat /\ Count(Pop(t), t, CallMsg(i)) \in Nat
      BY <1>2, CountNat DEF IndInv, TypeOK, Rings
    <2>3. Count(messages, t, CallMsg(i)) # 0
      BY <1>2, <2>2
    <2>4. iter[i].st = "queued" /\ iter[i].cur = t
      BY <2>1, <2>3 DEF CarriedOK
    <2> QED
      BY <2>1, <2>4 DEF CarriedOK
  <1>4. \A u \in Threads : Count(Pop(t), u, CallMsg(i)) = 0
    BY <1>2, <1>3
  <1>5. PICK d \in Devs : d = iter[i].dev
    BY IterDevs DEF IndInv
  <1>6. \A u \in iter[i].owed : u \in io_channels[d] /\ u >= t /\ u \in Nat /\ t \in Nat
    BY <1>3, <1>5, ThreadsAssumption DEF Inv2, ItersOK, OwedOK, IndInv, TypeOK
  <1>7. CASE /\ iter' = [iter EXCEPT ![i].st = "in_fn", ![i].owed = @ \ {t}]
             /\ Quiet(Pop(t))
             /\ UNCHANGED <<devVars, chVars, thrVars, at>>
    <2>1. UNCHANGED <<life, g_io_devices, unregistered, unregister_cb, unregister_thread,
                      for_each_count, dev_threads, io_channels, ref, destroy_ref, state,
                      pending_unregister_count, thr_for_each_count, at>>
      BY <1>7 DEF devVars, lifeVars, flagVars, refVars, chVars, thrVars
    <2>2. /\ iter'[i].st = "in_fn" /\ iter'[i].owed = iter[i].owed \ {t}
          /\ iter'[i].cur = t /\ iter'[i].dev = d /\ iter'[i].orig = iter[i].orig
      <3>1. iter[i] \in Iter /\ iter \in [Iters -> Iter]
        BY DEF IndInv, TypeOK
      <3> QED
        BY <1>3, <1>5, <1>7, <3>1 DEF Iter
    <2>3. \A j \in Iters : j # i => iter'[j] = iter[j]
      BY <1>7 DEF IndInv, TypeOK
    <2>4. /\ \A K : PointsSame(K)
          /\ \A j \in Iters, v \in Threads : Completing(v, j)' <=> Completing(v, j)
          /\ \A v \in Threads : Gone(v)' <=> Gone(v)
          /\ \A v \in Threads : Unregs(v)' = Unregs(v)
      BY <2>1 DEF PointsSame, Completing, Gone, Unregs
    <2>5. messages' = Pop(t) /\ fault' = fault /\ \A m : m # CallMsg(i) => CountSame(m)
      BY <1>2, <1>7 DEF Quiet, CountSame
    <2>6. CarriedOK(i)'
      <3>1. \A u \in Threads : Count(messages, u, CplMsg(i)) = 0 /\ ~Completing(u, i)
        BY <1>3, NotCarried
      <3>2. \A u \in Threads : /\ Count(messages', u, CplMsg(i)) = 0
                               /\ Count(messages', u, CallMsg(i)) = 0
        BY <1>4, <2>5, <3>1, MsgsDiffer DEF CountSame
      <3> QED
        BY <2>2, <2>4, <3>1, <3>2 DEF CarriedOK
    <2>7. OwedOK(i)'
      <3>1. \A u \in iter'[i].owed : u \in io_channels[d] /\ u > t
        BY <1>6, <2>2
      <3> QED
        BY <2>1, <2>2, <3>1 DEF OwedOK
    <2>8. \A e \in Devs : ActiveOK(e)'
      <3>1. \A e \in Devs : Active(e)' = Active(e)
        BY <1>3, <1>5, <2>2, <2>3 DEF Active
      <3> QED
        BY <2>1, <3>1 DEF Inv2, ItersOK, ActiveOK
    <2>9. \A v \in Threads : Started(v)' = Started(v)
      BY <1>3, <2>2, <2>3 DEF Started
    <2>10. CountsOK' /\ GoneOK'
      <3>1. \A j \in Iters :
              iter'[j].st = "queued" => iter[j].st = "queued" /\ iter'[j].cur = iter[j].cur
        BY <2>2, <2>3
      <3> QED
        BY <2>1, <2>4, <2>9, <3>1, ExitsKept DEF Inv2
    <2> QED
      BY <2>1, <2>3, <2>4, <2>5, <2>6, <2>7, <2>8, <2>10, IterStep DEF IndInv
  <1>8. CASE t \notin io_channels[d] /\ Continue(t, i, 0, Pop(t))
    <2>1. \A u \in iter[i].owed : u \in io_channels[iter[i].dev] /\ u > t
      BY <1>5, <1>6, <1>8
    <2>2. \A u \in Threads : \A m : m # CallMsg(i) => Count(Pop(t), u, m) = Count(messages, u, m)
      BY <1>2
    <2>3. iter[i].st \in {"queued", "in_fn"} /\ 0 \in {0, -1}
      BY <1>3
    <2> QED
      BY <1>1, <1>2, <1>4, <1>8, <2>1, <2>2, <2>3, Continue2
  <1> QED
    BY <1>0, <1>5, <1>7, <1>8 DEF _call_channel

(* fn calls spdk_for_each_channel_continue. *)
LEMMA CallsContinue2 ==
  ASSUME IndInv, Inv2, NEW t \in Threads, NEW i \in Iters, NEW status \in {0, -1},
         spdk_for_each_channel_continue(t, i, status)
  PROVE  Inv2'
  <1>1. /\ fault = "none" /\ at[t].pt = "idle" /\ ~Gone(t) /\ iter[i].st = "in_fn"
        /\ iter[i].cur = t /\ Continue(t, i, status, messages)
    BY ActsNotGone DEF spdk_for_each_channel_continue, Runs, At, Inv2
  <1>2. \A u \in Threads : Count(messages, u, CallMsg(i)) = 0
    BY <1>1, NotCarried
  <1>3. \A u \in iter[i].owed : u \in io_channels[iter[i].dev] /\ u > t
    BY <1>1 DEF Inv2, ItersOK, OwedOK
  <1>4. messages \in Rings /\ iter[i].st \in {"queued", "in_fn"}
    BY <1>1 DEF IndInv, TypeOK, Rings
  <1> QED
    BY <1>1, <1>2, <1>3, <1>4, Continue2

(* The completion is sent: to a thread that cannot have exited. *)
LEMMA Completes2 ==
  ASSUME IndInv, Inv2, NEW t \in Threads, ContinueCompletes(t)
  PROVE  Inv2'
  <1>0. PICK i \in Iters : i = at[t].iter
    BY Typing DEF ContinueCompletes, IndInv
  <1>1. /\ fault = "none" /\ at[t].pt = "complete" /\ at[t] = [pt |-> "complete", iter |-> i]
        /\ Completing(t, i)
    <2>1. at[t] \in Point /\ at[t].pt = "complete" /\ fault = "none"
      BY DEF IndInv, TypeOK, ContinueCompletes, At
    <2>2. at[t] = [pt |-> "complete", iter |-> i]
      BY <1>0, <2>1 DEF Point, Idle
    <2> QED
      BY <2>1, <2>2 DEF Completing
  <1>2. PICK to \in Threads, d \in Devs : to = iter[i].orig /\ d = iter[i].dev
    BY IterDevs DEF IndInv
  <1>3. /\ spdk_thread_send_msg(messages, to, CplMsg(i))
        /\ at' = [at EXCEPT ![t] = [pt |-> "recheck", dev |-> d]]
    BY <1>0, <1>2 DEF ContinueCompletes, Goto, CplMsg
  <1>4. UNCHANGED <<life, g_io_devices, unregistered, unregister_cb, unregister_thread,
                    for_each_count, dev_threads, io_channels, ref, destroy_ref, state, iter,
                    pending_unregister_count, thr_for_each_count>>
    BY DEF ContinueCompletes, devVars, lifeVars, flagVars, refVars, chVars, thrVars
  <1>5. /\ iter[i].st = "ended" /\ CarriedOK(i) /\ OwedOK(i)
        /\ \A u \in Threads : Completing(u, i) => u = t
        /\ \A u \in Threads : Count(messages, u, CplMsg(i)) = 0
    <2>1. CarriedOK(i) /\ OwedOK(i)
      BY DEF Inv2, ItersOK
    <2>2. \A u \in Threads : Count(messages, u, CplMsg(i)) \in Nat
      BY CountNat DEF IndInv, TypeOK, Rings
    <2> QED
      BY <1>1, <2>1, <2>2 DEF CarriedOK
  <1>6. ~Gone(t) /\ ~Gone(to) /\ state[to] # "EXITED"
    <2>1. i \in Started(to)
      BY <1>2, <1>5 DEF Started
    <2> QED
      BY <1>1, <2>1, ActsNotGone DEF Inv2, GoneOK, Gone
  <1>7. /\ fault' = fault /\ \A m : m # CplMsg(i) => CountSame(m)
        /\ Count(messages', to, CplMsg(i)) = 1
        /\ \A u \in Threads : u # to => Count(messages', u, CplMsg(i)) = 0
    <2>1. CplMsg(i) \in Msg /\ messages \in Rings
      BY DEF CplMsg, Msg, IndInv, TypeOK, Rings
    <2> QED
      BY <1>3, <1>5, <1>6, <2>1, SendEffect DEF IndInv, CountSame
  <1>a. [pt |-> "recheck", dev |-> d].pt = "recheck"
    OBVIOUS
  <1>8. PICK p : p = [pt |-> "recheck", dev |-> d] /\ p.pt = "recheck"
    BY <1>a, Zenon
  <1>9. /\ at'[t] = p /\ \A v \in Threads : v # t => at'[v] = at[v]
        /\ \A v \in Threads : Gone(v)' => Gone(v) /\ at'[v] = at[v]
        /\ PointsSame({"destroy_cb"}) /\ PointsSame({"io_device_free"})
    BY <1>1, <1>3, <1>4, <1>6, <1>8, StepPoints DEF Inv2, IndInv
  <1>10. \A j \in Iters, v \in Threads : Completing(v, j)' <=> Completing(v, j) /\ j # i
    <2>1. \A j \in Iters : ~Completing(t, j)' /\ (Completing(t, j) => j = i)
      BY <1>1, <1>8, <1>9 DEF Completing
    <2> QED
      BY <1>5, <1>9, <2>1 DEF Completing
  <1>11. CarriedOK(i)'
    <2>1. \A u \in Threads : Count(messages', u, CallMsg(i)) = Count(messages, u, CallMsg(i))
      BY <1>7, MsgsDiffer DEF CountSame
    <2> QED
      BY <1>2, <1>4, <1>5, <1>7, <1>10, <2>1 DEF CarriedOK
  <1>12. OwedOK(i)' /\ \A e \in Devs : ActiveOK(e)'
    BY <1>4, <1>5 DEF OwedOK, ActiveOK, Active, Inv2, ItersOK
  <1>13. CountsOK' /\ GoneOK'
    <2>1. \A u \in Threads : Started(u)' = Started(u) /\ Unregs(u)' = Unregs(u)
      BY <1>4 DEF Started, Unregs
    <2> QED
      BY <1>4, <1>9, <2>1, ExitsKept DEF Inv2
  <1>14. \A j \in Iters, v \in Threads : j # i => (Completing(v, j)' <=> Completing(v, j))
    BY <1>10
  <1> QED
    BY <1>4, <1>7, <1>9, <1>11, <1>12, <1>13, <1>14, IterStep DEF IndInv

(* The device is looked at once more. *)
LEMMA Rechecks2 ==
  ASSUME IndInv, Inv2, NEW t \in Threads, ContinueRechecks(t)
  PROVE  Inv2'
  <1>0. PICK d \in Devs : d = at[t].dev
    BY Typing DEF ContinueRechecks, IndInv
  <1>1. /\ fault = "none" /\ at[t].pt = "recheck" /\ at' = [at EXCEPT ![t] = Idle]
        /\ Idle.pt = "idle"
        /\ UNCHANGED <<devVars, chVars, iter, thrVars>>
    BY DEF ContinueRechecks, At, Goto, Idle
  <1>2. ~Gone(t)
    BY <1>1, ActsNotGone DEF Inv2
  <1>3. /\ \A u \in Threads : Gone(u)' => Gone(u) /\ at'[u] = at[u]
        /\ PointsSame({"io_device_free", "destroy_cb", "complete"})
    BY <1>1, <1>2, StepPoints DEF Inv2, IndInv, thrVars
  <1>4. /\ \A e \in Devs : CountSame(FinishMsg(e))
        /\ \A i \in Iters : CountSame(CallMsg(i)) /\ CountSame(CplMsg(i))
    <2> DEFINE m == [fn |-> "__pending_unregister", arg |-> d]
    <2>1. CASE messages' = messages
      BY <2>1 DEF CountSame
    <2>2. CASE LastEnded(d) /\ spdk_thread_send_msg(messages, unregister_thread[d], m)
      <3>1. unregister_thread[d] \in Threads /\ m \in Msg /\ messages \in Rings
        BY <2>2 DEF LastEnded, IndInv, ThreadKnown, Msg, TypeOK, Rings
      <3>2. /\ \A e \in Devs : m # FinishMsg(e)
            /\ \A i \in Iters : m # CallMsg(i) /\ m # CplMsg(i)
        BY DEF FinishMsg, CallMsg, CplMsg
      <3> HIDE DEF m
      <3> QED
        BY <2>2, <3>1, <3>2, SendEffect DEF IndInv, CountSame
    <2> QED
      BY <1>0, <2>1, <2>2 DEF ContinueRechecks, Fail, Quiet
  <1>5. ChannelsOK'
    BY <1>1 DEF Inv2, ChannelsOK, devVars, refVars, chVars
  <1> QED
    BY <1>1, <1>3, <1>4, <1>5, Frame2 DEF devVars, lifeVars, flagVars, refVars, chVars, thrVars,
       IndInv

(* cpl runs. *)
LEMMA Completion2 ==
  ASSUME IndInv, Inv2, NEW t \in Threads, _call_completion(t)
  PROVE  Inv2'
  <1>0. PICK i \in Iters : i = Arg(t) /\ Head(messages[t]) = CplMsg(i)
    BY Typing DEF _call_completion, IndInv, CplMsg
  <1>1. /\ fault = "none" /\ at[t].pt = "idle" /\ ~Gone(t) /\ messages[t] # <<>>
        /\ messages' = Pop(t)
        /\ iter' = [iter EXCEPT ![i].st = "completed"]
        /\ thr_for_each_count' = [thr_for_each_count EXCEPT ![t] = @ - 1]
        /\ UNCHANGED <<life, g_io_devices, unregistered, unregister_cb, unregister_thread,
                       for_each_count, dev_threads, io_channels, ref, destroy_ref, state,
                       pending_unregister_count, at, fault>>
    BY <1>0, ActsNotGone DEF _call_completion, Handles, Runs, At, Quiet, Inv2, devVars, lifeVars,
       flagVars, refVars, chVars
  <1>2. \A u \in Threads : \A x : Count(messages', u, x) =
           IF u = t /\ x = CplMsg(i) THEN Count(messages, u, x) - 1 ELSE Count(messages, u, x)
    BY <1>0, <1>1, PopEffect DEF IndInv
  <1>3. CarriedOK(i) /\ \A u \in Threads : Count(messages, u, CplMsg(i)) \in Nat
    BY CountNat DEF Inv2, ItersOK, IndInv, TypeOK, Rings
  <1>4. Count(messages, t, CplMsg(i)) > 0
    <2>1. Count(messages', t, CplMsg(i)) \in Nat
      <3>1. messages' \in Rings
        BY <1>1, PopEffect DEF IndInv
      <3> QED
        BY <3>1, CountNat
    <2> QED
      BY <1>2, <1>3, <2>1
  <1>5. /\ iter[i].st = "ended" /\ iter[i].orig = t /\ Count(messages, t, CplMsg(i)) = 1
        /\ \A u \in Threads : /\ ~Completing(u, i) /\ Count(messages, u, CallMsg(i)) = 0
                              /\ u # t => Count(messages, u, CplMsg(i)) = 0
    BY <1>3, <1>4 DEF CarriedOK
  <1>6. /\ iter'[i].st = "completed" /\ iter'[i].orig = t
        /\ \A j \in Iters : j # i => iter'[j] = iter[j]
    <2>1. iter[i] \in Iter /\ iter \in [Iters -> Iter]
      BY DEF IndInv, TypeOK
    <2> QED
      BY <1>1, <1>5, <2>1 DEF Iter
  <1>7. /\ \A K : PointsSame(K)
        /\ \A j \in Iters, v \in Threads : Completing(v, j)' <=> Completing(v, j)
        /\ \A v \in Threads : Gone(v)' <=> Gone(v)
        /\ \A v \in Threads : Unregs(v)' = Unregs(v)
    BY <1>1 DEF PointsSame, Completing, Gone, Unregs
  <1>8. CarriedOK(i)' /\ OwedOK(i)'
    <2>1. \A u \in Threads : Count(messages', u, CplMsg(i)) = 0 /\ Count(messages', u, CallMsg(i)) = 0
      BY <1>2, <1>5, MsgsDiffer
    <2> QED
      BY <1>5, <1>6, <1>7, <2>1 DEF CarriedOK, OwedOK
  <1>9. \A e \in Devs : ActiveOK(e)'
    <2>1. \A e \in Devs : Active(e)' = Active(e)
      BY <1>5, <1>6 DEF Active
    <2> QED
      BY <1>1, <2>1 DEF Inv2, ItersOK, ActiveOK
  <1>10. /\ Started(t)' = Started(t) \ {i} /\ i \in Started(t)
         /\ \A u \in Threads : u # t => Started(u)' = Started(u)
    BY <1>5, <1>6 DEF Started
  <1>11. CountsOK'
    BY <1>1, <1>7, <1>10, StartedLess DEF IndInv, Inv2
  <1>12. GoneOK'
    <2>1. \A j \in Iters :
            iter'[j].st = "queued" => iter[j].st = "queued" /\ iter'[j].cur = iter[j].cur
      BY <1>6
    <2> QED
      BY <1>1, <1>7, <1>10, <2>1 DEF Inv2, GoneOK
  <1>13. \A m : m # CallMsg(i) /\ m # CplMsg(i) => CountSame(m)
    BY <1>2 DEF CountSame
  <1> QED
    BY <1>1, <1>6, <1>7, <1>8, <1>9, <1>11, <1>12, <1>13, IterStep DEF IndInv

-----------------------------------------------------------------------------
(* The theorems. *)

(* Every step of the protocol keeps the invariant. *)
LEMMA Next2 ==
  ASSUME IndInv, Inv2, [Next]_vars
  PROVE  Inv2'
  <1>1. CASE UNCHANGED vars
    BY <1>1, Stutter2
  <1>2. ASSUME NEW t \in Threads, Library(t)
        PROVE  Inv2'
    BY <1>2, DeferredUnregister2, Free2, Finish2, PutMessage2, CallChannel2, Completes2,
       Rechecks2, Completion2, ExitMarks2 DEF Library
  <1>3. ASSUME NEW t \in Threads, Callbacks(t)
        PROVE  Inv2'
    BY <1>3, Create2, CreateFails2, Destroy2 DEF Callbacks
  <1>4. ASSUME NEW t \in Threads, User(t)
        PROVE  Inv2'
    <2>1. CASE spdk_thread_exit(t) \/ ExitChecks(t)
      BY <2>1, ExitCall2, ExitChecks2
    <2>2. CASE CallsContinue(t)
      BY <2>2, CallsContinue2 DEF CallsContinue
    <2>3. ASSUME NEW d \in Devs,
                 \/ spdk_io_device_register(t, d)
                 \/ \E cb \in BOOLEAN : spdk_io_device_unregister(t, d, cb)
                 \/ spdk_get_io_channel(t, d)
                 \/ spdk_io_channel_ref(t, d)
                 \/ spdk_put_io_channel(t, d)
                 \/ \E i \in Iters : spdk_for_each_channel(t, d, i)
          PROVE  Inv2'
      BY <2>3, Register2, UserUnregister2, Ref2, GetCreate2, Put2, ForEach2
      DEF spdk_get_io_channel
    <2> QED
      BY <1>4, <2>1, <2>2, <2>3 DEF User
  <1> QED
    BY <1>1, <1>2, <1>3, <1>4 DEF Next

(* The stronger invariant holds in every reachable state. *)
LEMMA Inv2Holds == Spec => [](IndInv /\ Inv2)
  <1>1. Init => Inv2
    BY Init2
  <1>2. IndInv /\ Inv2 /\ [Next]_vars => Inv2'
    BY Next2
  <1> QED
    BY <1>1, <1>2, IndInvHolds, PTL DEF Spec

(* Every put_io_channel message finds its channel, destroy_ref counts them, and a
   channel without references has one on its way: none is used after it was
   destroyed, and none is leaked. *)
THEOREM PutsCorrect == Spec => []PutMessagesMatch
  <1>1. ASSUME IndInv, Inv2
        PROVE  PutMessagesMatch
    <2> SUFFICES ASSUME NEW t \in Threads, NEW d \in Devs
                 PROVE  LET puts == Queued(t, PutMsg(d))
                        IN /\ destroy_ref[t][d] = Cardinality(puts)
                           /\ puts # {} => t \in io_channels[d]
                           /\ t \in io_channels[d] /\ ref[t][d] = 0 => puts # {}
      BY DEF PutMessagesMatch, PutMsg
    <2> DEFINE puts == Queued(t, PutMsg(d))
    <2>1. IsFiniteSet(puts) /\ Cardinality(puts) \in Nat
      BY <1>1, PlacesFinite DEF Queued, IndInv, TypeOK
    <2>2. destroy_ref[t][d] = Cardinality(puts)
      BY <1>1 DEF IndInv, PutsOK, Count, Queued
    <2>3. destroy_ref[t][d] > 0 => t \in io_channels[d]
      BY <1>1 DEF IndInv, PutsOK
    <2>4. t \in io_channels[d] /\ ref[t][d] = 0 => destroy_ref[t][d] > 0
      BY <1>1 DEF Inv2, ChannelsOK
    <2>5. puts = {} <=> Cardinality(puts) = 0
      BY <2>1, FS_EmptySet
    <2> HIDE DEF puts
    <2>6. puts # {} <=> destroy_ref[t][d] > 0
      BY <2>1, <2>2, <2>5
    <2> QED
      BY <2>2, <2>3, <2>4, <2>6 DEF puts
  <1> QED
    BY <1>1, Inv2Holds, PTL

(* An unregistered device without holders is freed by exactly one thread or one
   message, and any other device by none. *)
THEOREM FreedOnce == Spec => []FreedExactlyOnce
  <1>1. ASSUME IndInv, Inv2
        PROVE  FreedExactlyOnce
    <2> SUFFICES ASSUME fault = "none", NEW d \in Devs
                 PROVE  Cardinality(Finishers(d)) =
                          IF d \in unregistered /\ Holders(d) = {} /\ life[d] = "live" THEN 1 ELSE 0
      BY DEF FreedExactlyOnce
    <2>1. OneFree(d)
      BY <1>1 DEF Inv2, FreesOK
    <2>2. \A x : x \in Finishers(d) <=>
            \/ \E t \in Threads : x = <<t, 0>> /\ Freeing(t, d)
            \/ \E t \in Threads : x \in {t} \X Queued(t, FinishMsg(d))
      BY DEF Finishers, Freeing, FinishMsg
    <2>3. ASSUME NEW t \in Threads
          PROVE  /\ IsFiniteSet(Queued(t, FinishMsg(d)))
                 /\ Finishing(t, d) = Cardinality(Queued(t, FinishMsg(d)))
                 /\ Finishing(t, d) \in Nat
                 /\ Finishing(t, d) = 0 <=> Queued(t, FinishMsg(d)) = {}
      <3>1. IsFiniteSet(Queued(t, FinishMsg(d)))
        BY <1>1, PlacesFinite DEF Queued, IndInv, TypeOK
      <3>2. Finishing(t, d) = Cardinality(Queued(t, FinishMsg(d)))
        BY DEF Finishing, Count, Queued
      <3> QED
        BY <3>1, <3>2, FS_EmptySet, FS_CardinalityType
    <2>4. CASE \A t \in Threads : ~Freeing(t, d) /\ Finishing(t, d) = 0
      <3>1. Finishers(d) = {}
        BY <2>2, <2>3, <2>4
      <3>2. ~(d \in unregistered /\ Holders(d) = {} /\ life[d] = "live")
        BY <2>1, <2>4 DEF OneFree
      <3> QED
        BY <3>1, <3>2, FS_EmptySet
    <2>5. ASSUME NEW t \in Threads, Freeing(t, d)
          PROVE  Cardinality(Finishers(d)) =
                   IF d \in unregistered /\ Holders(d) = {} /\ life[d] = "live" THEN 1 ELSE 0
      <3>1. \A u \in Threads : (Freeing(u, d) => u = t) /\ Finishing(u, d) = 0
        BY <2>1, <2>5 DEF OneFree
      <3>2. Finishers(d) = {<<t, 0>>}
        BY <2>2, <2>3, <2>5, <3>1
      <3>3. d \in unregistered /\ Holders(d) = {} /\ life[d] = "live"
        BY <2>1, <2>5 DEF OneFree
      <3> QED
        BY <3>2, <3>3, FS_Singleton
    <2>6. ASSUME NEW t \in Threads, Finishing(t, d) > 0
          PROVE  Cardinality(Finishers(d)) =
                   IF d \in unregistered /\ Holders(d) = {} /\ life[d] = "live" THEN 1 ELSE 0
      <3>1. Finishing(t, d) = 1 /\ \A u \in Threads : u # t => Finishing(u, d) = 0
        BY <2>1, <2>3, <2>6 DEF OneFree
      <3>2. \A u \in Threads : ~Freeing(u, d)
        BY <2>1, <2>6 DEF OneFree
      <3>3. PICK k : Queued(t, FinishMsg(d)) = {k}
        BY <2>3, <3>1, FS_Singleton
      <3>4. Finishers(d) = {<<t, k>>}
        BY <2>2, <2>3, <3>1, <3>2, <3>3
      <3>5. d \in unregistered /\ Holders(d) = {} /\ life[d] = "live"
        BY <2>1, <2>6 DEF OneFree
      <3> QED
        BY <3>4, <3>5, FS_Singleton
    <2> QED
      BY <2>3, <2>4, <2>5, <2>6
  <1> QED
    BY <1>1, Inv2Holds, PTL

(* A device stays registered while an iteration over it can still call fn:
   spdk_io_device_unregister defers itself. *)
THEOREM IteratedCorrect == Spec => []IteratedStaysRegistered
  <1>1. ASSUME IndInv, Inv2
        PROVE  IteratedStaysRegistered
    <2> SUFFICES ASSUME NEW i \in Iters, iter[i].st \in {"queued", "in_fn"}
                 PROVE  iter[i].dev \in g_io_devices /\ for_each_count[iter[i].dev] > 0
      BY DEF IteratedStaysRegistered
    <2>1. PICK d \in Devs : d = iter[i].dev
      BY <1>1, IterDevs DEF IndInv
    <2>2. ActiveOK(d) /\ i \in Active(d)
      BY <1>1, <2>1 DEF Inv2, ItersOK, Active
    <2>3. Cardinality(Active(d)) \in Nat /\ Cardinality(Active(d)) # 0
      BY <2>2, FS_EmptySet, FS_CardinalityType DEF ActiveOK
    <2>4. d \in g_io_devices /\ for_each_count[d] > 0
      BY <2>2, <2>3 DEF ActiveOK
    <2> QED
      BY <2>1, <2>4
  <1> QED
    BY <1>1, Inv2Holds, PTL

(* An iteration that ends without error has called fn on every channel that was
   there when it began and still is. *)
THEOREM ForEachCorrect == Spec => []ForEachVisitsAll
  <1>1. Inv2 => ForEachVisitsAll
    BY DEF Inv2, ItersOK, OwedOK, ForEachVisitsAll
  <1> QED
    BY <1>1, Inv2Holds, PTL

(* A thread that exited has no channel, no iteration and no unregister_cb left. *)
THEOREM ExitCorrect == Spec => []ExitedIsQuiet
  <1>1. ASSUME Inv2
        PROVE  ExitedIsQuiet
    <2> SUFFICES ASSUME NEW t \in Threads, state[t] = "EXITED"
                 PROVE  /\ \A d \in Devs : t \notin Holders(d)
                        /\ \A i \in Iters :
                             /\ iter[i].st = "queued" => iter[i].cur # t
                             /\ iter[i].st \in {"queued", "in_fn", "ended"} => iter[i].orig # t
                        /\ \A d \in unregistered \cap unregister_cb :
                             life[d] = "live" => unregister_thread[d] # t
      BY DEF ExitedIsQuiet
    <2>1. /\ at[t].pt \in {"exited", "idle"} /\ \A d \in Devs : t \notin io_channels[d]
          /\ Started(t) = {} /\ Unregs(t) = {}
          /\ \A i \in Iters : iter[i].st = "queued" => iter[i].cur # t
      BY <1>1 DEF Inv2, GoneOK, Gone
    <2>2. \A d \in Devs : t \notin Holders(d)
      BY <2>1 DEF Holders
    <2>3. \A i \in Iters : iter[i].st \in {"queued", "in_fn", "ended"} => iter[i].orig # t
      BY <2>1 DEF Started
    <2>4. \A d \in unregistered \cap unregister_cb : life[d] = "live" => unregister_thread[d] # t
      BY <2>1 DEF Unregs
    <2> QED
      BY <2>1, <2>2, <2>3, <2>4
  <1> QED
    BY <1>1, Inv2Holds, PTL

-----------------------------------------------------------------------------
(* The refinement: each step of the protocol is a step of RefCountedDevice, or
   none. *)

PhasesSame == \A e \in Devs : Phase(e)' = Phase(e)
AllHoldersSame == \A e \in Devs : Holders(e)' = Holders(e)
ActivesSame == \A e \in Devs : Active(e)' = Active(e)

(* What each step of RefCountedDevice asks of the state that is mapped to it. *)
LEMMA AbsStutter ==
  ASSUME PhasesSame, AllHoldersSame, ActivesSame
  PROVE  UNCHANGED Abs!vars
  <1>1. UNCHANGED [d \in Devs |-> Phase(d)]
    BY DEF PhasesSame
  <1>2. UNCHANGED [d \in Devs |-> Holders(d)]
    BY DEF AllHoldersSame
  <1>3. UNCHANGED [d \in Devs |-> Active(d)]
    BY DEF ActivesSame
  <1> QED
    BY <1>1, <1>2, <1>3 DEF Abs!vars

(* One device moves on to the phase x. *)
LEMMA AbsPhase ==
  ASSUME NEW d \in Devs, NEW x, Phase(d)' = x, \A e \in Devs : e # d => Phase(e)' = Phase(e),
         AllHoldersSame, ActivesSame
  PROVE  /\ [e \in Devs |-> Phase(e)]' = [[e \in Devs |-> Phase(e)] EXCEPT ![d] = x]
         /\ UNCHANGED <<[e \in Devs |-> Holders(e)], [e \in Devs |-> Active(e)]>>
  <1>1. [e \in Devs |-> Phase(e)]' = [[e \in Devs |-> Phase(e)] EXCEPT ![d] = x]
    OBVIOUS
  <1>2. UNCHANGED [e \in Devs |-> Holders(e)]
    BY DEF AllHoldersSame
  <1>3. UNCHANGED [e \in Devs |-> Active(e)]
    BY DEF ActivesSame
  <1> QED
    BY <1>1, <1>2, <1>3

(* The holders of one device change to S. *)
LEMMA AbsHolders ==
  ASSUME NEW d \in Devs, NEW S, Holders(d)' = S, \A e \in Devs : e # d => Holders(e)' = Holders(e),
         PhasesSame, ActivesSame
  PROVE  /\ [e \in Devs |-> Holders(e)]' = [[e \in Devs |-> Holders(e)] EXCEPT ![d] = S]
         /\ UNCHANGED <<[e \in Devs |-> Phase(e)], [e \in Devs |-> Active(e)]>>
  <1>1. [e \in Devs |-> Holders(e)]' = [[e \in Devs |-> Holders(e)] EXCEPT ![d] = S]
    OBVIOUS
  <1>2. UNCHANGED [e \in Devs |-> Phase(e)]
    BY DEF PhasesSame
  <1>3. UNCHANGED [e \in Devs |-> Active(e)]
    BY DEF ActivesSame
  <1> QED
    BY <1>1, <1>2, <1>3

(* The iterations over one device change to S. *)
LEMMA AbsActive ==
  ASSUME NEW d \in Devs, NEW S, Active(d)' = S, \A e \in Devs : e # d => Active(e)' = Active(e),
         PhasesSame, AllHoldersSame
  PROVE  /\ [e \in Devs |-> Active(e)]' = [[e \in Devs |-> Active(e)] EXCEPT ![d] = S]
         /\ UNCHANGED <<[e \in Devs |-> Phase(e)], [e \in Devs |-> Holders(e)]>>
  <1>1. [e \in Devs |-> Active(e)]' = [[e \in Devs |-> Active(e)] EXCEPT ![d] = S]
    OBVIOUS
  <1>2. UNCHANGED [e \in Devs |-> Phase(e)]
    BY DEF PhasesSame
  <1>3. UNCHANGED [e \in Devs |-> Holders(e)]
    BY DEF AllHoldersSame
  <1> QED
    BY <1>1, <1>2, <1>3

(* The phases, from the state of the struct. *)
LEMMA PhaseOf ==
  ASSUME TypeOK, NEW d \in Devs
  PROVE  /\ life[d] = "unused" => Phase(d) = "absent"
         /\ life[d] = "freed" => Phase(d) = "gone"
         /\ life[d] = "live" /\ d \in unregistered => Phase(d) = "draining"
         /\ life[d] = "live" /\ d \notin unregistered => Phase(d) = "registered"
         /\ Phase(d) = "registered" => life[d] = "live" /\ d \notin unregistered
  BY DEF Phase, TypeOK

(* A device that was absent is registered, while no other one is. *)
LEMMA AbsRegister ==
  ASSUME NEW d \in Devs, Phase(d) = "absent", \A e \in Devs : Phase(e) # "registered",
         Phase(d)' = "registered", \A e \in Devs : e # d => Phase(e)' = Phase(e),
         AllHoldersSame, ActivesSame
  PROVE  Abs!Next
  <1>1. Abs!Register(d)
    BY AbsPhase DEF Abs!Register
  <1> QED
    BY <1>1 DEF Abs!Next

(* A registered device without iterations starts to drain. *)
LEMMA AbsClose ==
  ASSUME NEW d \in Devs, Phase(d) = "registered", Active(d) = {},
         Phase(d)' = "draining", \A e \in Devs : e # d => Phase(e)' = Phase(e),
         AllHoldersSame, ActivesSame
  PROVE  Abs!Next
  <1>1. Abs!Close(d)
    BY AbsPhase DEF Abs!Close
  <1> QED
    BY <1>1 DEF Abs!Next

(* A draining device without holders is gone. *)
LEMMA AbsFinish ==
  ASSUME NEW d \in Devs, Phase(d) = "draining", Holders(d) = {},
         Phase(d)' = "gone", \A e \in Devs : e # d => Phase(e)' = Phase(e),
         AllHoldersSame, ActivesSame
  PROVE  Abs!Next
  <1>1. Abs!Finish(d)
    BY AbsPhase DEF Abs!Finish
  <1> QED
    BY <1>1 DEF Abs!Next

(* A thread becomes a holder of a registered device. *)
LEMMA AbsAcquire ==
  ASSUME NEW t \in Threads, NEW d \in Devs, Phase(d) = "registered", t \notin Holders(d),
         Holders(d)' = Holders(d) \cup {t}, \A e \in Devs : e # d => Holders(e)' = Holders(e),
         PhasesSame, ActivesSame
  PROVE  Abs!Next
  <1>1. Abs!Acquire(t, d)
    BY AbsHolders DEF Abs!Acquire
  <1> QED
    BY <1>1 DEF Abs!Next

(* A holder lets go. *)
LEMMA AbsRelease ==
  ASSUME NEW t \in Threads, NEW d \in Devs, t \in Holders(d),
         Holders(d)' = Holders(d) \ {t}, \A e \in Devs : e # d => Holders(e)' = Holders(e),
         PhasesSame, ActivesSame
  PROVE  Abs!Next
  <1>1. Abs!Release(t, d)
    BY AbsHolders DEF Abs!Release
  <1> QED
    BY <1>1 DEF Abs!Next

(* An iteration begins over a registered device. *)
LEMMA AbsBegin ==
  ASSUME NEW i \in Iters, NEW d \in Devs, Phase(d) = "registered",
         \A e \in Devs : i \notin Active(e),
         Active(d)' = Active(d) \cup {i}, \A e \in Devs : e # d => Active(e)' = Active(e),
         PhasesSame, AllHoldersSame
  PROVE  Abs!Next
  <1>1. Abs!Begin(i, d)
    BY AbsActive DEF Abs!Begin
  <1> QED
    BY <1>1 DEF Abs!Next

(* An iteration ends. *)
LEMMA AbsEnd ==
  ASSUME NEW i \in Iters, NEW d \in Devs, i \in Active(d),
         Active(d)' = Active(d) \ {i}, \A e \in Devs : e # d => Active(e)' = Active(e),
         PhasesSame, AllHoldersSame
  PROVE  Abs!Next
  <1>1. Abs!End(i, d)
    BY AbsActive DEF Abs!End
  <1> QED
    BY <1>1 DEF Abs!Next

AbsStep == Abs!Next \/ UNCHANGED Abs!vars

(* A step that neither begins nor ends a device, an iteration or a destroy_cb. *)
LEMMA AbsFrame ==
  ASSUME UNCHANGED <<life, unregistered, io_channels, iter>>, PointsSame({"destroy_cb"})
  PROVE  AbsStep
  <1>1. PhasesSame /\ ActivesSame
    BY DEF PhasesSame, ActivesSame, Phase, Active
  <1>2. AllHoldersSame
    BY HoldersSame DEF AllHoldersSame
  <1> QED
    BY <1>1, <1>2, AbsStutter DEF AbsStep

(* Exit, create_cb that succeeds and the end of an iteration are none of its steps. *)
LEMMA PlainAbs ==
  ASSUME IndInv, NEW t \in Threads,
         \/ CreateSucceeds(t) \/ spdk_thread_exit(t) \/ ExitChecks(t) \/ ExitMarks(t)
         \/ ContinueCompletes(t) \/ ContinueRechecks(t)
  PROVE  AbsStep
  <1>1. UNCHANGED <<life, unregistered, io_channels, iter>>
    BY DEF CreateSucceeds, spdk_thread_exit, ExitChecks, ExitMarks, ContinueCompletes,
       ContinueRechecks, devVars, lifeVars, flagVars, chVars
  <1>2. PointsSame({"destroy_cb"})
    <2>1. at[t].pt # "destroy_cb"
      BY DEF CreateSucceeds, spdk_thread_exit, ExitChecks, ExitMarks, ContinueCompletes,
         ContinueRechecks, At, Runs
    <2>2. CASE at' = at
      BY <2>2 DEF PointsSame
    <2>3. ASSUME NEW p, p.pt # "destroy_cb", at' = [at EXCEPT ![t] = p]
          PROVE  PointsSame({"destroy_cb"})
      BY <2>1, <2>3 DEF PointsSame, IndInv, TypeOK
    <2>4. Idle.pt = "idle" /\ [pt |-> "exited"].pt = "exited"
          /\ \A e : [pt |-> "recheck", dev |-> e].pt = "recheck"
      BY DEF Idle
    <2>5. CASE spdk_thread_exit(t)
      BY <2>2, <2>5 DEF spdk_thread_exit
    <2>6. CASE CreateSucceeds(t) \/ ExitMarks(t) \/ ContinueRechecks(t)
      <3>1. at' = [at EXCEPT ![t] = Idle]
        BY <2>6 DEF CreateSucceeds, ExitMarks, ContinueRechecks, Goto
      <3> QED
        BY <2>3, <2>4, <3>1
    <2>7. CASE ExitChecks(t)
      BY <2>3, <2>4, <2>7 DEF ExitChecks, Goto
    <2>8. CASE ContinueCompletes(t)
      <3>1. PICK e : at' = [at EXCEPT ![t] = [pt |-> "recheck", dev |-> e]]
        BY <2>8 DEF ContinueCompletes, Goto
      <3> QED
        BY <2>3, <2>4, <3>1
    <2> QED
      BY <2>5, <2>6, <2>7, <2>8
  <1> QED
    BY <1>1, <1>2, AbsFrame

(* Neither is another reference to a channel, or one less. *)
LEMMA RefAbs ==
  ASSUME NEW t \in Threads, NEW d \in Devs,
         GetExisting(t, d) \/ spdk_io_channel_ref(t, d) \/ spdk_put_io_channel(t, d)
  PROVE  AbsStep
  <1>1. UNCHANGED <<life, unregistered, io_channels, iter, at>>
    BY DEF GetExisting, spdk_io_channel_ref, spdk_put_io_channel, devVars, lifeVars, flagVars
  <1>2. PointsSame({"destroy_cb"})
    BY <1>1 DEF PointsSame
  <1> QED
    BY <1>1, <1>2, AbsFrame

(* At most one device is registered: the tree has one struct for the key. *)
LEMMA RegisterAbs ==
  ASSUME IndInv, Inv2, IndInv', NEW t \in Threads, NEW d \in Devs, spdk_io_device_register(t, d)
  PROVE  AbsStep
  <1>1. /\ life[d] = "unused" /\ g_io_devices = {} /\ life' = [life EXCEPT ![d] = "live"]
        /\ life \in [Devs -> {"unused", "live", "freed"}]
        /\ UNCHANGED <<unregistered, io_channels, at, iter>>
    BY DEF spdk_io_device_register, flagVars, chVars, IndInv, TypeOK
  <1>2. AllHoldersSame /\ ActivesSame
    BY <1>1 DEF AllHoldersSame, ActivesSame, Holders, Active
  <1>3. Phase(d) = "absent" /\ \A e \in Devs : Phase(e) # "registered"
    BY <1>1, PhaseOf DEF IndInv, Inv2, FreesOK
  <1>4. d \notin unregistered /\ life'[d] = "live" /\ \A e \in Devs : e # d => life'[e] = life[e]
    BY <1>1 DEF IndInv, ClosedOK
  <1>5. Phase(d)' = "registered" /\ \A e \in Devs : e # d => Phase(e)' = Phase(e)
    BY <1>1, <1>4 DEF Phase
  <1> QED
    BY <1>2, <1>3, <1>5, AbsRegister DEF AbsStep

(* A device closes only when no iteration is left. *)
LEMMA UnregisterAbs ==
  ASSUME IndInv, Inv2, NEW t \in Threads, NEW d \in g_io_devices, NEW cb \in BOOLEAN,
         Runs(t), Unregister(t, d, cb)
  PROVE  AbsStep
  <1>1. UNCHANGED <<life, io_channels, iter>> /\ at[t].pt = "idle"
    BY DEF Unregister, chVars, Runs, At
  <1>2. d \in Devs /\ life[d] = "live" /\ d \notin unregistered
    BY RegisteredLives
  <1>3. CASE Iterated(d)
    <2>1. UNCHANGED <<unregistered, at>>
      BY <1>3 DEF Unregister
    <2>2. PointsSame({"destroy_cb"})
      BY <2>1 DEF PointsSame
    <2> QED
      BY <1>1, <2>1, <2>2, AbsFrame
  <1>4. CASE ~Iterated(d)
    <2>1. unregistered' = unregistered \cup {d}
      BY <1>4 DEF Unregister
    <2>2. PointsSame({"destroy_cb"})
      <3>1. CASE at' = at
        BY <3>1 DEF PointsSame
      <3>2. CASE at' = [at EXCEPT ![t] = [pt |-> "io_device_free", dev |-> d]]
        <4>1. [pt |-> "io_device_free", dev |-> d].pt = "io_device_free"
          OBVIOUS
        <4>2. PICK p : p = [pt |-> "io_device_free", dev |-> d] /\ p.pt = "io_device_free"
          BY <4>1, Zenon
        <4> QED
          BY <1>1, <3>2, <4>2 DEF PointsSame, IndInv, TypeOK
      <3> QED
        BY <1>4, <3>1, <3>2 DEF Unregister
    <2>3. AllHoldersSame /\ ActivesSame
      BY <1>1, <2>2, HoldersSame DEF AllHoldersSame, ActivesSame, Active
    <2>4. Active(d) = {}
      <3>1. IsFiniteSet(Active(d)) /\ for_each_count[d] = Cardinality(Active(d))
        BY <1>2 DEF Inv2, ItersOK, ActiveOK
      <3>2. Cardinality(Active(d)) \in Nat /\ ~(for_each_count[d] > 0)
        BY <1>4, <3>1, FS_CardinalityType DEF Iterated
      <3> QED
        BY <3>1, <3>2, NoneLeft2
    <2>5. /\ Phase(d) = "registered" /\ Phase(d)' = "draining"
          /\ \A e \in Devs : e # d => Phase(e)' = Phase(e)
      BY <1>1, <1>2, <2>1 DEF Phase
    <2> QED
      BY <1>2, <2>3, <2>4, <2>5, AbsClose DEF AbsStep
  <1> QED
    BY <1>3, <1>4

(* The user's call of unregister. *)
LEMMA UserUnregisterAbs ==
  ASSUME IndInv, Inv2, NEW t \in Threads, NEW d \in Devs, NEW cb \in BOOLEAN,
         spdk_io_device_unregister(t, d, cb)
  PROVE  AbsStep
  BY UnregisterAbs DEF spdk_io_device_unregister

(* The deferred one. *)
LEMMA DeferredUnregisterAbs ==
  ASSUME IndInv, Inv2, NEW t \in Threads, __pending_unregister(t)
  PROVE  AbsStep
  <1> DEFINE d == Arg(t)
  <1>1. Runs(t)
    BY DEF __pending_unregister, Handles
  <1>2. CASE \E e \in g_io_devices : Unregister(t, e, d \in unregister_cb)
    <2>1. PICK e \in g_io_devices : Unregister(t, e, d \in unregister_cb)
      BY <1>2
    <2>2. Unregister(t, e, TRUE) \/ Unregister(t, e, FALSE)
      BY <2>1 DEF Unregister
    <2> QED
      BY ONLY IndInv, Inv2, <1>1, <2>2, UnregisterAbs
  <1>3. CASE UNCHANGED <<devVars, chVars, iter, thrVars, at>>
    <2>1. UNCHANGED <<life, unregistered, io_channels, iter, at>>
      BY <1>3 DEF devVars, lifeVars, flagVars, chVars
    <2>2. PointsSame({"destroy_cb"})
      BY <2>1 DEF PointsSame
    <2> QED
      BY <2>1, <2>2, AbsFrame
  <1> QED
    BY <1>2, <1>3 DEF __pending_unregister

(* A struct is freed when it is closed and nobody holds it. *)
LEMMA FreeAbs ==
  ASSUME IndInv, Inv2, NEW t \in Threads, io_device_free(t)
  PROVE  AbsStep
  <1>0. PICK d \in Devs : d = at[t].dev
    BY Typing DEF io_device_free, IndInv
  <1>1. /\ fault = "none" /\ Freeing(t, d) /\ at[t].pt = "io_device_free"
        /\ at' = [at EXCEPT ![t] = Idle] /\ Idle.pt = "idle"
        /\ UNCHANGED <<unregistered, io_channels, iter>>
    <2>1. at[t] \in Point /\ at[t].pt = "io_device_free" /\ fault = "none"
      BY DEF IndInv, TypeOK, io_device_free, At
    <2>2. at[t] = [pt |-> "io_device_free", dev |-> d]
      BY <1>0, <2>1 DEF Point, Idle
    <2> QED
      BY <2>1, <2>2 DEF Freeing, Idle, io_device_free, Goto, flagVars, chVars
  <1>2. PointsSame({"destroy_cb"})
    BY <1>1 DEF PointsSame, IndInv, TypeOK
  <1>3. AllHoldersSame /\ ActivesSame
    BY <1>1, <1>2, HoldersSame DEF AllHoldersSame, ActivesSame, Active
  <1>4. d \in unregistered /\ Holders(d) = {} /\ life[d] = "live"
    BY <1>1 DEF Inv2, FreesOK, OneFree
  <1>5. CASE UNCHANGED life
    BY <1>1, <1>2, <1>5, AbsFrame
  <1>6. CASE life' = [life EXCEPT ![d] = "freed"]
    <2>1. life'[d] = "freed" /\ \A e \in Devs : e # d => life'[e] = life[e]
      BY <1>6 DEF IndInv, TypeOK
    <2>2. /\ Phase(d) = "draining" /\ Phase(d)' = "gone"
          /\ \A e \in Devs : e # d => Phase(e)' = Phase(e)
      BY <1>1, <1>4, <2>1 DEF Phase
    <2> QED
      BY <1>3, <1>4, <2>2, AbsFinish DEF AbsStep
  <1> QED
    BY <1>0, <1>5, <1>6 DEF io_device_free

(* The same after unregister_cb. *)
LEMMA FinishAbs ==
  ASSUME IndInv, Inv2, NEW t \in Threads, _finish_unregister(t)
  PROVE  AbsStep
  <1>0. PICK d \in Devs : d = Arg(t) /\ Head(messages[t]) = FinishMsg(d)
    BY Typing DEF IndInv, _finish_unregister, FinishMsg
  <1>1. /\ fault = "none" /\ messages[t] # <<>>
        /\ life' = [life EXCEPT ![d] = "freed"]
        /\ UNCHANGED <<unregistered, io_channels, iter, at>>
    BY <1>0 DEF _finish_unregister, Handles, Runs, At, flagVars, chVars
  <1>2. Finishing(t, d) > 0
    <2>1. /\ Count(Pop(t), t, FinishMsg(d)) = Count(messages, t, FinishMsg(d)) - 1
          /\ Pop(t) \in Rings /\ messages \in Rings
      BY <1>0, <1>1, PopEffect DEF IndInv, TypeOK, Rings
    <2>2. Count(messages, t, FinishMsg(d)) \in Nat /\ Count(Pop(t), t, FinishMsg(d)) \in Nat
      BY <2>1, CountNat
    <2> QED
      BY <2>1, <2>2 DEF Finishing
  <1>3. d \in unregistered /\ Holders(d) = {} /\ life[d] = "live"
    BY <1>1, <1>2 DEF Inv2, FreesOK, OneFree
  <1>4. AllHoldersSame /\ ActivesSame
    BY <1>1 DEF AllHoldersSame, ActivesSame, Active, Holders
  <1>5. life'[d] = "freed" /\ \A e \in Devs : e # d => life'[e] = life[e]
    BY <1>1 DEF IndInv, TypeOK
  <1>6. /\ Phase(d) = "draining" /\ Phase(d)' = "gone"
        /\ \A e \in Devs : e # d => Phase(e)' = Phase(e)
    BY <1>1, <1>3, <1>5 DEF Phase
  <1> QED
    BY <1>3, <1>4, <1>6, AbsFinish DEF AbsStep

(* A channel holds a registered device, until create_cb failed or destroy_cb returned. *)
LEMMA GetCreateAbs ==
  ASSUME IndInv, NEW t \in Threads, NEW d \in Devs, GetCreate(t, d)
  PROVE  AbsStep
  <1>1. /\ at[t].pt = "idle" /\ d \in g_io_devices /\ t \notin io_channels[d]
        /\ at' = [at EXCEPT ![t] = [pt |-> "create_cb", dev |-> d]]
        /\ UNCHANGED <<life, unregistered, iter>>
    BY DEF GetCreate, Runs, At, Goto, lifeVars, flagVars
  <1>2. /\ at'[t] = [pt |-> "create_cb", dev |-> d] /\ \A u \in Threads : u # t => at'[u] = at[u]
        /\ io_channels'[d] = io_channels[d] \cup {t}
        /\ \A e \in Devs : e # d => io_channels'[e] = io_channels[e]
    BY <1>1 DEF GetCreate, IndInv, TypeOK
  <1>3. /\ Holders(d)' = Holders(d) \cup {t} /\ t \notin Holders(d)
        /\ \A e \in Devs : e # d => Holders(e)' = Holders(e)
    BY <1>1, <1>2 DEF Holders
  <1>4. Phase(d) = "registered"
    BY <1>1, RegisteredLives, PhaseOf DEF IndInv
  <1>5. PhasesSame /\ ActivesSame
    BY <1>1 DEF PhasesSame, ActivesSame, Phase, Active
  <1> QED
    BY <1>3, <1>4, <1>5, AbsAcquire DEF AbsStep

(* Forgetting a channel leaves the iterations active. *)
LEMMA ForgetActive ==
  ASSUME TypeOK, NEW t \in Threads, NEW d \in Devs, iter' = Forget(t, d)
  PROVE  ActivesSame
  <1>1. ASSUME NEW i \in Iters
        PROVE  iter'[i].st = iter[i].st /\ iter'[i].dev = iter[i].dev
    <2>1. iter[i] \in Iter
      BY DEF TypeOK
    <2>2. iter'[i] = IF iter[i].dev = d THEN [iter[i] EXCEPT !.owed = @ \ {t}] ELSE iter[i]
      BY DEF Forget
    <2> QED
      BY <2>1, <2>2 DEF Iter
  <1> QED
    BY <1>1 DEF ActivesSame, Active

(* create_cb failed: the holder lets go. *)
LEMMA CreateFailsAbs ==
  ASSUME IndInv, NEW t \in Threads, CreateFails(t)
  PROVE  AbsStep
  <1>0. PICK d \in Devs : d = at[t].dev
    BY Typing DEF CreateFails, IndInv
  <1>1. /\ at[t] = [pt |-> "create_cb", dev |-> d] /\ t \in io_channels[d]
        /\ at' = [at EXCEPT ![t] = AfterDrop(d, refcnt[d] - 1)]
        /\ iter' = Forget(t, d) /\ UNCHANGED <<life, unregistered>>
    BY <1>0, PointDev DEF CreateFails, At, Goto, IndInv, PointsOK, lifeVars, flagVars
  <1>2. PICK p : p = AfterDrop(d, refcnt[d] - 1) /\ p.pt \in {"idle", "io_device_free"}
    BY AfterDropPoint
  <1>3. /\ at'[t] = p /\ \A u \in Threads : u # t => at'[u] = at[u]
        /\ io_channels'[d] = io_channels[d] \ {t}
        /\ \A e \in Devs : e # d => io_channels'[e] = io_channels[e]
    BY <1>0, <1>1, <1>2 DEF CreateFails, IndInv, TypeOK
  <1>4. /\ t \in Holders(d) /\ Holders(d)' = Holders(d) \ {t}
        /\ \A e \in Devs : e # d => Holders(e)' = Holders(e)
    BY <1>1, <1>2, <1>3 DEF Holders
  <1>5. PhasesSame /\ ActivesSame
    BY <1>1, ForgetActive DEF PhasesSame, Phase, IndInv
  <1> QED
    BY <1>4, <1>5, AbsRelease DEF AbsStep

(* destroy_cb returned: the holder lets go. *)
LEMMA DestroyAbs ==
  ASSUME IndInv, NEW t \in Threads, DestroyReturns(t)
  PROVE  AbsStep
  <1>0. PICK d \in Devs : d = at[t].dev
    BY Typing DEF DestroyReturns, IndInv
  <1>1. /\ at[t] = [pt |-> "destroy_cb", dev |-> d] /\ t \notin io_channels[d]
        /\ at' = [at EXCEPT ![t] = AfterDrop(d, refcnt[d] - 1)]
        /\ UNCHANGED <<life, unregistered, iter, io_channels>>
    BY <1>0, PointDev DEF DestroyReturns, At, Goto, IndInv, PointsOK, lifeVars, flagVars, chVars
  <1>2. PICK p : p = AfterDrop(d, refcnt[d] - 1) /\ p.pt \in {"idle", "io_device_free"}
    BY AfterDropPoint
  <1>3. at'[t] = p /\ \A u \in Threads : u # t => at'[u] = at[u]
    BY <1>1, <1>2 DEF IndInv, TypeOK
  <1>4. /\ t \in Holders(d) /\ Holders(d)' = Holders(d) \ {t}
        /\ \A e \in Devs : e # d => Holders(e)' = Holders(e)
    BY <1>1, <1>2, <1>3 DEF Holders
  <1>5. PhasesSame /\ ActivesSame
    BY <1>1 DEF PhasesSame, ActivesSame, Phase, Active
  <1> QED
    BY <1>4, <1>5, AbsRelease DEF AbsStep

(* A channel that leaves the trees still holds the device. *)
LEMMA PutMessageAbs ==
  ASSUME IndInv, NEW t \in Threads, put_io_channel(t)
  PROVE  AbsStep
  <1>0. PICK d \in Devs : d = Arg(t) /\ Head(messages[t]) = PutMsg(d)
    BY Typing DEF put_io_channel, IndInv, PutMsg
  <1>1. /\ at[t].pt = "idle" /\ messages[t] # <<>> /\ UNCHANGED <<life, unregistered>>
    BY DEF put_io_channel, Handles, Runs, At, lifeVars, flagVars
  <1>2. CASE UNCHANGED <<io_channels, iter, at>>
    <2>1. PointsSame({"destroy_cb"})
      BY <1>2 DEF PointsSame
    <2> QED
      BY <1>1, <1>2, <2>1, AbsFrame
  <1>3. CASE /\ io_channels' = [io_channels EXCEPT ![d] = @ \ {t}]
             /\ iter' = Forget(t, d)
             /\ Abandoned(t, d)
             /\ Goto(t, [pt |-> "destroy_cb", dev |-> d])
    <2>1. t \in io_channels[d]
      BY <1>3 DEF Abandoned, IndInv, PutsOK
    <2>2. /\ at'[t] = [pt |-> "destroy_cb", dev |-> d] /\ \A u \in Threads : u # t => at'[u] = at[u]
          /\ io_channels'[d] = io_channels[d] \ {t}
          /\ \A e \in Devs : e # d => io_channels'[e] = io_channels[e]
      BY <1>3 DEF Goto, IndInv, TypeOK
    <2>3. AllHoldersSame
      BY <1>1, <2>1, <2>2 DEF AllHoldersSame, Holders
    <2>4. PhasesSame /\ ActivesSame
      BY <1>1, <1>3, ForgetActive DEF PhasesSame, Phase, IndInv
    <2> QED
      BY <2>3, <2>4, AbsStutter DEF AbsStep
  <1> QED
    BY <1>0, <1>2, <1>3 DEF put_io_channel

(* A step of an iteration changes neither the devices nor their holders. *)
LEMMA IterAbs ==
  ASSUME UNCHANGED <<life, unregistered, io_channels>>, PointsSame({"destroy_cb"})
  PROVE  PhasesSame /\ AllHoldersSame
  BY HoldersSame DEF PhasesSame, AllHoldersSame, Phase

(* An iteration that has a thread to visit begins. *)
LEMMA ForEachAbs ==
  ASSUME IndInv, NEW t \in Threads, NEW d \in Devs, NEW i \in Iters,
         spdk_for_each_channel(t, d, i)
  PROVE  AbsStep
  <1>1. /\ d \in g_io_devices /\ iter[i].st = "unused"
        /\ UNCHANGED <<life, unregistered, io_channels, at>>
    BY DEF spdk_for_each_channel, lifeVars, flagVars, chVars
  <1>2. PhasesSame /\ AllHoldersSame
    <2>1. PointsSame({"destroy_cb"})
      BY <1>1 DEF PointsSame
    <2> QED
      BY <1>1, <2>1, IterAbs
  <1>3. PICK rec : /\ iter' = [iter EXCEPT ![i] = rec] /\ rec.st \in {"ended", "queued"}
                   /\ rec.dev = d
    <2>1. CASE \E x : iter' = [iter EXCEPT ![i] =
                 [st |-> "ended", dev |-> d, cur |-> t, orig |-> t, owed |-> {}, status |-> x]]
      <3>1. PICK x : iter' = [iter EXCEPT ![i] =
                 [st |-> "ended", dev |-> d, cur |-> t, orig |-> t, owed |-> {}, status |-> x]]
        BY <2>1
      <3> DEFINE r == [st |-> "ended", dev |-> d, cur |-> t, orig |-> t, owed |-> {}, status |-> x]
      <3>2. r.st \in {"ended", "queued"} /\ r.dev = d
        OBVIOUS
      <3>3. iter' = [iter EXCEPT ![i] = r]
        BY <3>1
      <3> HIDE DEF r
      <3> QED
        BY <3>2, <3>3
    <2>2. CASE \E u \in Threads : iter' = [iter EXCEPT ![i] =
                 [st |-> "queued", dev |-> d, cur |-> u, orig |-> t, status |-> 0,
                  owed |-> io_channels[d]]]
      <3>1. PICK u \in Threads : iter' = [iter EXCEPT ![i] =
                 [st |-> "queued", dev |-> d, cur |-> u, orig |-> t, status |-> 0,
                  owed |-> io_channels[d]]]
        BY <2>2
      <3> DEFINE r == [st |-> "queued", dev |-> d, cur |-> u, orig |-> t, status |-> 0,
                       owed |-> io_channels[d]]
      <3>2. r.st \in {"ended", "queued"} /\ r.dev = d
        OBVIOUS
      <3>3. iter' = [iter EXCEPT ![i] = r]
        BY <3>1
      <3> HIDE DEF r
      <3> QED
        BY <3>2, <3>3
    <2> QED
      BY <2>1, <2>2 DEF spdk_for_each_channel
  <1>4. iter'[i] = rec /\ \A j \in Iters : j # i => iter'[j] = iter[j]
    BY <1>3 DEF IndInv, TypeOK
  <1>5. \A e \in Devs : i \notin Active(e)
    BY <1>1 DEF Active
  <1>6. CASE rec.st = "ended"
    <2>1. ActivesSame
      BY <1>1, <1>4, <1>6 DEF ActivesSame, Active
    <2> QED
      BY <1>2, <2>1, AbsStutter DEF AbsStep
  <1>7. CASE rec.st = "queued"
    <2>1. /\ Active(d)' = Active(d) \cup {i}
          /\ \A e \in Devs : e # d => Active(e)' = Active(e)
      BY <1>1, <1>3, <1>4, <1>7 DEF Active
    <2>2. Phase(d) = "registered"
      BY <1>1, RegisteredLives, PhaseOf DEF IndInv
    <2> QED
      BY <1>2, <1>5, <2>1, <2>2, AbsBegin DEF AbsStep
  <1> QED
    BY <1>3, <1>6, <1>7

(* It goes on to another thread, or ends. *)
LEMMA ContinueAbs ==
  ASSUME IndInv, NEW t \in Threads, NEW i \in Iters, NEW status \in {0, -1}, NEW q,
         at[t].pt = "idle", iter[i].st \in {"queued", "in_fn"}, Continue(t, i, status, q)
  PROVE  AbsStep
  <1>0. PICK d \in Devs : d = iter[i].dev
    BY IterDevs DEF IndInv
  <1>1. UNCHANGED <<life, unregistered, io_channels>> /\ iter[i] \in Iter /\ iter \in [Iters -> Iter]
    BY DEF Continue, lifeVars, flagVars, chVars, IndInv, TypeOK
  <1>2. CASE /\ \E u \in Threads :
                  iter' = [iter EXCEPT ![i].st = "queued", ![i].cur = u, ![i].status = 0]
             /\ UNCHANGED at
    <2>1. PICK u \in Threads :
            iter' = [iter EXCEPT ![i].st = "queued", ![i].cur = u, ![i].status = 0]
      BY <1>2
    <2>2. /\ iter'[i].st = "queued" /\ iter'[i].dev = d
          /\ \A j \in Iters : j # i => iter'[j] = iter[j]
      BY <1>0, <1>1, <2>1 DEF Iter
    <2>3. ActivesSame
      BY <1>0, <2>2 DEF ActivesSame, Active
    <2>4. PointsSame({"destroy_cb"})
      BY <1>2 DEF PointsSame
    <2> QED
      BY <1>1, <2>3, <2>4, IterAbs, AbsStutter DEF AbsStep
  <1>3. CASE /\ iter' = [iter EXCEPT ![i].st = "ended", ![i].status = status]
             /\ Goto(t, [pt |-> "complete", iter |-> i])
    <2>1. /\ iter'[i].st = "ended" /\ \A j \in Iters : j # i => iter'[j] = iter[j]
      BY <1>1, <1>3 DEF Iter
    <2>2. /\ Active(d)' = Active(d) \ {i} /\ i \in Active(d)
          /\ \A e \in Devs : e # d => Active(e)' = Active(e)
      BY <1>0, <2>1 DEF Active
    <2>3. [pt |-> "complete", iter |-> i].pt = "complete"
      OBVIOUS
    <2>4. PICK p : p = [pt |-> "complete", iter |-> i] /\ p.pt = "complete"
      BY <2>3, Zenon
    <2>5. PointsSame({"destroy_cb"})
      <3>1. at' = [at EXCEPT ![t] = p] /\ at \in [Threads -> Point]
        BY <1>3, <2>4 DEF Goto, IndInv, TypeOK
      <3> QED
        BY <2>4, <3>1 DEF PointsSame
    <2> QED
      BY <1>1, <2>2, <2>5, IterAbs, AbsEnd DEF AbsStep
  <1> QED
    BY <1>2, <1>3 DEF Continue

(* fn calls spdk_for_each_channel_continue. *)
LEMMA CallsContinueAbs ==
  ASSUME IndInv, NEW t \in Threads, NEW i \in Iters, NEW status \in {0, -1},
         spdk_for_each_channel_continue(t, i, status)
  PROVE  AbsStep
  <1>1. /\ at[t].pt = "idle" /\ iter[i].st \in {"queued", "in_fn"}
        /\ Continue(t, i, status, messages)
    BY DEF spdk_for_each_channel_continue, Runs, At
  <1> QED
    BY <1>1, ContinueAbs

(* A message at the head of a ring is one of those counted there. *)
LEMMA HeadCounted ==
  ASSUME TypeOK, NEW t \in Threads, messages[t] # <<>>, NEW m, Head(messages[t]) = m
  PROVE  Count(messages, t, m) \in Nat \ {0}
  <1>1. /\ Count(Pop(t), t, m) = Count(messages, t, m) - 1
        /\ Pop(t) \in Rings /\ messages \in Rings
    BY PopEffect DEF TypeOK, Rings
  <1>2. Count(messages, t, m) \in Nat /\ Count(Pop(t), t, m) \in Nat
    BY <1>1, CountNat
  <1> QED
    BY <1>1, <1>2

(* fn is called, or the thread is passed over. *)
LEMMA CallChannelAbs ==
  ASSUME IndInv, Inv2, NEW t \in Threads, _call_channel(t)
  PROVE  AbsStep
  <1>0. PICK i \in Iters : i = Arg(t) /\ Head(messages[t]) = CallMsg(i)
    BY Typing DEF _call_channel, IndInv, CallMsg
  <1>1. at[t].pt = "idle" /\ messages[t] # <<>>
    BY DEF _call_channel, Handles, Runs, At
  <1>2. iter[i].st = "queued"
    <2>1. CarriedOK(i) /\ Count(messages, t, CallMsg(i)) # 0
      BY <1>0, <1>1, HeadCounted DEF Inv2, ItersOK, IndInv
    <2> QED
      BY <2>1 DEF CarriedOK
  <1>3. CASE /\ iter' = [iter EXCEPT ![i].st = "in_fn", ![i].owed = @ \ {t}]
             /\ UNCHANGED <<devVars, chVars, thrVars, at>>
    <2>1. UNCHANGED <<life, unregistered, io_channels, at>>
      BY <1>3 DEF devVars, lifeVars, flagVars, chVars
    <2>2. /\ iter'[i].st = "in_fn" /\ iter'[i].dev = iter[i].dev
          /\ \A j \in Iters : j # i => iter'[j] = iter[j]
      <3>1. iter[i] \in Iter /\ iter \in [Iters -> Iter]
        BY DEF IndInv, TypeOK
      <3> QED
        BY <1>3, <3>1 DEF Iter
    <2>3. ActivesSame
      BY <1>2, <2>2 DEF ActivesSame, Active
    <2>4. PointsSame({"destroy_cb"})
      BY <2>1 DEF PointsSame
    <2> QED
      BY <2>1, <2>3, <2>4, IterAbs, AbsStutter DEF AbsStep
  <1>4. CASE Continue(t, i, 0, Pop(t))
    BY <1>1, <1>2, <1>4, ContinueAbs
  <1> QED
    BY <1>0, <1>3, <1>4 DEF _call_channel

(* cpl runs: the iteration had ended before. *)
LEMMA CompletionAbs ==
  ASSUME IndInv, Inv2, NEW t \in Threads, _call_completion(t)
  PROVE  AbsStep
  <1>0. PICK i \in Iters : i = Arg(t) /\ Head(messages[t]) = CplMsg(i)
    BY Typing DEF _call_completion, IndInv, CplMsg
  <1>1. /\ messages[t] # <<>> /\ iter' = [iter EXCEPT ![i].st = "completed"]
        /\ UNCHANGED <<life, unregistered, io_channels, at>>
    BY <1>0 DEF _call_completion, Handles, devVars, lifeVars, flagVars, chVars
  <1>2. iter[i].st = "ended"
    <2>1. CarriedOK(i) /\ Count(messages, t, CplMsg(i)) > 0
      BY <1>0, <1>1, HeadCounted DEF Inv2, ItersOK, IndInv
    <2> QED
      BY <2>1 DEF CarriedOK
  <1>3. iter'[i].st = "completed" /\ \A j \in Iters : j # i => iter'[j] = iter[j]
    <2>1. iter[i] \in Iter /\ iter \in [Iters -> Iter]
      BY DEF IndInv, TypeOK
    <2> QED
      BY <1>1, <2>1 DEF Iter
  <1>4. ActivesSame
    BY <1>2, <1>3 DEF ActivesSame, Active
  <1>5. PointsSame({"destroy_cb"})
    BY <1>1 DEF PointsSame
  <1> QED
    BY <1>1, <1>4, <1>5, IterAbs, AbsStutter DEF AbsStep

(* Every step of the protocol is a step of RefCountedDevice, or none. *)
LEMMA NextAbs ==
  ASSUME IndInv, Inv2, IndInv', [Next]_vars
  PROVE  AbsStep
  <1>1. CASE UNCHANGED vars
    <2>1. UNCHANGED <<life, unregistered, io_channels, iter>> /\ PointsSame({"destroy_cb"})
      BY <1>1 DEF vars, devVars, lifeVars, flagVars, chVars, PointsSame
    <2> QED
      BY <2>1, AbsFrame
  <1>2. ASSUME NEW t \in Threads, Library(t)
        PROVE  AbsStep
    BY <1>2, DeferredUnregisterAbs, FreeAbs, FinishAbs, PutMessageAbs, CallChannelAbs, PlainAbs,
       CompletionAbs DEF Library
  <1>3. ASSUME NEW t \in Threads, Callbacks(t)
        PROVE  AbsStep
    BY <1>3, PlainAbs, CreateFailsAbs, DestroyAbs DEF Callbacks
  <1>4. ASSUME NEW t \in Threads, User(t)
        PROVE  AbsStep
    <2>1. CASE spdk_thread_exit(t) \/ ExitChecks(t)
      BY <2>1, PlainAbs
    <2>2. CASE CallsContinue(t)
      BY <2>2, CallsContinueAbs DEF CallsContinue
    <2>3. ASSUME NEW d \in Devs,
                 \/ spdk_io_device_register(t, d)
                 \/ \E cb \in BOOLEAN : spdk_io_device_unregister(t, d, cb)
                 \/ spdk_get_io_channel(t, d)
                 \/ spdk_io_channel_ref(t, d)
                 \/ spdk_put_io_channel(t, d)
                 \/ \E i \in Iters : spdk_for_each_channel(t, d, i)
          PROVE  AbsStep
      BY <2>3, RegisterAbs, UserUnregisterAbs, RefAbs, GetCreateAbs, ForEachAbs
      DEF spdk_get_io_channel
    <2> QED
      BY <1>4, <2>1, <2>2, <2>3 DEF User
  <1> QED
    BY <1>1, <1>2, <1>3, <1>4 DEF Next

(* The initial states are those of RefCountedDevice. *)
LEMMA InitAbs == Init => Abs!Init
  <1> SUFFICES ASSUME Init PROVE Abs!Init
    OBVIOUS
  <1>1. \A d \in Devs : Phase(d) = "absent" /\ Holders(d) = {} /\ Active(d) = {}
    BY DEF Init, Phase, Holders, Active, Idle
  <1> QED
    BY <1>1 DEF Abs!Init

(* To its users the protocol is a reference-counted device: every step registers,
   closes or finishes a device, takes or drops a holder, begins or ends an iteration
   as RefCountedDevice allows it, or does none of these. *)
THEOREM RefinementCorrect == Spec => ImplementsRefCountedDevice
  <1>1. Init => Abs!Init
    BY InitAbs
  <1>2. IndInv /\ Inv2 /\ IndInv' /\ [Next]_vars => [Abs!Next]_(Abs!vars)
    BY NextAbs DEF AbsStep
  <1>3. Spec => Abs!Spec
    BY <1>1, <1>2, Inv2Holds, PTL DEF Spec, Abs!Spec
  <1> QED
    BY <1>3 DEF ImplementsRefCountedDevice

=============================================================================
