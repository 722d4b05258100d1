--------------------------- MODULE ReactorProofs ----------------------------
(***************************************************************************)
(* Proofs about Reactor, for any number of cores and threads and any batch *)
(* size: no reactor sleeps on events (EventsNotStranded), and a thread is  *)
(* in the list of one reactor or on its way to one (ThreadsCorrect).       *)
(*                                                                         *)
(* A reactor may write its own notify_cpuset only, so the walk of a change *)
(* of mode gets to the reactors one after the other, while all of them     *)
(* send events.  The invariant says what the reactors already know while   *)
(* the walk, or the event that follows it, is on its way.                  *)
(***************************************************************************)
EXTENDS Reactor, FiniteSetTheorems, SequenceTheorems, WellFoundedInduction, TLAPS

-----------------------------------------------------------------------------
(* The inductive invariant. *)

(* The events of a reactor in the order in which it runs them, whether it has taken
   them from the ring or not. *)
Lines == [c \in Cores |-> batch[c] \o events[c]]

(* T is a set of events with the reactors they are for. *)
Has(L, T) == \E c \in Cores : \E n \in DOMAIN L[c] : <<c, L[c][n]>> \in T
AtMostOne(L, T) ==
  \A c, d \in Cores : \A m \in DOMAIN L[c], n \in DOMAIN L[d] :
    <<c, L[c][m]>> \in T /\ <<d, L[d][n]>> \in T => c = d /\ m = n

(* The thread is on its way; the change of x's mode is in some event: one that goes
   from reactor to reactor, the last of these, or the one that sets the mode. *)
Coming(t) == {p \in Cores \X Event : p[2] = [fn |-> "schedule_thread", thread |-> t]}

About(x, e) == e.fn \in {"on_reactor", "end_reactor"} /\ e.walk.fn = "notify" /\ e.walk.target = x
Walking(x) == {p \in Cores \X Event : About(x, p[2])}
Visiting(x, d) == {p \in Walking(x) : p[2].fn = "on_reactor" /\ p[1] = d}
Setting(x) == {p \in Cores \X Event : p[1] = x /\ p[2].fn = "set_interrupt_mode"}
Told(x) == Setting(x) \cup {p \in Walking(x) : p[2].fn = "end_reactor"}
Changing(x) == Walking(x) \cup Setting(x)

Infos == UNION {[S -> Cores] : S \in SUBSET Threads}

(* TypeOK, by what changes together. *)
ModeT ==
  /\ in_interrupt \in [Cores -> BOOLEAN] /\ new_in_interrupt \in [Cores -> BOOLEAN]
  /\ in_progress \in [Cores -> BOOLEAN] /\ notify_cpuset \in [Cores -> SUBSET Cores]
RingT ==
  /\ events \in [Cores -> Seq(Event)] /\ events_fd \in [Cores -> BOOLEAN]
  /\ resched_fd \in [Cores -> BOOLEAN]
LoopT ==
  /\ pc \in [Cores -> {"top", "poll", "threads", "intr", "exit", "ended"}]
  /\ batch \in [Cores -> Seq(Event)]
  /\ ready \in [Cores -> SUBSET {"events", "resched"}] /\ todo \in [Cores -> SUBSET Threads]
LwT ==
  /\ home \in [Threads -> Cores \cup {AnyCore}] /\ lcore \in [Threads -> Cores \cup {AnyCore}]
  /\ resched \in [Threads -> BOOLEAN] /\ life \in [Threads -> {"none", "running", "gone"}]
RoundT ==
  /\ in_round \in BOOLEAN /\ modes \in [Cores -> BOOLEAN] /\ infos \in [Cores -> Infos]
  /\ core_number \in Cores \cup {NCores + 1}
StopT == state \in {"running", "exiting"} /\ stopping \in BOOLEAN

(* What the place in the loop says of the batch and of the threads to visit. *)
LoopOK ==
  \A c \in Cores :
    /\ batch[c] # << >> => pc[c] \in {"poll", "intr"}
    /\ todo[c] # {} => pc[c] \in {"threads", "intr"}
    /\ \A t \in todo[c] : home[t] = c

PlaceOK(t) ==
  /\ home[t] # AnyCore => life[t] = "running" /\ lcore[t] \in Cores
  /\ AtMostOne(Lines, Coming(t))
  /\ Has(Lines, Coming(t)) <=> life[t] = "running" /\ home[t] = AnyCore

(* The change of a mode is in one event at most.  All reactors notify one that sleeps,
   for it goes to sleep after the walk over them and wakes up before. *)
Known(x) == \A c \in Cores : x \in notify_cpuset[c]
ModeOK(x) ==
  /\ AtMostOne(Lines, Changing(x))
  /\ Has(Lines, Changing(x)) => in_progress[x]
  /\ in_interrupt[x] => Known(x)
  /\ Has(Lines, Walking(x)) /\ in_interrupt[x] => new_in_interrupt[x]
  /\ Has(Lines, Told(x)) /\ new_in_interrupt[x] => Known(x)
  /\ \A d \in Cores :
       Has(Lines, Visiting(x, d)) /\ new_in_interrupt[x] =>
         \A c \in Cores : c < d => x \in notify_cpuset[c]

FdOK == \A c \in Cores : in_interrupt[c] /\ events[c] # << >> => events_fd[c]

PlacesOK == \A t \in Threads : PlaceOK(t)
ModesOK == \A x \in Cores : ModeOK(x)

IndInv ==
  /\ ModeT /\ RingT /\ LoopT /\ LwT /\ RoundT /\ StopT
  /\ LoopOK /\ PlacesOK /\ ModesOK /\ FdOK
-----------------------------------------------------------------------------
(* Sets of cores. *)

(* A set of cores that is not empty has a least element. *)
LEMMA MinIsIn ==
  ASSUME NEW S \in SUBSET Cores, S # {}
  PROVE  Min(S) \in S
  <1>1. S \in SUBSET Nat
    BY NCoresAssumption DEF Cores
  <1>2. PICK x \in S : \A n \in S : ~ (<<n, x>> \in OpToRel(<, Nat))
    BY <1>1, NatLessThanWellFounded, WFMin
  <1>3. \A n \in S : ~ (n < x)
    BY <1>1, <1>2 DEF OpToRel
  <1>4. \A n \in S : x <= n
    BY <1>1, <1>3
  <1> QED
    BY <1>4 DEF Min

(* And a greatest. *)
LEMMA MaxIsIn ==
  ASSUME NEW S \in SUBSET Cores, S # {}
  PROVE  Max(S) \in S
  <1> DEFINE D == {NCores - x : x \in S}
  <1>1. NCores \in Nat /\ \A x \in S : x \in Nat /\ x <= NCores
    BY NCoresAssumption DEF Cores
  <1>2. D \in SUBSET Nat /\ D # {}
    BY <1>1
  <1>3. PICK m \in D : \A n \in D : ~ (<<n, m>> \in OpToRel(<, Nat))
    <2> HIDE DEF D
    <2> QED
      BY <1>2, NatLessThanWellFounded, WFMin
  <1>4. \A n \in D : m <= n
    <2> HIDE DEF D
    <2>1. \A n \in D : ~ (n < m)
      BY <1>2, <1>3 DEF OpToRel
    <2> QED
      BY <1>2, <2>1
  <1>5. PICK y \in S : m = NCores - y
    BY <1>3
  <1>6. \A x \in S : y >= x
    <2> TAKE x \in S
    <2>1. NCores - y <= NCores - x
      BY <1>4, <1>5
    <2> QED
      BY <1>1, <2>1
  <1> QED
    BY <1>6 DEF Max

-----------------------------------------------------------------------------
(* Lines of events. *)

(* What happens to the events of set T when those of gone leave at the head of a line
   and those of come are put at the end of one. *)
Change(L, K, gone, come) ==
  \A T \in SUBSET (Cores \X Event) : AtMostOne(L, T) =>
    /\ gone \cap T # {} => Has(L, T)
    /\ Has(K, T) <=> (Has(L, T) /\ gone \cap T = {}) \/ come \cap T # {}
    /\ come \cap T = {} \/ ~Has(L, T) \/ gone \cap T # {} => AtMostOne(K, T)

(* Part of what is there once is there once. *)
LEMMA PartOnce ==
  ASSUME NEW L, NEW T, NEW U \in SUBSET T
  PROVE  /\ AtMostOne(L, T) => AtMostOne(L, U)
         /\ Has(L, U) => Has(L, T)
  BY DEF AtMostOne, Has

(* Nothing leaves and nothing comes. *)
LEMMA NoChange ==
  ASSUME NEW L
  PROVE  Change(L, L, {}, {})
  BY DEF Change

(* The first event of a line leaves it. *)
LEMMA PopChange ==
  ASSUME NEW L \in [Cores -> Seq(Event)], NEW c \in Cores, L[c] # <<>>,
         NEW K \in [Cores -> Seq(Event)], K = [L EXCEPT ![c] = Tail(@)]
  PROVE  Change(L, K, {<<c, L[c][1]>>}, {})
  <1>1. /\ 1 \in DOMAIN L[c] /\ Len(L[c]) \in Nat \ {0} /\ DOMAIN L[c] = 1 .. Len(L[c])
        /\ DOMAIN K[c] = 1 .. (Len(L[c]) - 1)
        /\ \A n \in DOMAIN K[c] : K[c][n] = L[c][n + 1]
    OBVIOUS
  <1>2. \A d \in Cores : d # c => K[d] = L[d]
    OBVIOUS
  <1> SUFFICES ASSUME NEW T \in SUBSET (Cores \X Event), AtMostOne(L, T)
               PROVE  /\ <<c, L[c][1]>> \in T => Has(L, T)
                      /\ Has(K, T) <=> Has(L, T) /\ <<c, L[c][1]>> \notin T
                      /\ AtMostOne(K, T)
    BY DEF Change
  <1>3. <<c, L[c][1]>> \in T => Has(L, T)
    BY <1>1 DEF Has
  <1>4. ASSUME NEW d \in Cores, NEW n \in DOMAIN K[d]
        PROVE  \E k \in DOMAIN L[d] : /\ k = (IF d = c THEN n + 1 ELSE n)
                                      /\ K[d][n] = L[d][k]
    <2>1. CASE d = c
      BY <1>1, <2>1
    <2>2. CASE d # c
      BY <1>2, <2>2
    <2> QED
      BY <2>1, <2>2
  <1>5. ASSUME Has(K, T)
        PROVE  Has(L, T) /\ <<c, L[c][1]>> \notin T
    <2>0. PICK d \in Cores : \E n \in DOMAIN K[d] : <<d, K[d][n]>> \in T
      BY <1>5 DEF Has
    <2>1. PICK n \in DOMAIN K[d] : <<d, K[d][n]>> \in T
      BY <2>0
    <2>2. PICK k \in DOMAIN L[d] : k = (IF d = c THEN n + 1 ELSE n) /\ K[d][n] = L[d][k]
      BY <1>4
    <2>3. d # c \/ k # 1
      <3> SUFFICES ASSUME d = c PROVE k # 1
        OBVIOUS
      <3>1. n \in 1 .. (Len(L[c]) - 1)
        BY <1>1
      <3> QED
        BY <1>1, <2>2, <3>1
    <2>4. <<d, L[d][k]>> \in T
      BY <2>1, <2>2
    <2>5. Has(L, T)
      BY <2>4 DEF Has
    <2>6. 1 \in DOMAIN L[c]
      BY <1>1
    <2>7. <<c, L[c][1]>> \notin T
      BY <2>3, <2>4, <2>6 DEF AtMostOne
    <2> QED
      BY <2>5, <2>7
  <1>6. ASSUME Has(L, T), <<c, L[c][1]>> \notin T
        PROVE  Has(K, T)
    <2>0. PICK d \in Cores : \E k \in DOMAIN L[d] : <<d, L[d][k]>> \in T
      BY <1>6 DEF Has
    <2>1. PICK k \in DOMAIN L[d] : <<d, L[d][k]>> \in T
      BY <2>0
    <2>2. CASE d # c
      BY <1>2, <2>1, <2>2 DEF Has
    <2>3. CASE d = c
      <3>1. k # 1 /\ k \in 1 .. Len(L[c])
        BY <1>1, <1>6, <2>1, <2>3
      <3>2. k - 1 \in DOMAIN K[c] /\ K[c][k - 1] = L[c][k]
        BY <1>1, <3>1
      <3> QED
        BY <2>1, <2>3, <3>2 DEF Has
    <2> QED
      BY <2>2, <2>3
  <1>7. AtMostOne(K, T)
    <2> SUFFICES ASSUME NEW d \in Cores, NEW f \in Cores, NEW m \in DOMAIN K[d], NEW n \in DOMAIN K[f],
                        <<d, K[d][m]>> \in T, <<f, K[f][n]>> \in T
                 PROVE  d = f /\ m = n
      BY DEF AtMostOne
    <2>1. PICK k \in DOMAIN L[d] : k = (IF d = c THEN m + 1 ELSE m) /\ K[d][m] = L[d][k]
      BY <1>4
    <2>2. PICK l \in DOMAIN L[f] : l = (IF f = c THEN n + 1 ELSE n) /\ K[f][n] = L[f][l]
      BY <1>4
    <2>3. d = f /\ k = l
      BY <2>1, <2>2 DEF AtMostOne
    <2>4. m \in Nat /\ n \in Nat
      OBVIOUS
    <2> QED
      BY <2>1, <2>2, <2>3, <2>4
  <1> QED
    BY <1>3, <1>5, <1>6, <1>7

(* An event is put at the end, where there was none like it. *)
LEMMA PushOnce ==
  ASSUME NEW L, NEW K, NEW c \in Cores, NEW e, NEW z, NEW T,
         AtMostOne(L, T), <<c, e>> \notin T \/ ~Has(L, T),
         \A d \in Cores : \A n \in DOMAIN K[d] :
           \/ n \in DOMAIN L[d] /\ K[d][n] = L[d][n]
           \/ d = c /\ n = z /\ K[d][n] = e
  PROVE  AtMostOne(K, T)
  <1> SUFFICES ASSUME NEW d \in Cores, NEW f \in Cores, NEW m \in DOMAIN K[d], NEW n \in DOMAIN K[f],
                      <<d, K[d][m]>> \in T, <<f, K[f][n]>> \in T
               PROVE  d = f /\ m = n
    BY DEF AtMostOne
  <1>1. \/ m \in DOMAIN L[d] /\ K[d][m] = L[d][m]
        \/ d = c /\ m = z /\ K[d][m] = e
    OBVIOUS
  <1>2. \/ n \in DOMAIN L[f] /\ K[f][n] = L[f][n]
        \/ f = c /\ n = z /\ K[f][n] = e
    OBVIOUS
  <1>3. CASE m \in DOMAIN L[d] /\ K[d][m] = L[d][m]
    <2>1. Has(L, T)
      BY <1>3 DEF Has
    <2>2. n \in DOMAIN L[f] /\ K[f][n] = L[f][n]
      BY <1>2, <2>1
    <2> QED
      BY <1>3, <2>2 DEF AtMostOne
  <1>4. CASE d = c /\ m = z /\ K[d][m] = e
    <2>1. ~Has(L, T)
      BY <1>4
    <2>2. f = c /\ n = z
      BY <1>2, <2>1 DEF Has
    <2> QED
      BY <1>4, <2>2
  <1> QED
    BY <1>1, <1>3, <1>4

(* K is L with e as event number z of c. *)
Pushed(L, K, c, e, z) ==
  /\ z \in DOMAIN K[c] /\ K[c][z] = e
  /\ \A d \in Cores : \A n \in DOMAIN L[d] : n \in DOMAIN K[d] /\ K[d][n] = L[d][n]
  /\ \A d \in Cores : \A n \in DOMAIN K[d] :
       \/ n \in DOMAIN L[d] /\ K[d][n] = L[d][n]
       \/ d = c /\ n = z /\ K[d][n] = e

(* An event at the end of a line: all else stays. *)
LEMMA PushOf ==
  ASSUME NEW L \in [Cores -> Seq(Event)], NEW c \in Cores, NEW e \in Event,
         NEW K, K[c] = Append(L[c], e), \A d \in Cores : d # c => K[d] = L[d]
  PROVE  \E z \in Nat : Pushed(L, K, c, e, z)
  <1> DEFINE z == Len(L[c]) + 1
  <1>1. /\ Len(L[c]) \in Nat /\ DOMAIN L[c] = 1 .. Len(L[c])
        /\ DOMAIN K[c] = 1 .. z /\ z \in DOMAIN K[c] /\ z \notin DOMAIN L[c]
        /\ K[c][z] = e
        /\ \A n \in DOMAIN L[c] : n \in DOMAIN K[c] /\ K[c][n] = L[c][n]
        /\ \A n \in DOMAIN K[c] : n # z => n \in DOMAIN L[c]
    OBVIOUS
  <1> HIDE DEF z
  <1>3. /\ \A d \in Cores : \A n \in DOMAIN L[d] : n \in DOMAIN K[d] /\ K[d][n] = L[d][n]
        /\ \A d \in Cores : \A n \in DOMAIN K[d] :
             \/ n \in DOMAIN L[d] /\ K[d][n] = L[d][n]
             \/ d = c /\ n = z /\ K[d][n] = e
    BY <1>1
  <1> QED
    BY <1>1, <1>3 DEF Pushed

(* One event comes, and none leaves. *)
LEMMA PushChange ==
  ASSUME NEW L, NEW K, NEW c \in Cores, NEW e, NEW z, Pushed(L, K, c, e, z)
  PROVE  Change(L, K, {}, {<<c, e>>})
  <1> SUFFICES ASSUME NEW T \in SUBSET (Cores \X Event), AtMostOne(L, T)
               PROVE  /\ Has(K, T) <=> Has(L, T) \/ <<c, e>> \in T
                      /\ <<c, e>> \notin T \/ ~Has(L, T) => AtMostOne(K, T)
    BY DEF Change
  <1>1. Has(K, T) => Has(L, T) \/ <<c, e>> \in T
    BY DEF Has, Pushed
  <1>2. Has(L, T) => Has(K, T)
    BY DEF Has, Pushed
  <1>3. <<c, e>> \in T => Has(K, T)
    BY DEF Has, Pushed
  <1>4. <<c, e>> \notin T \/ ~Has(L, T) => AtMostOne(K, T)
    BY PushOnce DEF Pushed
  <1> QED
    BY <1>1, <1>2, <1>3, <1>4

(* First one leaves, then one comes. *)
LEMMA PopPushChange ==
  ASSUME NEW L, NEW M, NEW K, NEW gone, NEW come, Change(L, M, gone, {}), Change(M, K, {}, come)
  PROVE  Change(L, K, gone, come)
  BY DEF Change

(* A batch and the rest of the ring are one line. *)
LEMMA JoinAppend ==
  ASSUME NEW E, NEW b \in Seq(E), NEW s \in Seq(E), NEW e \in E
  PROVE  b \o Append(s, e) = Append(b \o s, e)
  OBVIOUS

(* The first event of a batch is the first of the line. *)
LEMMA JoinTail ==
  ASSUME NEW E, NEW b \in Seq(E), NEW s \in Seq(E), b # <<>>
  PROVE  /\ Tail(b) \in Seq(E) /\ b \o s \in Seq(E) /\ b \o s # <<>>
         /\ Tail(b) \o s = Tail(b \o s) /\ (b \o s)[1] = Head(b) /\ Head(b) \in E
  OBVIOUS

(* A ring that is split into a batch and a rest is the same line. *)
LEMMA JoinSplit ==
  ASSUME NEW E, NEW s \in Seq(E), NEW n \in 0 .. Len(s)
  PROVE  /\ SubSeq(s, 1, n) \in Seq(E) /\ SubSeq(s, n + 1, Len(s)) \in Seq(E)
         /\ SubSeq(s, 1, n) \o SubSeq(s, n + 1, Len(s)) = <<>> \o s
         /\ s = <<>> => SubSeq(s, 1, n) = <<>>
  <1> DEFINE a == SubSeq(s, 1, n)
             z == SubSeq(s, n + 1, Len(s))
  <1>1. a \in Seq(E) /\ Len(a) = n /\ \A i \in 1 .. n : a[i] = s[i]
    OBVIOUS
  <1>2. z \in Seq(E) /\ Len(z) = Len(s) - n /\ \A i \in 1 .. Len(s) - n : z[i] = s[n + i]
    OBVIOUS
  <1>3. Len(s) \in Nat /\ n \in Nat /\ n <= Len(s)
    OBVIOUS
  <1> HIDE DEF a, z
  <1>4. a \o z \in Seq(E) /\ Len(a \o z) = Len(s)
    BY <1>1, <1>2, <1>3
  <1>5. ASSUME NEW i \in 1 .. Len(s)
        PROVE  (a \o z)[i] = s[i]
    <2>1. CASE i <= n
      BY <1>1, <1>2, <1>3, <2>1
    <2>2. CASE i > n
      <3>1. i - n \in 1 .. Len(z) /\ z[i - n] = s[i]
        BY <1>2, <1>3, <2>2
      <3> QED
        BY <1>1, <1>2, <1>3, <2>2, <3>1
    <2>3. i <= n \/ i > n
      BY <1>3
    <2> QED
      BY <2>1, <2>2, <2>3
  <1>6. a \o z = <<>> \o s
    BY <1>4, <1>5, SeqEqual, ConcatEmptySeq
  <1>7. s = <<>> => a = <<>>
    BY <1>1, <1>3
  <1> QED
    BY <1>1, <1>2, <1>6, <1>7 DEF a, z

(* Lines are sequences of events. *)
LEMMA LinesType ==
  ASSUME batch \in [Cores -> Seq(Event)], events \in [Cores -> Seq(Event)]
  PROVE  Lines \in [Cores -> Seq(Event)]
  BY DEF Lines

(* Sending an event. *)
LEMMA SendChange ==
  ASSUME batch \in [Cores -> Seq(Event)], events \in [Cores -> Seq(Event)], UNCHANGED batch,
         NEW d \in Cores, NEW e \in Event, events' = [events EXCEPT ![d] = Append(@, e)]
  PROVE  /\ events' \in [Cores -> Seq(Event)]
         /\ Change(Lines, Lines', {}, {<<d, e>>})
  <1>1. events' \in [Cores -> Seq(Event)]
    OBVIOUS
  <1>2. \A c \in Cores : Lines'[c] = IF c = d THEN Append(Lines[c], e) ELSE Lines[c]
    <2>1. \A c \in Cores : Lines[c] = batch[c] \o events[c] /\ Lines'[c] = batch[c] \o events'[c]
      BY DEF Lines
    <2>2. events'[d] = Append(events[d], e) /\ \A c \in Cores : c # d => events'[c] = events[c]
      OBVIOUS
    <2>3. batch[d] \o Append(events[d], e) = Append(batch[d] \o events[d], e)
      BY JoinAppend
    <2> QED
      BY <2>1, <2>2, <2>3
  <1>3. Lines \in [Cores -> Seq(Event)]
    BY LinesType
  <1>4. PICK z \in Nat : Pushed(Lines, Lines', d, e, z)
    BY <1>2, <1>3, PushOf
  <1> QED
    BY <1>1, <1>4, PushChange

(* Taking events from the ring. *)
LEMMA DequeueChange ==
  ASSUME batch \in [Cores -> Seq(Event)], events \in [Cores -> Seq(Event)],
         NEW c \in Cores, batch[c] = <<>>, Dequeue(c)
  PROVE  /\ events' \in [Cores -> Seq(Event)] /\ batch' \in [Cores -> Seq(Event)]
         /\ \A d \in Cores : d # c => batch'[d] = batch[d]
         /\ \A d \in Cores : events[d] = <<>> => events'[d] = <<>>
         /\ events[c] = <<>> => batch'[c] = <<>>
         /\ Change(Lines, Lines', {}, {})
  <1> DEFINE n == Min({BatchSize, Len(events[c])})
  <1>1. n \in 0 .. Len(events[c])
    <2> DEFINE S == {BatchSize, Len(events[c])}
    <2>1. Len(events[c]) \in Nat /\ BatchSize \in Nat
      BY BatchSizeAssumption
    <2>2. \E x \in S : \A y \in S : x <= y
      BY <2>1
    <2>3. n \in S /\ \A y \in S : n <= y
      BY <2>2 DEF Min
    <2> QED
      BY <2>1, <2>3
  <1>2. batch' = [batch EXCEPT ![c] = SubSeq(events[c], 1, n)]
    BY DEF Dequeue
  <1>3. events' = [events EXCEPT ![c] = SubSeq(events[c], n + 1, Len(events[c]))]
    BY DEF Dequeue
  <1> HIDE DEF n
  <1>4. /\ SubSeq(events[c], 1, n) \in Seq(Event)
        /\ SubSeq(events[c], n + 1, Len(events[c])) \in Seq(Event)
        /\ SubSeq(events[c], 1, n) \o SubSeq(events[c], n + 1, Len(events[c])) = <<>> \o events[c]
        /\ events[c] = <<>> => SubSeq(events[c], 1, n) = <<>>
    BY <1>1, JoinSplit
  <1>5. Lines' = Lines
    BY <1>2, <1>3, <1>4 DEF Lines
  <1>6. events[c] = <<>> => events'[c] = <<>>
    BY <1>1, <1>3
  <1> QED
    BY <1>2, <1>3, <1>4, <1>5, <1>6, NoChange

(* Running an event, which may send one. *)
LEMMA RunChange ==
  ASSUME batch \in [Cores -> Seq(Event)], events \in [Cores -> Seq(Event)],
         NEW c \in Cores, batch[c] # <<>>, batch' = [batch EXCEPT ![c] = Tail(@)]
  PROVE  /\ batch' \in [Cores -> Seq(Event)] /\ Head(batch[c]) \in Event
         /\ \A d \in Cores : batch'[d] # <<>> => batch[d] # <<>>
         /\ events' = events => Change(Lines, Lines', {<<c, Head(batch[c])>>}, {})
         /\ \A d \in Cores, e \in Event :
              events' = [events EXCEPT ![d] = Append(@, e)] =>
                /\ events' \in [Cores -> Seq(Event)]
                /\ Change(Lines, Lines', {<<c, Head(batch[c])>>}, {<<d, e>>})
  <1> DEFINE M == [k \in Cores |-> batch'[k] \o events[k]]
  <1>1. batch' \in [Cores -> Seq(Event)] /\ Head(batch[c]) \in Event
    BY JoinTail
  <1>2. \A d \in Cores : batch'[d] # <<>> => batch[d] # <<>>
    OBVIOUS
  <1>3. Lines \in [Cores -> Seq(Event)] /\ M \in [Cores -> Seq(Event)]
    BY <1>1, LinesType
  <1>4. Lines[c] # <<>> /\ Lines[c][1] = Head(batch[c]) /\ M[c] = Tail(Lines[c])
    BY JoinTail DEF Lines
  <1>5. \A d \in Cores : d # c => M[d] = Lines[d]
    BY DEF Lines
  <1>6. events' = events => Lines' = M
    BY DEF Lines
  <1>7. ASSUME NEW d \in Cores, NEW e \in Event, events' = [events EXCEPT ![d] = Append(@, e)]
        PROVE  /\ Lines'[d] = Append(M[d], e)
               /\ \A k \in Cores : k # d => Lines'[k] = M[k]
               /\ events' \in [Cores -> Seq(Event)]
    <2>1. \A k \in Cores : M[k] = batch'[k] \o events[k] /\ Lines'[k] = batch'[k] \o events'[k]
      BY DEF Lines
    <2>2. events'[d] = Append(events[d], e) /\ \A k \in Cores : k # d => events'[k] = events[k]
      BY <1>7
    <2>0. PICK b \in Seq(Event) : b = batch'[d]
      BY <1>1
    <2>3. b \o Append(events[d], e) = Append(b \o events[d], e)
      BY JoinAppend
    <2>4. events' \in [Cores -> Seq(Event)]
      BY <1>7
    <2> QED
      BY <2>0, <2>1, <2>2, <2>3, <2>4
  <1> HIDE DEF M
  <1>8. M = [Lines EXCEPT ![c] = Tail(@)]
    BY <1>3, <1>4, <1>5
  <1>9. Change(Lines, M, {<<c, Head(batch[c])>>}, {})
    BY <1>3, <1>4, <1>8, PopChange
  <1>10. ASSUME NEW d \in Cores, NEW e \in Event, events' = [events EXCEPT ![d] = Append(@, e)]
         PROVE  /\ events' \in [Cores -> Seq(Event)]
                /\ Change(Lines, Lines', {<<c, Head(batch[c])>>}, {<<d, e>>})
    <2>1. PICK z \in Nat : Pushed(M, Lines', d, e, z)
      BY <1>3, <1>7, <1>10, PushOf
    <2>2. Change(M, Lines', {}, {<<d, e>>})
      BY <2>1, PushChange
    <2> QED
      BY <1>7, <1>9, <1>10, <2>2, PopPushChange
  <1> QED
    BY <1>1, <1>2, <1>6, <1>9, <1>10

-----------------------------------------------------------------------------
(* What the actions leave alone. *)

(* The sets of events that are about a thread or a mode. *)
LEMMA Parts ==
  ASSUME NEW x, NEW d
  PROVE  /\ Coming(x) \in SUBSET (Cores \X Event) /\ Changing(x) \in SUBSET (Cores \X Event)
         /\ Walking(x) \in SUBSET Changing(x) /\ Told(x) \in SUBSET Changing(x)
         /\ Visiting(x, d) \in SUBSET Changing(x)
  BY DEF Coming, Changing, Walking, Told, Visiting, Setting

(* Events that have another function are in none of them. *)
LEMMA OtherEvents ==
  ASSUME NEW d, NEW e
  PROVE  /\ e.fn # "schedule_thread" => \A t : {<<d, e>>} \cap Coming(t) = {}
         /\ e.fn \notin {"on_reactor", "end_reactor", "set_interrupt_mode"} =>
              \A x : {<<d, e>>} \cap Changing(x) = {}
  BY DEF Coming, Changing, Walking, Setting, About

(* A set that nothing joins. *)
LEMMA NoneCome ==
  ASSUME NEW gone, NEW come, Change(Lines, Lines', gone, come),
         NEW T \in SUBSET (Cores \X Event), AtMostOne(Lines, T), come \cap T = {}
  PROVE  AtMostOne(Lines', T) /\ (Has(Lines', T) => Has(Lines, T) /\ gone \cap T = {})
  BY DEF Change

(* The mode of x is not touched, and no event about it is sent. *)
LEMMA ModeKept ==
  ASSUME NEW x \in Cores, ModeOK(x), NEW gone, NEW come, Change(Lines, Lines', gone, come),
         come \cap Changing(x) = {},
         in_progress[x] => in_progress'[x] \/ gone \cap Changing(x) # {},
         in_interrupt'[x] = in_interrupt[x], new_in_interrupt'[x] = new_in_interrupt[x],
         \A c \in Cores : x \in notify_cpuset'[c] <=> x \in notify_cpuset[c]
  PROVE  ModeOK(x)'
  <1>1. AtMostOne(Lines, Changing(x)) /\ Changing(x) \in SUBSET (Cores \X Event)
    BY Parts DEF ModeOK
  <1>2. /\ AtMostOne(Lines', Changing(x))
        /\ Has(Lines', Changing(x)) => Has(Lines, Changing(x)) /\ gone \cap Changing(x) = {}
    BY <1>1, NoneCome
  <1>3. ASSUME NEW T \in SUBSET Changing(x)
        PROVE  Has(Lines', T) => Has(Lines, T)
    <2>1. AtMostOne(Lines, T) /\ T \in SUBSET (Cores \X Event) /\ come \cap T = {}
      BY <1>1, PartOnce
    <2> QED
      BY <2>1, NoneCome
  <1>4. /\ Has(Lines', Walking(x)) => Has(Lines, Walking(x))
        /\ Has(Lines', Told(x)) => Has(Lines, Told(x))
        /\ \A d \in Cores : Has(Lines', Visiting(x, d)) => Has(Lines, Visiting(x, d))
    BY <1>3, Parts
  <1>5. Known(x)' <=> Known(x)
    BY DEF Known
  <1> QED
    BY <1>2, <1>4, <1>5 DEF ModeOK

(* The thread stays where it is. *)
LEMMA PlaceKept ==
  ASSUME NEW t \in Threads, PlaceOK(t), NEW gone, NEW come, Change(Lines, Lines', gone, come),
         gone \cap Coming(t) = {}, come \cap Coming(t) = {},
         home'[t] = home[t], life'[t] = life[t], lcore'[t] = lcore[t] \/ lcore'[t] \in Cores
  PROVE  PlaceOK(t)'
  <1>1. AtMostOne(Lines, Coming(t)) /\ Coming(t) \in SUBSET (Cores \X Event)
    BY Parts DEF PlaceOK
  <1>2. AtMostOne(Lines', Coming(t)) /\ (Has(Lines', Coming(t)) <=> Has(Lines, Coming(t)))
    BY <1>1 DEF Change
  <1> QED
    BY <1>2 DEF PlaceOK

(* Events are taken, or such that are not about modes are sent. *)
LEMMA ModesKept ==
  ASSUME ModesOK, UNCHANGED mode, NEW gone, NEW come, Change(Lines, Lines', gone, come),
         \A x \in Cores : come \cap Changing(x) = {}
  PROVE  ModesOK'
  <1> SUFFICES ASSUME NEW x \in Cores PROVE ModeOK(x)'
    BY DEF ModesOK
  <1>1. ModeOK(x)
    BY DEF ModesOK
  <1>2. /\ in_interrupt'[x] = in_interrupt[x] /\ new_in_interrupt'[x] = new_in_interrupt[x]
        /\ in_progress[x] => in_progress'[x] \/ gone \cap Changing(x) # {}
        /\ \A c \in Cores : x \in notify_cpuset'[c] <=> x \in notify_cpuset[c]
    BY DEF mode
  <1> QED
    BY <1>1, <1>2, ModeKept

(* Events are taken or sent, none of which is about a thread. *)
LEMMA PlacesKept ==
  ASSUME PlacesOK, UNCHANGED <<home, life, lcore>>, NEW gone, NEW come,
         Change(Lines, Lines', gone, come),
         \A t \in Threads : gone \cap Coming(t) = {} /\ come \cap Coming(t) = {}
  PROVE  PlacesOK'
  <1> SUFFICES ASSUME NEW t \in Threads PROVE PlaceOK(t)'
    BY DEF PlacesOK
  <1>1. PlaceOK(t)
    BY DEF PlacesOK
  <1>2. home'[t] = home[t] /\ life'[t] = life[t] /\ (lcore'[t] = lcore[t] \/ lcore'[t] \in Cores)
    OBVIOUS
  <1> QED
    BY <1>1, <1>2, PlaceKept

(* Who is asleep is notified. *)
LEMMA SendWakes ==
  ASSUME FdOK, RingT, ModeT, NEW notify, NEW d \in Cores, NEW e \in Event, spdk_event_call(notify, d, e),
         \A c \in Cores : in_interrupt'[c] => in_interrupt[c], in_interrupt[d] => d \in notify
  PROVE  FdOK' /\ events_fd' \in [Cores -> BOOLEAN] /\ events' = [events EXCEPT ![d] = Append(@, e)]
  BY DEF FdOK, RingT, ModeT, spdk_event_call

(* A reactor that sleeps is in the notify_cpuset of every reactor. *)
LEMMA SleepersNotified ==
  ASSUME ModesOK, NEW c \in Cores, NEW d \in Cores
  PROVE  in_interrupt[d] => d \in notify_cpuset[c]
  BY DEF ModesOK, ModeOK, Known

-----------------------------------------------------------------------------
(* The loop of a reactor. *)

(* Only the place in the loop changes, and the events that are taken. *)
LEMMA LoopFrame ==
  ASSUME IndInv, UNCHANGED <<mode, lw, round, stop>>, Change(Lines, Lines', {}, {}),
         LoopT', RingT', LoopOK', FdOK'
  PROVE  IndInv'
  <1>1. ModesOK' /\ PlacesOK'
    BY ModesKept, PlacesKept DEF IndInv, lw
  <1>2. ModeT' /\ LwT' /\ RoundT' /\ StopT'
    BY DEF IndInv, ModeT, LwT, RoundT, StopT, mode, lw, round, stop
  <1> QED
    BY <1>1, <1>2 DEF IndInv

(* The lines are the same when ring and batch are. *)
LEMMA LinesSame ==
  ASSUME UNCHANGED <<batch, events>>
  PROVE  Change(Lines, Lines', {}, {})
  <1>1. Lines' = Lines
    BY DEF Lines
  <1> QED
    BY <1>1, NoChange

(* After an iteration a reactor is at the top of its loop, or has left it. *)
LEMMA IterationPc ==
  ASSUME LoopT, NEW c \in Cores, NextIteration(c)
  PROVE  /\ pc' \in [Cores -> {"top", "poll", "threads", "intr", "exit", "ended"}]
         /\ \A d \in Cores : d # c => pc'[d] = pc[d]
         /\ pc'[c] \in {"top", "exit"}
  BY DEF LoopT, NextIteration

(* The threads of c are those that are at home there. *)
LEMMA VisitOK ==
  ASSUME LoopT, LoopOK, NEW c \in Cores, VisitThreads(c), UNCHANGED home, batch'[c] = <<>>,
         \A d \in Cores : d # c => batch'[d] = batch[d]
  PROVE  /\ LoopOK'
         /\ pc' \in [Cores -> {"top", "poll", "threads", "intr", "exit", "ended"}]
         /\ todo' \in [Cores -> SUBSET Threads]
  <1>1. /\ pc' \in [Cores -> {"top", "poll", "threads", "intr", "exit", "ended"}]
        /\ \A d \in Cores : d # c => pc'[d] = pc[d]
        /\ on(c) # {} => pc'[c] = "threads"
    BY IterationPc DEF VisitThreads, LoopT
  <1>2. /\ todo' \in [Cores -> SUBSET Threads] /\ todo'[c] = on(c)
        /\ \A d \in Cores : d # c => todo'[d] = todo[d]
    BY DEF VisitThreads, LoopT, on
  <1>3. \A t \in on(c) : home'[t] = c
    BY DEF on
  <1> QED
    BY <1>1, <1>2, <1>3 DEF LoopOK

(* _reactor_run in poll mode takes a batch of events. *)
LEMMA ReactorRunInd ==
  ASSUME IndInv, NEW c \in Cores, _reactor_run(c)
  PROVE  IndInv'
  <1>1. /\ pc[c] = "top" /\ Dequeue(c) /\ ~in_interrupt[c]
        /\ UNCHANGED <<mode, events_fd, resched_fd, ready, lw, round, stop>>
    BY DEF _reactor_run
  <1>2. batch[c] = <<>> /\ todo[c] = {}
    BY <1>1 DEF IndInv, LoopOK
  <1>3. /\ events' \in [Cores -> Seq(Event)] /\ batch' \in [Cores -> Seq(Event)]
        /\ \A d \in Cores : d # c => batch'[d] = batch[d]
        /\ \A d \in Cores : events[d] = <<>> => events'[d] = <<>>
        /\ events[c] = <<>> => batch'[c] = <<>>
        /\ Change(Lines, Lines', {}, {})
    BY <1>1, <1>2, DequeueChange DEF IndInv, LoopT, RingT
  <1>4. RingT'
    BY <1>1, <1>3 DEF IndInv, RingT
  <1>5. FdOK'
    BY <1>1, <1>3 DEF IndInv, FdOK, mode
  <1>6. LoopOK' /\ LoopT'
    <2>1. CASE events[c] = <<>>
      <3>1. VisitThreads(c) /\ UNCHANGED home
        BY <1>1, <2>1 DEF _reactor_run, lw
      <3>2. /\ LoopOK' /\ todo' \in [Cores -> SUBSET Threads]
            /\ pc' \in [Cores -> {"top", "poll", "threads", "intr", "exit", "ended"}]
        BY <1>3, <2>1, <3>1, VisitOK DEF IndInv
      <3> QED
        BY <1>1, <1>3, <3>2 DEF IndInv, LoopT
    <2>2. CASE events[c] # <<>>
      <3>1. pc' = [pc EXCEPT ![c] = "poll"] /\ UNCHANGED <<todo, home>>
        BY <1>1, <2>2 DEF _reactor_run, lw
      <3>2. LoopOK'
        BY <1>2, <1>3, <3>1 DEF IndInv, LoopOK, LoopT
      <3> QED
        BY <1>1, <1>3, <3>1, <3>2 DEF IndInv, LoopT
    <2> QED
      BY <2>1, <2>2
  <1> QED
    BY <1>1, <1>3, <1>4, <1>5, <1>6, LoopFrame

(* The batch has been run, and the threads are next. *)
LEMMA BatchDoneInd ==
  ASSUME IndInv, NEW c \in Cores, BatchDone(c)
  PROVE  IndInv'
  <1>1. /\ batch[c] = <<>> /\ VisitThreads(c)
        /\ UNCHANGED <<mode, ring, resched_fd, batch, ready, lw, round, stop>>
    BY DEF BatchDone
  <1>2. /\ LoopOK' /\ todo' \in [Cores -> SUBSET Threads]
        /\ pc' \in [Cores -> {"top", "poll", "threads", "intr", "exit", "ended"}]
    BY <1>1, VisitOK DEF IndInv, lw
  <1>3. LoopT' /\ RingT' /\ FdOK'
    BY <1>1, <1>2 DEF IndInv, LoopT, RingT, FdOK, ring, mode
  <1> QED
    BY <1>1, <1>2, <1>3, LinesSame, LoopFrame DEF ring

(* A reactor that sleeps is woken up by a descriptor. *)
LEMMA InterruptRunInd ==
  ASSUME IndInv, NEW c \in Cores, reactor_interrupt_run(c)
  PROVE  IndInv'
  <1>1. /\ pc[c] \in {"top", "exit"} /\ pc' = [pc EXCEPT ![c] = "intr"]
        /\ ready' \in [Cores -> SUBSET {"events", "resched"}]
        /\ UNCHANGED <<mode, ring, resched_fd, batch, todo, lw, round, stop>>
    BY DEF IndInv, LoopT, reactor_interrupt_run
  <1>2. LoopT' /\ RingT' /\ FdOK' /\ LoopOK'
    BY <1>1 DEF IndInv, LoopT, RingT, FdOK, LoopOK, ring, mode, lw
  <1> QED
    BY <1>1, <1>2, LinesSame, LoopFrame DEF ring

(* It has handled the descriptors that were readable. *)
LEMMA InterruptDoneInd ==
  ASSUME IndInv, NEW c \in Cores, InterruptDone(c)
  PROVE  IndInv'
  <1>1. /\ batch[c] = <<>> /\ todo[c] = {} /\ NextIteration(c)
        /\ UNCHANGED <<mode, ring, resched_fd, batch, ready, todo, lw, round, stop>>
    BY DEF InterruptDone
  <1>2. /\ pc' \in [Cores -> {"top", "poll", "threads", "intr", "exit", "ended"}]
        /\ \A d \in Cores : d # c => pc'[d] = pc[d]
    BY <1>1, IterationPc DEF IndInv
  <1>3. LoopT' /\ RingT' /\ FdOK' /\ LoopOK'
    BY <1>1, <1>2 DEF IndInv, LoopT, RingT, FdOK, LoopOK, ring, mode, lw
  <1> QED
    BY <1>1, <1>3, LinesSame, LoopFrame DEF ring

(* A reactor without threads ends. *)
LEMMA ReactorEndsInd ==
  ASSUME IndInv, NEW c \in Cores, ReactorEnds(c)
  PROVE  IndInv'
  <1>1. /\ pc[c] = "exit" /\ pc' = [pc EXCEPT ![c] = "ended"]
        /\ UNCHANGED <<mode, ring, resched_fd, batch, ready, todo, lw, round, stop>>
    BY DEF ReactorEnds
  <1>2. LoopT' /\ RingT' /\ FdOK' /\ LoopOK'
    BY <1>1 DEF IndInv, LoopT, RingT, FdOK, LoopOK, ring, mode, lw
  <1> QED
    BY <1>1, <1>2, LinesSame, LoopFrame DEF ring

(* The descriptor is written again when the ring is not empty. *)
LEMMA QueueRunInd ==
  ASSUME IndInv, NEW c \in Cores, event_queue_run_batch(c)
  PROVE  IndInv'
  <1>1. /\ pc[c] = "intr" /\ batch[c] = <<>> /\ Dequeue(c)
        /\ ready' = [ready EXCEPT ![c] = @ \ {"events"}]
        /\ events_fd' = [events_fd EXCEPT ![c] = in_interrupt[c] /\ events'[c] # <<>>]
        /\ UNCHANGED <<mode, resched_fd, pc, todo, lw, round, stop>>
    BY DEF event_queue_run_batch, Handling
  <1>2. /\ events' \in [Cores -> Seq(Event)] /\ batch' \in [Cores -> Seq(Event)]
        /\ \A d \in Cores : d # c => batch'[d] = batch[d]
        /\ \A d \in Cores : events[d] = <<>> => events'[d] = <<>>
        /\ Change(Lines, Lines', {}, {})
    BY <1>1, DequeueChange DEF IndInv, LoopT, RingT
  <1>3. events_fd' \in [Cores -> BOOLEAN]
    BY <1>1 DEF IndInv, RingT
  <1>4. LoopT' /\ RingT' /\ LoopOK'
    BY <1>1, <1>2, <1>3 DEF IndInv, LoopT, RingT, LoopOK, lw
  <1>5. FdOK'
    BY <1>1, <1>2 DEF IndInv, FdOK, RingT, mode
  <1> QED
    BY <1>1, <1>2, <1>4, <1>5, LoopFrame

(* reactor_schedule_thread_event begins to visit the threads. *)
LEMMA ScheduleEventInd ==
  ASSUME IndInv, NEW c \in Cores, reactor_schedule_thread_event(c)
  PROVE  IndInv'
  <1>1. /\ pc[c] = "intr" /\ ready' = [ready EXCEPT ![c] = @ \ {"resched"}]
        /\ resched_fd' = [resched_fd EXCEPT ![c] = FALSE]
        /\ todo' = [todo EXCEPT ![c] = on(c)]
        /\ UNCHANGED <<mode, ring, pc, batch, lw, round, stop>>
    BY DEF reactor_schedule_thread_event, Handling
  <1>2. LoopT' /\ RingT' /\ FdOK' /\ LoopOK'
    BY <1>1 DEF IndInv, LoopT, RingT, FdOK, LoopOK, ring, mode, lw, on
  <1> QED
    BY <1>1, <1>2, LinesSame, LoopFrame DEF ring

-----------------------------------------------------------------------------
(* Threads that move, come and go. *)

SameThread(u) == home'[u] = home[u] /\ life'[u] = life[u] /\ lcore'[u] = lcore[u]

(* A thread that is on its way to no reactor is sent to one. *)
LEMMA ThreadSent ==
  ASSUME IndInv, NEW c \in Cores, NEW t \in Threads, NEW core, _reactor_schedule_thread(c, t, core),
         UNCHANGED <<mode, batch, resched_fd>>, ~Has(Lines, Coming(t))
  PROVE  /\ RingT' /\ FdOK' /\ ModesOK'
         /\ AtMostOne(Lines', Coming(t)) /\ Has(Lines', Coming(t))
         /\ \A u \in Threads : u # t /\ SameThread(u) => PlaceOK(u)'
  <1> DEFINE e == [fn |-> "schedule_thread", thread |-> t]
  <1>1. PICK d \in Cores : spdk_event_call(notify_cpuset[c], d, e)
    BY DEF _reactor_schedule_thread
  <1>2. e \in Event /\ e.fn = "schedule_thread"
    BY DEF Event
  <1>3. <<d, e>> \in Coming(t) /\ \A u : u # t => {<<d, e>>} \cap Coming(u) = {}
    <2>1. \A u : e = [fn |-> "schedule_thread", thread |-> u] => u = t
      <3> TAKE u
      <3>1. [fn |-> "schedule_thread", thread |-> u].thread = u /\ e.thread = t
        OBVIOUS
      <3> QED
        BY <3>1
    <2> QED
      BY <1>2, <2>1 DEF Coming
  <1> HIDE DEF e
  <1>4. /\ FdOK' /\ events_fd' \in [Cores -> BOOLEAN]
        /\ events' = [events EXCEPT ![d] = Append(@, e)]
    <2>1. in_interrupt[d] => d \in notify_cpuset[c]
      BY SleepersNotified DEF IndInv
    <2>2. FdOK /\ RingT /\ ModeT /\ UNCHANGED in_interrupt
      BY DEF IndInv, mode
    <2> QED
      BY <1>1, <1>2, <2>1, <2>2, SendWakes
  <1>5. events' \in [Cores -> Seq(Event)] /\ Change(Lines, Lines', {}, {<<d, e>>})
    BY <1>2, <1>4, SendChange DEF IndInv, LoopT, RingT
  <1>6. RingT'
    BY <1>4, <1>5 DEF IndInv, RingT
  <1>7. ModesOK'
    <2>1. \A x \in Cores : {<<d, e>>} \cap Changing(x) = {}
      BY <1>2, OtherEvents
    <2> QED
      BY <1>5, <2>1, ModesKept DEF IndInv
  <1>8. AtMostOne(Lines', Coming(t)) /\ Has(Lines', Coming(t))
    <2>1. AtMostOne(Lines, Coming(t)) /\ Coming(t) \in SUBSET (Cores \X Event)
      BY Parts DEF IndInv, PlacesOK, PlaceOK
    <2>2. {<<d, e>>} \cap Coming(t) # {}
      BY <1>3
    <2> QED
      BY <1>5, <2>1, <2>2 DEF Change
  <1>9. ASSUME NEW u \in Threads, u # t, SameThread(u)
        PROVE  PlaceOK(u)'
    <2>1. PlaceOK(u) /\ {<<d, e>>} \cap Coming(u) = {}
      BY <1>3, <1>9 DEF IndInv, PlacesOK
    <2> QED
      BY <1>5, <1>9, <2>1, PlaceKept DEF SameThread
  <1> QED
    BY <1>4, <1>6, <1>7, <1>8, <1>9

(* The threads a reactor has still to visit are at home on it. *)
LEMMA PostProcessInd ==
  ASSUME IndInv, NEW c \in Cores, NEW t \in todo[c], NEW exited, NEW move, NEW core,
         reactor_post_process_lw_thread(c, t, exited, move, core),
         UNCHANGED <<mode, resched_fd, batch, ready, round, stop>>,
         todo' = [todo EXCEPT ![c] = @ \ {t}],
         pc' \in [Cores -> {"top", "poll", "threads", "intr", "exit", "ended"}],
         \A d \in Cores : pc'[d] = pc[d] \/ (d = c /\ todo'[d] = {} /\ batch[d] = <<>>)
  PROVE  IndInv'
  <1>1. t \in Threads /\ home[t] = c /\ life[t] = "running" /\ c # AnyCore
    BY NCoresAssumption DEF IndInv, LoopT, LoopOK, PlacesOK, PlaceOK
  <1>2. ~Has(Lines, Coming(t)) /\ AtMostOne(Lines, Coming(t))
    BY <1>1 DEF IndInv, PlacesOK, PlaceOK
  <1>3. LoopT'
    BY DEF IndInv, LoopT
  <1>4. ASSUME \A u \in Threads : u # t => home'[u] = home[u]
        PROVE  LoopOK'
    <2>1. \A d \in Cores : todo'[d] \subseteq todo[d] /\ t \notin todo'[d]
      BY <1>1 DEF IndInv, LoopT, LoopOK
    <2>2. \A d \in Cores : \A u \in todo[d] : u \in Threads /\ home[u] = d
      BY DEF IndInv, LoopT, LoopOK
    <2>3. \A d \in Cores : \A u \in todo'[d] : home'[u] = d
      BY <1>4, <2>1, <2>2
    <2> QED
      BY <2>1, <2>3 DEF IndInv, LoopOK
  <1>5. RoundT' /\ StopT' /\ ModeT'
    BY DEF IndInv, RoundT, StopT, ModeT, round, stop, mode
  <1>6. CASE /\ life' = [life EXCEPT ![t] = "gone"] /\ home' = [home EXCEPT ![t] = AnyCore]
             /\ UNCHANGED <<lcore, resched, ring>>
    <2>1. Change(Lines, Lines', {}, {})
      BY <1>6, LinesSame DEF ring
    <2>2. ModesOK' /\ FdOK' /\ RingT'
      BY <1>6, <2>1, ModesKept DEF IndInv, FdOK, RingT, ring, mode
    <2>3. LwT' /\ \A u \in Threads : u # t => SameThread(u)
      BY <1>1, <1>6 DEF IndInv, LwT, SameThread
    <2>4. ASSUME NEW u \in Threads, u # t PROVE PlaceOK(u)'
      <3>1. PlaceOK(u) /\ SameThread(u)
        BY <2>3, <2>4 DEF IndInv, PlacesOK
      <3> QED
        BY <2>1, <3>1, PlaceKept DEF SameThread
    <2>5. PlaceOK(t)'
      <3>1. AtMostOne(Lines', Coming(t)) /\ ~Has(Lines', Coming(t))
        BY <1>2, <2>1, Parts DEF Change
      <3>2. home'[t] = AnyCore /\ life'[t] = "gone"
        BY <1>1, <1>6 DEF IndInv, LwT
      <3> QED
        BY <3>1, <3>2 DEF PlaceOK
    <2>6. PlacesOK'
      BY <2>4, <2>5 DEF PlacesOK
    <2> QED
      BY <1>3, <1>4, <1>5, <2>2, <2>3, <2>6 DEF IndInv, SameThread
  <1>7. CASE /\ resched' = [resched EXCEPT ![t] = FALSE]
             /\ home' = [home EXCEPT ![t] = AnyCore] /\ lcore' = [lcore EXCEPT ![t] = AnyCore]
             /\ _reactor_schedule_thread(c, t, core)
             /\ UNCHANGED life
    <2>1. /\ RingT' /\ FdOK' /\ ModesOK'
          /\ AtMostOne(Lines', Coming(t)) /\ Has(Lines', Coming(t))
          /\ \A u \in Threads : u # t /\ SameThread(u) => PlaceOK(u)'
      BY <1>1, <1>2, <1>7, ThreadSent
    <2>2. LwT' /\ \A u \in Threads : u # t => SameThread(u)
      BY <1>1, <1>7 DEF IndInv, LwT, SameThread
    <2>3. PlaceOK(t)'
      <3>1. home'[t] = AnyCore /\ life'[t] = "running"
        BY <1>1, <1>7 DEF IndInv, LwT
      <3> QED
        BY <2>1, <3>1 DEF PlaceOK
    <2>4. PlacesOK'
      BY <2>1, <2>2, <2>3 DEF PlacesOK
    <2> QED
      BY <1>3, <1>4, <1>5, <2>1, <2>2, <2>4 DEF IndInv, SameThread
  <1>8. CASE UNCHANGED <<lw, ring>>
    <2>1. Change(Lines, Lines', {}, {})
      BY <1>8, LinesSame DEF ring
    <2>2. LoopOK'
      BY <1>4, <1>8 DEF lw
    <2>3. FdOK' /\ RingT'
      BY <1>8 DEF IndInv, FdOK, RingT, ring, mode
    <2> QED
      BY <1>3, <1>8, <2>1, <2>2, <2>3, LoopFrame
  <1> QED
    BY <1>6, <1>7, <1>8 DEF reactor_post_process_lw_thread

(* A thread is polled; it may exit or be moved. *)
LEMMA PollThreadInd ==
  ASSUME IndInv, NEW c \in Cores, NEW t \in Threads, PollThread(c, t)
  PROVE  IndInv'
  <1>1. /\ pc[c] = "threads" /\ t \in todo[c] /\ todo' = [todo EXCEPT ![c] = @ \ {t}]
        /\ IF todo[c] = {t} THEN NextIteration(c) ELSE UNCHANGED pc
        /\ UNCHANGED <<mode, resched_fd, batch, ready, round, stop>>
    BY DEF PollThread
  <1>2. \E exited, move, core : reactor_post_process_lw_thread(c, t, exited, move, core)
    BY DEF PollThread
  <1>3. batch[c] = <<>>
    BY <1>1 DEF IndInv, LoopOK
  <1>4. /\ pc' \in [Cores -> {"top", "poll", "threads", "intr", "exit", "ended"}]
        /\ \A d \in Cores : pc'[d] = pc[d] \/ (d = c /\ todo'[d] = {} /\ batch[d] = <<>>)
    <2>1. CASE todo[c] = {t}
      BY <1>1, <1>3, <2>1, IterationPc DEF IndInv, LoopT
    <2>2. CASE todo[c] # {t}
      BY <1>1, <2>2 DEF IndInv, LoopT
    <2> QED
      BY <2>1, <2>2
  <1> QED
    BY <1>1, <1>2, <1>4, PostProcessInd

(* A thread of a reactor that sleeps may be moved. *)
LEMMA PostProcessEventInd ==
  ASSUME IndInv, NEW c \in Cores, NEW t \in Threads, PostProcess(c, t)
  PROVE  IndInv'
  <1>1. /\ t \in todo[c] /\ todo' = [todo EXCEPT ![c] = @ \ {t}] /\ UNCHANGED pc
        /\ reactor_post_process_lw_thread(c, t, FALSE, resched[t], lcore[t])
        /\ UNCHANGED <<mode, resched_fd, batch, ready, round, stop>>
    BY DEF PostProcess
  <1>2. /\ pc' \in [Cores -> {"top", "poll", "threads", "intr", "exit", "ended"}]
        /\ \A d \in Cores : pc'[d] = pc[d]
    BY <1>1 DEF IndInv, LoopT
  <1> QED
    BY <1>1, <1>2, PostProcessInd

(* A thread is made to exit. *)
LEMMA ExitThreadInd ==
  ASSUME IndInv, NEW c \in Cores, NEW t \in Threads, ExitThread(c, t)
  PROVE  IndInv'
  <1>1. /\ pc[c] = "exit" /\ home[t] = c /\ c # AnyCore
        /\ life' = [life EXCEPT ![t] = "gone"] /\ home' = [home EXCEPT ![t] = AnyCore]
        /\ UNCHANGED <<lcore, resched, mode, ring, resched_fd, loop, round, stop>>
    BY NCoresAssumption DEF ExitThread, on
  <1>2. ~Has(Lines, Coming(t)) /\ AtMostOne(Lines, Coming(t))
    BY <1>1 DEF IndInv, PlacesOK, PlaceOK
  <1>3. Change(Lines, Lines', {}, {})
    BY <1>1, LinesSame DEF ring, loop
  <1>4. LwT' /\ home'[t] = AnyCore /\ life'[t] = "gone" /\ \A u \in Threads : u # t => SameThread(u)
    BY <1>1 DEF IndInv, LwT, SameThread
  <1>5. ASSUME NEW u \in Threads, u # t PROVE PlaceOK(u)'
    <2>1. PlaceOK(u) /\ SameThread(u)
      BY <1>4, <1>5 DEF IndInv, PlacesOK
    <2> QED
      BY <1>3, <2>1, PlaceKept DEF SameThread
  <1>6. PlaceOK(t)'
    <2>1. AtMostOne(Lines', Coming(t)) /\ ~Has(Lines', Coming(t))
      BY <1>2, <1>3, Parts DEF Change
    <2> QED
      BY <1>4, <2>1 DEF PlaceOK
  <1>7. LoopOK'
    <2>1. \A d \in Cores : t \notin todo[d]
      BY <1>1 DEF IndInv, LoopOK
    <2>2. \A d \in Cores : \A u \in todo[d] : home'[u] = home[u]
      BY <1>4, <2>1 DEF IndInv, LoopT, SameThread
    <2> QED
      BY <1>1, <2>2 DEF IndInv, LoopOK, loop
  <1>8. ModesOK' /\ FdOK' /\ RingT'
    BY <1>1, <1>3, ModesKept DEF IndInv, FdOK, RingT, ring, mode
  <1>9. LoopT' /\ RoundT' /\ StopT' /\ ModeT'
    BY <1>1 DEF IndInv, LoopT, RoundT, StopT, ModeT, loop, round, stop, mode
  <1> QED
    BY <1>4, <1>5, <1>6, <1>7, <1>8, <1>9 DEF IndInv, PlacesOK

(* The app thread creates a thread, which is sent to a reactor. *)
LEMMA ThreadCreateInd ==
  ASSUME IndInv, NEW t \in Threads, spdk_thread_create(t)
  PROVE  IndInv'
  <1>1. /\ life[t] = "none" /\ life' = [life EXCEPT ![t] = "running"]
        /\ _reactor_schedule_thread(Main, t, AnyCore)
        /\ UNCHANGED <<home, lcore, resched, mode, resched_fd, loop, round, stop>>
    BY DEF spdk_thread_create
  <1>2. ~Has(Lines, Coming(t)) /\ home[t] = AnyCore
    BY <1>1 DEF IndInv, PlacesOK, PlaceOK
  <1>3. Main \in Cores
    BY NCoresAssumption DEF Main, Cores
  <1>4. /\ RingT' /\ FdOK' /\ ModesOK'
        /\ AtMostOne(Lines', Coming(t)) /\ Has(Lines', Coming(t))
        /\ \A u \in Threads : u # t /\ SameThread(u) => PlaceOK(u)'
    BY <1>1, <1>2, <1>3, ThreadSent DEF loop
  <1>5. LwT' /\ life'[t] = "running" /\ \A u \in Threads : u # t => SameThread(u)
    BY <1>1 DEF IndInv, LwT, SameThread
  <1>6. PlacesOK'
    BY <1>1, <1>2, <1>4, <1>5 DEF PlacesOK, PlaceOK
  <1>7. LoopT' /\ LoopOK' /\ RoundT' /\ StopT' /\ ModeT'
    BY <1>1 DEF IndInv, LoopT, LoopOK, RoundT, StopT, ModeT, loop, round, stop, mode
  <1> QED
    BY <1>4, <1>5, <1>6, <1>7 DEF IndInv

-----------------------------------------------------------------------------
(* Events that are run, and what they send. *)

(* The events of gone have been taken to be run. *)
Step(gone) ==
  /\ LoopT' /\ UNCHANGED <<pc, todo>>
  /\ \A d \in Cores : batch'[d] # <<>> => batch[d] # <<>>
  /\ events' = events => Change(Lines, Lines', gone, {})
  /\ \A d \in Cores, e \in Event :
       events' = [events EXCEPT ![d] = Append(@, e)] =>
         /\ events' \in [Cores -> Seq(Event)]
         /\ Change(Lines, Lines', gone, {<<d, e>>})

(* RunEvent takes the first event of the batch. *)
LEMMA RunStep ==
  ASSUME IndInv, NEW c \in Cores, batch[c] # <<>>, batch' = [batch EXCEPT ![c] = Tail(@)],
         UNCHANGED <<pc, ready, todo>>
  PROVE  Step({<<c, Head(batch[c])>>}) /\ Head(batch[c]) \in Event
  <1>1. batch \in [Cores -> Seq(Event)] /\ events \in [Cores -> Seq(Event)]
    BY DEF IndInv, LoopT, RingT
  <1>2. /\ batch' \in [Cores -> Seq(Event)] /\ Head(batch[c]) \in Event
        /\ \A d \in Cores : batch'[d] # <<>> => batch[d] # <<>>
        /\ events' = events => Change(Lines, Lines', {<<c, Head(batch[c])>>}, {})
        /\ \A d \in Cores, e \in Event :
             events' = [events EXCEPT ![d] = Append(@, e)] =>
               /\ events' \in [Cores -> Seq(Event)]
               /\ Change(Lines, Lines', {<<c, Head(batch[c])>>}, {<<d, e>>})
    BY <1>1, RunChange
  <1>3. LoopT'
    BY <1>2 DEF IndInv, LoopT
  <1> QED
    BY <1>2, <1>3 DEF Step

(* What is not in an event takes none. *)
LEMMA DirectStep ==
  ASSUME IndInv, UNCHANGED loop
  PROVE  Step({})
  <1>1. /\ batch \in [Cores -> Seq(Event)] /\ events \in [Cores -> Seq(Event)]
        /\ UNCHANGED batch /\ LoopT' /\ UNCHANGED <<pc, todo>>
    BY DEF IndInv, LoopT, RingT, loop
  <1>2. events' = events => Change(Lines, Lines', {}, {})
    BY <1>1, LinesSame
  <1> QED
    BY <1>1, <1>2, SendChange DEF Step

(* Taking an event leaves the place in the loop alone. *)
LEMMA StepLoop ==
  ASSUME IndInv, NEW gone, Step(gone), \A d \in Cores : \A u \in todo[d] : home'[u] = home[u]
  PROVE  LoopT' /\ LoopOK'
  BY DEF IndInv, Step, LoopOK

(* Everything but the round and the end of it all. *)
Inner == ModeT /\ RingT /\ LoopT /\ LwT /\ LoopOK /\ PlacesOK /\ ModesOK /\ FdOK

(* An event that is about neither threads nor modes is sent, or none. *)
Plain(e) ==
  \/ e.fn \in {"update_core_mode", "gather_metrics", "balance", "cancel"}
  \/ e.fn \in {"on_reactor", "end_reactor"} /\ e.walk.fn = "nop"

(* A plain event is about no thread and no mode. *)
LEMMA PlainEvents ==
  ASSUME NEW d, NEW e, Plain(e)
  PROVE  \A x : {<<d, e>>} \cap Coming(x) = {} /\ {<<d, e>>} \cap Changing(x) = {}
  <1>1. CASE e.fn \in {"update_core_mode", "gather_metrics", "balance", "cancel"}
    BY <1>1, OtherEvents
  <1>2. CASE e.fn \in {"on_reactor", "end_reactor"} /\ e.walk.fn = "nop"
    BY <1>2, OtherEvents DEF Changing, Walking, Setting, About
  <1> QED
    BY <1>1, <1>2 DEF Plain

(* A plain event is sent. *)
LEMMA PlainSent ==
  ASSUME IndInv, NEW gone, Step(gone), \A t \in Threads : gone \cap Coming(t) = {},
         NEW c \in Cores, NEW d \in Cores, NEW e \in Event, Plain(e),
         spdk_event_call(notify_cpuset[c], d, e), UNCHANGED <<mode, lw, resched_fd>>
  PROVE  Inner'
  <1>1. in_interrupt[d] => d \in notify_cpuset[c]
    BY SleepersNotified DEF IndInv
  <1>2. FdOK /\ RingT /\ ModeT /\ \A k \in Cores : in_interrupt'[k] => in_interrupt[k]
    BY DEF IndInv, mode
  <1>3. /\ FdOK' /\ events_fd' \in [Cores -> BOOLEAN]
        /\ events' = [events EXCEPT ![d] = Append(@, e)]
    BY <1>1, <1>2, SendWakes
  <1>4. events' \in [Cores -> Seq(Event)] /\ Change(Lines, Lines', gone, {<<d, e>>})
    BY <1>3 DEF Step
  <1>5. ModesOK' /\ PlacesOK'
    <2>1. \A x : {<<d, e>>} \cap Coming(x) = {} /\ {<<d, e>>} \cap Changing(x) = {}
      BY PlainEvents
    <2>2. ModesOK /\ PlacesOK /\ UNCHANGED <<home, life, lcore>>
      BY DEF IndInv, lw
    <2>3. ModesOK'
      BY <1>4, <2>1, <2>2, ModesKept
    <2>4. PlacesOK'
      BY <1>4, <2>1, <2>2, PlacesKept
    <2> QED
      BY <2>3, <2>4
  <1>6. LoopT' /\ LoopOK'
    BY StepLoop DEF lw
  <1>7. RingT' /\ ModeT' /\ LwT'
    BY <1>3, <1>4 DEF IndInv, RingT, ModeT, LwT, mode, lw
  <1> QED
    BY <1>3, <1>5, <1>6, <1>7 DEF Inner

(* Events are only taken, and the descriptors of reactors may be written. *)
LEMMA NothingSent ==
  ASSUME IndInv, NEW gone, Step(gone), \A t \in Threads : gone \cap Coming(t) = {},
         UNCHANGED <<mode, events, home, life>>, LwT', RingT',
         \A t \in Threads : lcore'[t] = lcore[t] \/ lcore'[t] \in Cores,
         \A c \in Cores : events_fd[c] => events_fd'[c]
  PROVE  Inner'
  <1>1. Change(Lines, Lines', gone, {})
    BY DEF Step
  <1>2. ModesOK'
    BY <1>1, ModesKept DEF IndInv
  <1>3. PlacesOK'
    <2> SUFFICES ASSUME NEW t \in Threads PROVE PlaceOK(t)'
      BY DEF PlacesOK
    <2>1. PlaceOK(t)
      BY DEF IndInv, PlacesOK
    <2> QED
      BY <1>1, <2>1, PlaceKept
  <1>4. LoopT' /\ LoopOK'
    BY StepLoop
  <1>5. ModeT' /\ FdOK'
    BY DEF IndInv, ModeT, FdOK, mode
  <1> QED
    BY <1>2, <1>3, <1>4, <1>5 DEF Inner

(* What an event is. *)
LEMMA EventIs ==
  ASSUME NEW e \in Event
  PROVE  /\ e.fn = "schedule_thread" =>
              e.thread \in Threads /\ e = [fn |-> "schedule_thread", thread |-> e.thread]
         /\ e.fn \in {"on_reactor", "end_reactor"} =>
              e.walk \in Walk /\ e = [fn |-> e.fn, walk |-> e.walk]
         /\ e.fn \in {"schedule_thread", "on_reactor", "end_reactor", "set_interrupt_mode",
                      "update_core_mode", "gather_metrics", "balance", "cancel"}
  BY DEF Event

(* What spdk_for_each_reactor was called for, and the events that carry it. *)
LEMMA WalkIs ==
  ASSUME NEW w \in Walk
  PROVE  /\ w.orig_core \in Cores /\ w.fn \in {"notify", "nop"}
         /\ w.fn = "notify" => w.target \in Cores
         /\ \A f \in {"on_reactor", "end_reactor"} :
              /\ [fn |-> f, walk |-> w] \in Event
              /\ [fn |-> f, walk |-> w].fn = f /\ [fn |-> f, walk |-> w].walk = w
  BY NCoresAssumption DEF Walk, Event, Main, Cores

(* The events that carry nothing. *)
LEMMA PlainIs ==
  ASSUME NEW f \in {"set_interrupt_mode", "update_core_mode", "gather_metrics", "balance", "cancel"}
  PROVE  /\ [fn |-> f] \in Event /\ [fn |-> f].fn = f
         /\ f # "set_interrupt_mode" => Plain([fn |-> f])
  BY DEF Event, Plain

(* The thread arrives. *)
LEMMA ArriveInd ==
  ASSUME IndInv, NEW c \in Cores, NEW t \in Threads,
         Step({<<c, [fn |-> "schedule_thread", thread |-> t]>>}), _schedule_thread(c, t)
  PROVE  IndInv'
  <1> DEFINE e == [fn |-> "schedule_thread", thread |-> t]
  <1>1. /\ lcore' = [lcore EXCEPT ![t] = c] /\ home' = [home EXCEPT ![t] = c]
        /\ UNCHANGED <<resched, life, mode, ring, resched_fd, round, stop>>
    BY DEF _schedule_thread
  <1>2. <<c, e>> \in Coming(t) /\ \A u : u # t => {<<c, e>>} \cap Coming(u) = {}
    <2>1. \A u : e = [fn |-> "schedule_thread", thread |-> u] => u = t
      <3> TAKE u
      <3>1. [fn |-> "schedule_thread", thread |-> u].thread = u /\ e.thread = t
        OBVIOUS
      <3> QED
        BY <3>1
    <2>2. e \in Event
      BY DEF Event
    <2> QED
      BY <2>1, <2>2 DEF Coming
  <1> HIDE DEF e
  <1>3. Change(Lines, Lines', {<<c, e>>}, {})
    BY <1>1 DEF Step, ring, e
  <1>4. /\ Has(Lines, Coming(t)) /\ AtMostOne(Lines', Coming(t)) /\ ~Has(Lines', Coming(t))
    <2>1. AtMostOne(Lines, Coming(t)) /\ Coming(t) \in SUBSET (Cores \X Event)
      BY Parts DEF IndInv, PlacesOK, PlaceOK
    <2> QED
      BY <1>2, <1>3, <2>1 DEF Change
  <1>5. life[t] = "running" /\ home[t] = AnyCore
    BY <1>4 DEF IndInv, PlacesOK, PlaceOK
  <1>6. LwT' /\ home'[t] = c /\ lcore'[t] = c /\ \A u \in Threads : u # t => SameThread(u)
    BY <1>1 DEF IndInv, LwT, SameThread
  <1>7. PlaceOK(t)'
    BY <1>1, <1>4, <1>5, <1>6, NCoresAssumption DEF PlaceOK
  <1>8. ASSUME NEW u \in Threads, u # t PROVE PlaceOK(u)'
    <2>1. PlaceOK(u) /\ SameThread(u) /\ {<<c, e>>} \cap Coming(u) = {}
      BY <1>2, <1>6, <1>8 DEF IndInv, PlacesOK
    <2> QED
      BY <1>3, <2>1, PlaceKept DEF SameThread
  <1>9. LoopT' /\ LoopOK'
    <2>1. \A d \in Cores : \A u \in todo[d] : u \in Threads /\ u # t
      BY <1>5, NCoresAssumption DEF IndInv, LoopT, LoopOK
    <2>2. \A d \in Cores : \A u \in todo[d] : home'[u] = home[u]
      BY <1>6, <2>1 DEF SameThread
    <2> QED
      BY <2>2, StepLoop
  <1>10. ModesOK'
    BY <1>1, <1>3, ModesKept DEF IndInv
  <1>11. ModeT' /\ RingT' /\ FdOK' /\ RoundT' /\ StopT'
    BY <1>1 DEF IndInv, ModeT, RingT, FdOK, RoundT, StopT, mode, ring, round, stop
  <1> QED
    BY <1>6, <1>7, <1>8, <1>9, <1>10, <1>11 DEF IndInv, PlacesOK

-----------------------------------------------------------------------------
(* The change of a mode. *)

(* An event about x. *)
LEMMA AboutOne ==
  ASSUME NEW d \in Cores, NEW w \in Walk, w.fn = "notify", NEW f \in {"on_reactor", "end_reactor"}
  PROVE  LET p == <<d, [fn |-> f, walk |-> w]>>
             x == w.target
         IN /\ p \in Walking(x) /\ p \in Changing(x)
            /\ p \in Told(x) <=> f = "end_reactor"
            /\ \A k : p \in Visiting(x, k) <=> f = "on_reactor" /\ k = d
            /\ \A y : y # x => {p} \cap Changing(y) = {}
            /\ \A y : {p} \cap Coming(y) = {}
  <1> DEFINE e == [fn |-> f, walk |-> w]
  <1>1. e \in Event /\ e.fn = f /\ e.walk = w
    BY WalkIs
  <1> HIDE DEF e
  <1>2. \A y : About(y, e) <=> y = w.target
    BY <1>1 DEF About
  <1>3. \A y : {<<d, e>>} \cap Coming(y) = {}
    BY <1>1, OtherEvents
  <1>4. /\ <<d, e>> \in Cores \X Event /\ <<d, e>>[1] = d /\ <<d, e>>[2] = e
    BY <1>1
  <1>5. /\ \A y : <<d, e>> \in Walking(y) <=> y = w.target
        /\ \A y : <<d, e>> \notin Setting(y)
    BY <1>1, <1>2, <1>4 DEF Walking, Setting
  <1>6. /\ <<d, e>> \in Told(w.target) <=> f = "end_reactor"
        /\ \A k : <<d, e>> \in Visiting(w.target, k) <=> f = "on_reactor" /\ k = d
        /\ \A y : <<d, e>> \in Changing(y) <=> y = w.target
    BY <1>1, <1>4, <1>5 DEF Told, Visiting, Changing
  <1> QED
    BY <1>3, <1>5, <1>6 DEF e

(* The event for x to set its mode is about no other mode. *)
LEMMA SetsOne ==
  ASSUME NEW x \in Cores, NEW e \in Event, e.fn = "set_interrupt_mode"
  PROVE  /\ <<x, e>> \in Told(x) /\ <<x, e>> \in Changing(x) /\ <<x, e>> \notin Walking(x)
         /\ \A k : <<x, e>> \notin Visiting(x, k)
         /\ \A y : y # x => {<<x, e>>} \cap Changing(y) = {}
         /\ \A y : {<<x, e>>} \cap Coming(y) = {}
  <1>1. \A y : {<<x, e>>} \cap Coming(y) = {}
    BY OtherEvents
  <1>2. /\ <<x, e>> \in Cores \X Event /\ <<x, e>>[1] = x /\ <<x, e>>[2] = e
    OBVIOUS
  <1>3. \A y : <<x, e>> \notin Walking(y) /\ (<<x, e>> \in Setting(y) <=> y = x)
    BY <1>2 DEF Walking, Setting, About
  <1> QED
    BY <1>1, <1>3 DEF Told, Visiting, Changing

(* What becomes of the sets when an event about x is run and perhaps one is sent. *)
LEMMA Follows ==
  ASSUME NEW x \in Cores, ModeOK(x), NEW gone, NEW come, Change(Lines, Lines', gone, come),
         NEW T \in SUBSET Changing(x)
  PROVE  /\ gone \cap T # {} => Has(Lines, T)
         /\ Has(Lines', T) => Has(Lines, T) \/ come \cap T # {}
         /\ gone \cap Changing(x) # {} => AtMostOne(Lines', Changing(x))
  <1>1. AtMostOne(Lines, Changing(x)) /\ Changing(x) \in SUBSET (Cores \X Event)
    BY Parts DEF ModeOK
  <1>2. AtMostOne(Lines, T) /\ T \in SUBSET (Cores \X Event)
    BY <1>1, PartOnce
  <1> QED
    BY <1>1, <1>2 DEF Change

(* The walk gets to reactor c and goes on, or ends after the last. *)
LEMMA WalkMode ==
  ASSUME IndInv, NEW c \in Cores, NEW w \in Walk, w.fn = "notify", NEW x \in Cores, x = w.target,
         NEW d \in Cores, NEW f \in {"on_reactor", "end_reactor"},
         f = "on_reactor" => d = c + 1, f = "end_reactor" => c = NCores,
         Change(Lines, Lines', {<<c, [fn |-> "on_reactor", walk |-> w]>>},
                               {<<d, [fn |-> f, walk |-> w]>>}),
         notify_cpuset' = [notify_cpuset EXCEPT ![c] = _reactor_set_notify_cpuset(c, x)],
         UNCHANGED <<in_interrupt, new_in_interrupt, in_progress>>
  PROVE  ModeOK(x)' /\ (in_interrupt[x] => new_in_interrupt[x])
  <1> DEFINE h == <<c, [fn |-> "on_reactor", walk |-> w]>>
             p == <<d, [fn |-> f, walk |-> w]>>
  <1>1. /\ h \in Walking(x) /\ h \in Changing(x) /\ h \in Visiting(x, c)
    BY AboutOne
  <1>2. /\ p \in Told(x) <=> f = "end_reactor"
        /\ \A k : p \in Visiting(x, k) <=> f = "on_reactor" /\ k = d
    BY AboutOne
  <1>3. ModeOK(x) /\ Change(Lines, Lines', {h}, {p})
    BY DEF IndInv, ModesOK
  <1> HIDE DEF h, p
  <1>4. /\ Has(Lines, Changing(x)) /\ Has(Lines, Walking(x)) /\ Has(Lines, Visiting(x, c))
        /\ AtMostOne(Lines', Changing(x))
        /\ Has(Lines', Told(x)) => Has(Lines, Told(x)) \/ p \in Told(x)
        /\ \A k \in Cores : Has(Lines', Visiting(x, k)) => Has(Lines, Visiting(x, k)) \/ p \in Visiting(x, k)
    <2>1. /\ Walking(x) \in SUBSET Changing(x) /\ Told(x) \in SUBSET Changing(x)
          /\ \A k : Visiting(x, k) \in SUBSET Changing(x)
      BY Parts
    <2> QED
      BY <1>1, <1>3, <2>1, Follows
  <1>5. in_interrupt[x] => new_in_interrupt[x]
    BY <1>3, <1>4 DEF ModeOK
  <1>6. /\ new_in_interrupt[x] => x \in notify_cpuset'[c]
        /\ \A k \in Cores : k # c => notify_cpuset'[k] = notify_cpuset[k]
    BY DEF IndInv, ModeT, _reactor_set_notify_cpuset
  <1>7. new_in_interrupt[x] => \A k \in Cores : x \in notify_cpuset[k] => x \in notify_cpuset'[k]
    BY <1>6
  <1>8. new_in_interrupt[x] => \A k \in Cores : k < c => x \in notify_cpuset'[k]
    BY <1>3, <1>4, <1>7 DEF ModeOK
  <1>9. in_interrupt'[x] => Known(x)'
    BY <1>3, <1>5, <1>7 DEF ModeOK, Known
  <1>10. Has(Lines', Told(x)) /\ new_in_interrupt[x] => Known(x)'
    <2>1. CASE Has(Lines, Told(x))
      BY <1>3, <1>7, <2>1 DEF ModeOK, Known
    <2>2. CASE f = "end_reactor" /\ new_in_interrupt[x]
      <3>1. \A k \in Cores : k = c \/ k < c
        BY <2>2, NCoresAssumption DEF Cores
      <3> QED
        BY <1>6, <1>8, <2>2, <3>1 DEF Known
    <2> QED
      BY <1>2, <1>4, <2>1, <2>2
  <1>11. ASSUME NEW k \in Cores, Has(Lines', Visiting(x, k)), new_in_interrupt[x],
                NEW j \in Cores, j < k
         PROVE  x \in notify_cpuset'[j]
    <2>1. CASE Has(Lines, Visiting(x, k))
      BY <1>3, <1>7, <1>11, <2>1 DEF ModeOK
    <2>2. CASE k = d /\ f = "on_reactor"
      <3>1. j = c \/ j < c
        BY <1>11, <2>2, NCoresAssumption DEF Cores
      <3> QED
        BY <1>6, <1>8, <1>11, <3>1
    <2> QED
      BY <1>2, <1>4, <1>11, <2>1, <2>2
  <1>12. Has(Lines', Changing(x)) => in_progress'[x]
    BY <1>3, <1>4 DEF ModeOK
  <1> QED
    BY <1>4, <1>5, <1>9, <1>10, <1>11, <1>12 DEF ModeOK

(* on_reactor: reactor c learns of the mode, and the walk goes on. *)
LEMMA OnReactorInd ==
  ASSUME IndInv, NEW c \in Cores, NEW w \in Walk,
         Step({<<c, [fn |-> "on_reactor", walk |-> w]>>}), on_reactor(c, w)
  PROVE  IndInv'
  <1> DEFINE notify == IF w.fn = "nop" THEN notify_cpuset[c] ELSE _reactor_set_notify_cpuset(c, w.target)
             h == <<c, [fn |-> "on_reactor", walk |-> w]>>
  <1>1. /\ notify_cpuset' = [notify_cpuset EXCEPT ![c] = notify]
        /\ UNCHANGED <<in_interrupt, new_in_interrupt, in_progress, resched_fd, lw, round, stop>>
    BY DEF on_reactor
  <1>2. w.orig_core \in Cores /\ w.fn \in {"notify", "nop"} /\ (w.fn = "notify" => w.target \in Cores)
    BY WalkIs
  <1>3. PICK d \in Cores, f \in {"on_reactor", "end_reactor"} :
          /\ spdk_event_call(notify, d, [fn |-> f, walk |-> w])
          /\ f = "on_reactor" => d = c + 1
          /\ f = "end_reactor" => c = NCores
    <2>1. CASE c = NCores
      BY <1>2, <2>1 DEF on_reactor
    <2>2. CASE c # NCores
      <3>1. c + 1 \in Cores
        BY <2>2, NCoresAssumption DEF Cores
      <3> QED
        BY <2>2, <3>1 DEF on_reactor
    <2> QED
      BY <2>1, <2>2
  <1> DEFINE e == [fn |-> f, walk |-> w]
  <1>4. e \in Event /\ e.fn = f /\ e.walk = w
    BY WalkIs
  <1>5. \A t \in Threads : {h} \cap Coming(t) = {} /\ {<<d, e>>} \cap Coming(t) = {}
    BY OtherEvents
  <1>6. RoundT' /\ StopT' /\ LwT'
    BY <1>1 DEF IndInv, RoundT, StopT, LwT, round, stop, lw
  <1>7. CASE w.fn = "nop"
    <2>1. UNCHANGED <<mode, lw, resched_fd>> /\ Plain(e) /\ notify = notify_cpuset[c]
      BY <1>1, <1>4, <1>7 DEF IndInv, ModeT, mode, Plain
    <2>2. Step({h}) /\ spdk_event_call(notify_cpuset[c], d, e)
      BY <1>3, <2>1
    <2> HIDE DEF h, e, notify
    <2>3. Inner'
      BY <1>4, <1>5, <2>1, <2>2, PlainSent
    <2> QED
      BY <1>6, <2>3 DEF IndInv, Inner
  <1>8. CASE w.fn = "notify"
    <2>0. PICK x \in Cores : x = w.target
      BY <1>2, <1>8
    <2>1. notify = _reactor_set_notify_cpuset(c, x)
      BY <1>8, <2>0
    <2>2. Step({h}) /\ spdk_event_call(notify, d, e)
      BY <1>3
    <2>3. \A y \in Cores : y # x => {<<d, e>>} \cap Changing(y) = {}
      BY <1>8, <2>0, AboutOne
    <2>4. /\ events' = [events EXCEPT ![d] = Append(@, e)] /\ events' \in [Cores -> Seq(Event)]
          /\ Change(Lines, Lines', {h}, {<<d, e>>})
      <3>1. events' = [events EXCEPT ![d] = Append(@, e)]
        BY <2>2 DEF spdk_event_call
      <3> HIDE DEF h, e
      <3> QED
        BY <1>4, <2>2, <3>1 DEF Step
    <2>5. ModeOK(x)' /\ (in_interrupt[x] => new_in_interrupt[x])
      BY <1>1, <1>3, <1>8, <2>0, <2>1, <2>4, WalkMode
    <2> HIDE DEF h, e, notify
    <2>6. /\ notify_cpuset' \in [Cores -> SUBSET Cores]
          /\ \A y \in Cores : y # x =>
               \A k \in Cores : y \in notify_cpuset'[k] <=> y \in notify_cpuset[k]
          /\ \A y \in Cores : y # x => (y \in notify <=> y \in notify_cpuset[c])
          /\ new_in_interrupt[x] => x \in notify
      BY <1>1, <2>1 DEF IndInv, ModeT, _reactor_set_notify_cpuset
    <2>7. ModesOK'
      <3> SUFFICES ASSUME NEW y \in Cores, y # x PROVE ModeOK(y)'
        BY <2>5 DEF ModesOK
      <3>1. ModeOK(y) /\ {<<d, e>>} \cap Changing(y) = {}
        BY <2>3 DEF IndInv, ModesOK
      <3>2. \A k \in Cores : y \in notify_cpuset'[k] <=> y \in notify_cpuset[k]
        BY <2>6
      <3> QED
        BY <1>1, <2>4, <3>1, <3>2, ModeKept
    <2>8. FdOK' /\ events_fd' \in [Cores -> BOOLEAN]
      <3>1. in_interrupt[d] => d \in notify
        <4>1. CASE d = x
          BY <2>5, <2>6, <4>1
        <4>2. CASE d # x
          BY <2>6, <4>2, SleepersNotified DEF IndInv
        <4> QED
          BY <4>1, <4>2
      <3>2. FdOK /\ RingT /\ ModeT /\ \A k \in Cores : in_interrupt'[k] => in_interrupt[k]
        BY <1>1 DEF IndInv
      <3> QED
        BY <1>4, <2>2, <3>1, <3>2, SendWakes
    <2>9. PlacesOK'
      <3>1. PlacesOK /\ UNCHANGED <<home, life, lcore>>
        BY <1>1 DEF IndInv, lw
      <3> QED
        BY <1>5, <2>4, <3>1, PlacesKept
    <2>10. LoopT' /\ LoopOK'
      BY <1>1, <2>2, StepLoop DEF lw
    <2>11. RingT' /\ ModeT'
      BY <1>1, <2>4, <2>6, <2>8 DEF IndInv, RingT, ModeT
    <2> QED
      BY <1>6, <2>7, <2>8, <2>9, <2>10, <2>11 DEF IndInv
  <1> QED
    BY <1>2, <1>7, <1>8

(* The reactors are told to stop. *)
LEMMA StopsInd ==
  ASSUME IndInv, NEW c \in Cores, NEW gone, Step(gone), \A t \in Threads : gone \cap Coming(t) = {},
         _reactors_stop(c)
  PROVE  IndInv'
  <1>1. /\ state' = "exiting"
        /\ events_fd' = [d \in Cores |-> events_fd[d] \/ d \in notify_cpuset[c]]
        /\ UNCHANGED <<mode, events, resched_fd, lw, round, stopping>>
    BY DEF _reactors_stop
  <1>2. LwT' /\ RingT' /\ RoundT' /\ StopT'
    BY <1>1 DEF IndInv, LwT, RingT, RoundT, StopT, lw, round
  <1>3. Inner'
    BY <1>1, <1>2, NothingSent DEF IndInv, RingT, lw
  <1> QED
    BY <1>2, <1>3 DEF IndInv, Inner

(* The walk is over: x is told, or is done if it polls. *)
LEMMA NotifyCplInd ==
  ASSUME IndInv, NEW c \in Cores, NEW w \in Walk, w.fn = "notify",
         Step({<<c, [fn |-> "end_reactor", walk |-> w]>>}), _reactor_set_notify_cpuset_cpl(c, w.target)
  PROVE  IndInv'
  <1> DEFINE h == <<c, [fn |-> "end_reactor", walk |-> w]>>
  <1>1. PICK x \in Cores : x = w.target
    BY WalkIs
  <1>2. h \in Told(x) /\ h \in Changing(x) /\ \A t \in Threads : {h} \cap Coming(t) = {}
    BY <1>1, AboutOne
  <1> HIDE DEF h
  <1>3. Step({h}) /\ _reactor_set_notify_cpuset_cpl(c, x)
    BY <1>1 DEF h
  <1>4. UNCHANGED <<in_interrupt, new_in_interrupt, notify_cpuset, resched_fd, lw, round, stop>>
    BY <1>3 DEF _reactor_set_notify_cpuset_cpl
  <1>5. RoundT' /\ StopT' /\ LwT' /\ LoopT' /\ LoopOK'
    BY <1>3, <1>4, StepLoop DEF IndInv, RoundT, StopT, LwT, round, stop, lw
  <1>6. ModeOK(x) /\ PlacesOK /\ FdOK /\ RingT /\ ModeT
    BY DEF IndInv, ModesOK
  <1>7. PICK d \in Cores, e \in Event :
          /\ spdk_event_call(notify_cpuset[c], d, e) /\ e.fn # "schedule_thread"
          /\ \A y \in Cores : y # x => {<<d, e>>} \cap Changing(y) = {}
          /\ \A y \in Cores : y # x => in_progress'[y] = in_progress[y]
          /\ in_progress' \in [Cores -> BOOLEAN]
          /\ \/ d = x /\ e.fn = "set_interrupt_mode" /\ new_in_interrupt[x] /\ UNCHANGED in_progress
             \/ {<<d, e>>} \cap Changing(x) = {}
    <2>1. CASE new_in_interrupt[x]
      <3> DEFINE e == [fn |-> "set_interrupt_mode"]
      <3>1. e \in Event /\ e.fn = "set_interrupt_mode"
        BY PlainIs
      <3>2. spdk_event_call(notify_cpuset[c], x, e) /\ UNCHANGED in_progress
        BY <1>3, <2>1 DEF _reactor_set_notify_cpuset_cpl
      <3> HIDE DEF e
      <3>3. \A y \in Cores : y # x => {<<x, e>>} \cap Changing(y) = {}
        BY <3>1, SetsOne
      <3>4. in_progress' \in [Cores -> BOOLEAN]
        BY <1>6, <3>2 DEF ModeT
      <3> QED
        BY <2>1, <3>1, <3>2, <3>3, <3>4
    <2>2. CASE ~new_in_interrupt[x]
      <3> DEFINE e == [fn |-> "update_core_mode"]
      <3>1. e \in Event /\ e.fn = "update_core_mode" /\ Main \in Cores
        BY PlainIs, NCoresAssumption DEF Main, Cores
      <3>2. /\ spdk_event_call(notify_cpuset[c], Main, e)
            /\ in_progress' = [in_progress EXCEPT ![x] = FALSE]
        BY <1>3, <2>2 DEF _reactor_set_notify_cpuset_cpl
      <3> HIDE DEF e
      <3>3. \A y \in Cores : {<<Main, e>>} \cap Changing(y) = {}
        BY <3>1, OtherEvents
      <3>4. /\ in_progress' \in [Cores -> BOOLEAN]
            /\ \A y \in Cores : y # x => in_progress'[y] = in_progress[y]
        BY <1>6, <3>2 DEF ModeT
      <3> QED
        BY <3>1, <3>2, <3>3, <3>4
    <2> QED
      BY <2>1, <2>2
  <1>8. FdOK' /\ events_fd' \in [Cores -> BOOLEAN] /\ events' = [events EXCEPT ![d] = Append(@, e)]
    <2>1. in_interrupt[d] => d \in notify_cpuset[c]
      BY SleepersNotified DEF IndInv
    <2>2. \A k \in Cores : in_interrupt'[k] => in_interrupt[k]
      BY <1>4
    <2>3. spdk_event_call(notify_cpuset[c], d, e)
      BY <1>7
    <2> QED
      BY <1>6, <2>1, <2>2, <2>3, SendWakes
  <1>9. events' \in [Cores -> Seq(Event)] /\ Change(Lines, Lines', {h}, {<<d, e>>})
    BY <1>3, <1>8 DEF Step
  <1>10. PlacesOK'
    <2>1. \A t \in Threads : {<<d, e>>} \cap Coming(t) = {}
      BY <1>7, OtherEvents
    <2>2. UNCHANGED <<home, life, lcore>>
      BY <1>4 DEF lw
    <2> QED
      BY <1>2, <1>6, <1>9, <2>1, <2>2, PlacesKept
  <1>11. ModeOK(x)'
    <2>1. CASE {<<d, e>>} \cap Changing(x) = {}
      <3>1. {h} \cap Changing(x) # {}
        BY <1>2
      <3> QED
        BY <1>4, <1>6, <1>9, <2>1, <3>1, ModeKept
    <2>2. CASE d = x /\ e.fn = "set_interrupt_mode" /\ new_in_interrupt[x] /\ UNCHANGED in_progress
      <3>1. /\ Walking(x) \in SUBSET Changing(x) /\ Told(x) \in SUBSET Changing(x)
            /\ \A k : Visiting(x, k) \in SUBSET Changing(x)
        BY Parts
      <3>2. \A k : {<<d, e>>} \cap Visiting(x, k) = {}
        BY <2>2, SetsOne
      <3>3. {h} \cap Changing(x) # {} /\ {h} \cap Told(x) # {}
        BY <1>2
      <3>4. /\ Has(Lines, Changing(x)) /\ Has(Lines, Told(x)) /\ AtMostOne(Lines', Changing(x))
            /\ \A k \in Cores : Has(Lines', Visiting(x, k)) => Has(Lines, Visiting(x, k))
        BY <1>6, <1>9, <3>1, <3>2, <3>3, Follows
      <3>5. Known(x)' /\ Known(x)
        BY <1>4, <1>6, <2>2, <3>4 DEF ModeOK, Known
      <3> QED
        BY <1>4, <1>6, <2>2, <3>4, <3>5 DEF ModeOK
    <2> QED
      BY <1>7, <2>1, <2>2
  <1>12. ModesOK'
    <2> SUFFICES ASSUME NEW y \in Cores, y # x PROVE ModeOK(y)'
      BY <1>11 DEF ModesOK
    <2>1. ModeOK(y) /\ {<<d, e>>} \cap Changing(y) = {} /\ in_progress'[y] = in_progress[y]
      BY <1>7 DEF IndInv, ModesOK
    <2> QED
      BY <1>4, <1>9, <2>1, ModeKept
  <1>13. RingT' /\ ModeT'
    BY <1>4, <1>7, <1>8, <1>9 DEF IndInv, RingT, ModeT
  <1> QED
    BY <1>5, <1>8, <1>10, <1>12, <1>13 DEF IndInv

(* end_reactor: the walk is over. *)
LEMMA EndReactorInd ==
  ASSUME IndInv, NEW c \in Cores, NEW w \in Walk,
         Step({<<c, [fn |-> "end_reactor", walk |-> w]>>}), end_reactor(c, w)
  PROVE  IndInv'
  <1>1. CASE w.fn = "nop" /\ _reactors_stop(c)
    <2> DEFINE e == [fn |-> "end_reactor", walk |-> w]
    <2>1. e.fn = "end_reactor"
      OBVIOUS
    <2> HIDE DEF e
    <2>2. \A t \in Threads : {<<c, e>>} \cap Coming(t) = {}
      BY <2>1, OtherEvents
    <2>3. Step({<<c, e>>})
      BY DEF e
    <2> QED
      BY <1>1, <2>2, <2>3, StopsInd
  <1>2. CASE w.fn = "notify" /\ _reactor_set_notify_cpuset_cpl(c, w.target)
    BY <1>2, NotifyCplInd
  <1> QED
    BY <1>1, <1>2 DEF end_reactor

(* x changes its mode: it goes to sleep, or lets all know that it polls. *)
LEMMA SetModeInd ==
  ASSUME IndInv, NEW c \in Cores, NEW h \in Event, h.fn = "set_interrupt_mode",
         Step({<<c, h>>}), _reactor_set_interrupt_mode(c)
  PROVE  IndInv'
  <1>1. /\ in_interrupt' = [in_interrupt EXCEPT ![c] = new_in_interrupt[c]]
        /\ UNCHANGED <<new_in_interrupt, notify_cpuset, lw, round, state>>
    BY DEF _reactor_set_interrupt_mode
  <1>2. /\ <<c, h>> \in Told(c) /\ <<c, h>> \in Changing(c)
        /\ \A t \in Threads : {<<c, h>>} \cap Coming(t) = {}
    BY SetsOne
  <1>3. RoundT' /\ LwT' /\ LoopT' /\ LoopOK'
    BY <1>1, StepLoop DEF IndInv, RoundT, LwT, round, lw
  <1>4. ModeOK(c) /\ PlacesOK /\ FdOK /\ RingT /\ ModeT /\ UNCHANGED <<home, life, lcore>> /\ Main \in Cores
    BY <1>1, NCoresAssumption DEF IndInv, ModesOK, lw, Main, Cores
  <1>5. /\ Walking(c) \in SUBSET Changing(c) /\ Told(c) \in SUBSET Changing(c)
        /\ \A k : Visiting(c, k) \in SUBSET Changing(c)
    BY Parts
  <1>6. /\ in_interrupt' \in [Cores -> BOOLEAN] /\ in_interrupt'[c] = new_in_interrupt[c]
        /\ \A k \in Cores : k # c => in_interrupt'[k] = in_interrupt[k]
    BY <1>1, <1>4 DEF ModeT
  <1>7. ASSUME NEW come, Change(Lines, Lines', {<<c, h>>}, come),
               \A y \in Cores : y # c => come \cap Changing(y) = {},
               \A y \in Cores : y # c => in_progress'[y] = in_progress[y], ModeOK(c)'
        PROVE  ModesOK'
    <2> SUFFICES ASSUME NEW y \in Cores, y # c PROVE ModeOK(y)'
      BY <1>7 DEF ModesOK
    <2>1. ModeOK(y) /\ come \cap Changing(y) = {} /\ in_progress'[y] = in_progress[y]
      BY <1>7 DEF IndInv, ModesOK
    <2>2. Change(Lines, Lines', {<<c, h>>}, come)
      BY <1>7
    <2> QED
      BY <1>1, <1>6, <2>1, <2>2, ModeKept
  <1>8. CASE new_in_interrupt[c]
    <2> DEFINE e == [fn |-> "update_core_mode"]
    <2>1. e \in Event /\ e.fn = "update_core_mode"
      BY PlainIs
    <2>2. /\ events' = [events EXCEPT ![Main] = Append(@, e)]
          /\ events_fd' = [d \in Cores |-> events_fd[d] \/ d \in {c} \cup ({Main} \cap notify_cpuset[c])]
          /\ resched_fd' = [resched_fd EXCEPT ![c] = TRUE]
          /\ in_progress' = [in_progress EXCEPT ![c] = FALSE]
          /\ UNCHANGED stopping
      BY <1>8 DEF _reactor_set_interrupt_mode
    <2> HIDE DEF e
    <2>3. events' \in [Cores -> Seq(Event)] /\ Change(Lines, Lines', {<<c, h>>}, {<<Main, e>>})
      BY <1>4, <2>1, <2>2 DEF Step
    <2>4. /\ \A y \in Cores : {<<Main, e>>} \cap Changing(y) = {}
          /\ \A t \in Threads : {<<Main, e>>} \cap Coming(t) = {}
      BY <2>1, OtherEvents
    <2>5. PlacesOK'
      BY <1>2, <1>4, <2>3, <2>4, PlacesKept
    <2>6. /\ Has(Lines, Told(c)) /\ AtMostOne(Lines', Changing(c)) /\ ~Has(Lines', Changing(c))
      <3>1. {<<c, h>>} \cap Told(c) # {} /\ {<<c, h>>} \cap Changing(c) # {}
        BY <1>2
      <3>2. AtMostOne(Lines, Changing(c)) /\ Changing(c) \in SUBSET (Cores \X Event)
        BY <1>4, Parts DEF ModeOK
      <3>3. Has(Lines, Told(c)) /\ AtMostOne(Lines', Changing(c))
        BY <1>4, <1>5, <2>3, <3>1, Follows
      <3>4. {<<Main, e>>} \cap Changing(c) = {}
        BY <2>4
      <3> QED
        BY <2>3, <3>1, <3>2, <3>3, <3>4, NoneCome
    <2>7. ModeOK(c)'
      <3>1. Known(c)'
        BY <1>1, <1>4, <1>8, <2>6 DEF ModeOK, Known
      <3>2. ~Has(Lines', Walking(c)) /\ ~Has(Lines', Told(c)) /\ \A k \in Cores : ~Has(Lines', Visiting(c, k))
        BY <1>5, <2>6, PartOnce
      <3> QED
        BY <2>6, <3>1, <3>2 DEF ModeOK
    <2>8. /\ in_progress' \in [Cores -> BOOLEAN]
          /\ \A y \in Cores : y # c => in_progress'[y] = in_progress[y]
      BY <1>4, <2>2 DEF ModeT
    <2>9. ModesOK'
      BY <1>7, <2>3, <2>4, <2>7, <2>8
    <2>10. RingT'
      BY <1>4, <2>2, <2>3 DEF RingT
    <2>11. FdOK'
      <3> SUFFICES ASSUME NEW k \in Cores, in_interrupt'[k], events'[k] # <<>> PROVE events_fd'[k]
        BY DEF FdOK
      <3>1. CASE k = c
        BY <2>2, <3>1
      <3>2. CASE k # c /\ k = Main
        <4>1. k \in notify_cpuset[c]
          BY <1>6, <3>2, SleepersNotified DEF IndInv
        <4> QED
          BY <2>2, <3>2, <4>1
      <3>3. CASE k # c /\ k # Main
        <4>1. in_interrupt[k] /\ events[k] # <<>>
          BY <1>4, <1>6, <2>2, <3>3 DEF RingT
        <4> QED
          BY <1>4, <2>2, <4>1 DEF FdOK
      <3> QED
        BY <3>1, <3>2, <3>3
    <2> QED
      BY <1>1, <1>3, <1>4, <1>6, <2>2, <2>5, <2>8, <2>9, <2>10, <2>11 DEF IndInv, ModeT, StopT
  <1>9. CASE ~new_in_interrupt[c]
    <2> DEFINE w == [fn |-> "notify", target |-> c, orig_core |-> c]
               e == [fn |-> "on_reactor", walk |-> w]
    <2>1. w \in Walk /\ w.fn = "notify" /\ w.target = c
      BY DEF Walk
    <2>2. spdk_for_each_reactor(c, w) /\ UNCHANGED <<resched_fd, in_progress>>
      BY <1>9 DEF _reactor_set_interrupt_mode
    <2> HIDE DEF w
    <2>3. e \in Event /\ e.fn = "on_reactor"
      BY <2>1, WalkIs
    <2>4. /\ \A y \in Cores : y # c => {<<Main, e>>} \cap Changing(y) = {}
          /\ \A t \in Threads : {<<Main, e>>} \cap Coming(t) = {}
      BY <1>4, <2>1, AboutOne
    <2>5. PICK come \in {{}, {<<Main, e>>}} :
            /\ Change(Lines, Lines', {<<c, h>>}, come) /\ FdOK' /\ RingT' /\ StopT'
      <3>1. CASE stopping
        <4>1. UNCHANGED <<ring, stopping>>
          BY <2>2, <3>1 DEF spdk_for_each_reactor
        <4>2. Change(Lines, Lines', {<<c, h>>}, {})
          BY <4>1 DEF Step, ring
        <4>3. FdOK' /\ RingT' /\ StopT'
          BY <1>1, <1>4, <1>6, <1>9, <2>2, <4>1 DEF FdOK, RingT, StopT, IndInv, ring
        <4> QED
          BY <4>2, <4>3
      <3>2. CASE ~stopping
        <4>1. stopping' = FALSE /\ spdk_event_call(notify_cpuset[c], Main, e)
          BY <2>1, <2>2, <3>2 DEF spdk_for_each_reactor
        <4> HIDE DEF e
        <4>2. /\ in_interrupt[Main] => Main \in notify_cpuset[c]
              /\ \A k \in Cores : in_interrupt'[k] => in_interrupt[k]
          BY <1>4, <1>6, <1>9, SleepersNotified DEF IndInv
        <4>3. FdOK' /\ events_fd' \in [Cores -> BOOLEAN] /\ events' = [events EXCEPT ![Main] = Append(@, e)]
          <5>1. FdOK /\ RingT /\ ModeT /\ Main \in Cores /\ e \in Event
            BY <1>4, <2>3
          <5>2. spdk_event_call(notify_cpuset[c], Main, e)
            BY <4>1
          <5> QED
            BY <4>2, <5>1, <5>2, SendWakes
        <4>4. events' \in [Cores -> Seq(Event)] /\ Change(Lines, Lines', {<<c, h>>}, {<<Main, e>>})
          BY <1>4, <2>3, <4>3 DEF Step
        <4>5. RingT' /\ StopT'
          BY <1>1, <1>4, <2>2, <4>1, <4>3, <4>4 DEF RingT, StopT, IndInv
        <4> QED
          BY <4>3, <4>4, <4>5
      <3> QED
        BY <3>1, <3>2
    <2> HIDE DEF e
    <2>6. PlacesOK'
      <3>1. \A t \in Threads : come \cap Coming(t) = {}
        BY <2>4
      <3>2. Change(Lines, Lines', {<<c, h>>}, come)
        BY <2>5
      <3> QED
        BY <1>2, <1>4, <3>1, <3>2, PlacesKept
    <2>7. ModeOK(c)'
      <3>1. {<<c, h>>} \cap Changing(c) # {}
        BY <1>2
      <3>2. Has(Lines, Changing(c)) /\ AtMostOne(Lines', Changing(c))
        BY <1>4, <2>5, <3>1, Follows
      <3>3. in_progress'[c]
        BY <1>4, <2>2, <3>2 DEF ModeOK
      <3> QED
        BY <1>1, <1>6, <1>9, <3>2, <3>3 DEF ModeOK
    <2>8. ModesOK'
      <3>1. \A y \in Cores : y # c => come \cap Changing(y) = {}
        BY <2>4
      <3> QED
        BY <1>7, <2>2, <2>5, <2>7, <3>1
    <2>9. ModeT'
      BY <1>1, <1>4, <1>6, <2>2 DEF ModeT
    <2> QED
      BY <1>3, <2>5, <2>6, <2>8, <2>9 DEF IndInv
  <1> QED
    BY <1>8, <1>9

-----------------------------------------------------------------------------
(* The scheduling round. *)

(* There is a scheduling reactor, and a last one. *)
LEMMA MainCore == Main \in Cores /\ NCores \in Nat /\ NCores \in Cores
  BY NCoresAssumption DEF Main, Cores

(* What a reactor has gathered, and nothing. *)
LEMMA InfosAre ==
  ASSUME NEW S \in SUBSET Threads, NEW f \in [S -> Cores]
  PROVE  f \in Infos
  BY DEF Infos

(* The infos of a reactor that has gathered none. *)
LEMMA NoInfos == << >> \in Infos
  <1>1. << >> \in [{} -> Cores]
    OBVIOUS
  <1> QED
    BY <1>1, InfosAre

(* Infos are of threads, and say which cores they are on. *)
LEMMA InfosOf ==
  ASSUME NEW f \in Infos
  PROVE  DOMAIN f \in SUBSET Threads /\ f \in [DOMAIN f -> Cores]
  BY DEF Infos

(* A reactor gathers its threads and hands over to the next. *)
LEMMA GatherInd ==
  ASSUME IndInv, NEW c \in Cores, NEW gone, Step(gone), \A t \in Threads : gone \cap Coming(t) = {},
         _reactors_scheduler_gather_metrics(c), in_round' \in BOOLEAN
  PROVE  IndInv'
  <1>1. /\ infos' = [infos EXCEPT ![c] = [t \in on(c) |-> lcore[t]]]
        /\ modes' = [modes EXCEPT ![c] = in_interrupt[c]]
        /\ UNCHANGED <<mode, resched_fd, lw, core_number, stop>>
    BY DEF _reactors_scheduler_gather_metrics
  <1>2. PICK d \in Cores, e \in Event : Plain(e) /\ spdk_event_call(notify_cpuset[c], d, e)
    <2>1. CASE c = NCores
      BY <2>1, MainCore, PlainIs DEF _reactors_scheduler_gather_metrics
    <2>2. CASE c # NCores
      <3>1. c + 1 \in Cores
        BY <2>2, NCoresAssumption DEF Cores
      <3> QED
        BY <2>2, <3>1, PlainIs DEF _reactors_scheduler_gather_metrics
    <2> QED
      BY <2>1, <2>2
  <1>3. Inner'
    BY <1>1, <1>2, PlainSent
  <1>4. [t \in on(c) |-> lcore[t]] \in Infos
    <2>1. on(c) \in SUBSET Threads /\ \A t \in on(c) : lcore[t] \in Cores
      BY NCoresAssumption DEF on, IndInv, PlacesOK, PlaceOK
    <2>2. [t \in on(c) |-> lcore[t]] \in [on(c) -> Cores]
      BY <2>1
    <2> QED
      BY <2>1, <2>2, InfosAre
  <1>5. RoundT' /\ StopT'
    BY <1>1, <1>4 DEF IndInv, RoundT, StopT, ModeT, stop
  <1> QED
    BY <1>3, <1>5 DEF IndInv, Inner

(* It has no memory for that, and the round is cancelled. *)
LEMMA GatherFailsInd ==
  ASSUME IndInv, NEW c \in Cores, NEW gone, Step(gone), \A t \in Threads : gone \cap Coming(t) = {},
         GatherFails(c)
  PROVE  IndInv'
  <1>1. /\ modes' = [modes EXCEPT ![c] = in_interrupt[c]] /\ infos' = [infos EXCEPT ![c] = << >>]
        /\ spdk_event_call(notify_cpuset[c], Main, [fn |-> "cancel"])
        /\ UNCHANGED <<mode, resched_fd, lw, in_round, core_number, stop>>
    BY DEF GatherFails
  <1>2. [fn |-> "cancel"] \in Event /\ Plain([fn |-> "cancel"])
    BY PlainIs
  <1>3. Inner'
    BY <1>1, <1>2, MainCore, PlainSent
  <1>4. RoundT' /\ StopT'
    BY <1>1, NoInfos DEF IndInv, RoundT, StopT, ModeT, stop
  <1> QED
    BY <1>3, <1>4 DEF IndInv, Inner

(* The round is cancelled. *)
LEMMA CancelInd ==
  ASSUME IndInv, NEW gone, Step(gone), \A t \in Threads : gone \cap Coming(t) = {},
         _reactors_scheduler_cancel
  PROVE  IndInv'
  <1>1. /\ infos' = [c \in Cores |-> << >>] /\ modes' = [c \in Cores |-> FALSE] /\ in_round' = FALSE
        /\ UNCHANGED <<mode, ring, resched_fd, lw, core_number, stop>>
    BY DEF _reactors_scheduler_cancel
  <1>2. LwT' /\ RingT' /\ RoundT' /\ StopT'
    BY <1>1, NoInfos DEF IndInv, LwT, RingT, RoundT, StopT, lw, ring, stop
  <1>3. Inner'
    BY <1>1, <1>2, NothingSent DEF lw, ring
  <1> QED
    BY <1>2, <1>3 DEF IndInv, Inner

(* A thread is marked for a core that the scheduler has chosen. *)
LEMMA RescheduleLw ==
  ASSUME LwT, NEW decided \in [Cores -> Infos], _threads_reschedule(decided), UNCHANGED <<home, life>>
  PROVE  /\ LwT' /\ infos' \in [Cores -> Infos]
         /\ \A t \in Threads : lcore'[t] = lcore[t] \/ lcore'[t] \in Cores
  <1> DEFINE froms(t) == {c \in Cores : t \in DOMAIN decided[c] /\ decided[c][t] # c}
             moved == {t \in Threads : froms(t) # {} /\ life[t] = "running"}
  <1>1. /\ lcore' = [t \in Threads |-> IF t \in moved THEN decided[Max(froms(t))][t] ELSE lcore[t]]
        /\ resched' = [t \in Threads |-> resched[t] \/ t \in moved]
        /\ infos' = [c \in Cores |-> << >>]
    BY DEF _threads_reschedule
  <1>2. ASSUME NEW t \in Threads, t \in moved
        PROVE  decided[Max(froms(t))][t] \in Cores
    <2>1. froms(t) \in SUBSET Cores /\ froms(t) # {}
      BY <1>2
    <2>2. PICK m \in Cores : m = Max(froms(t)) /\ m \in froms(t)
      <3> HIDE DEF froms
      <3> QED
        BY <2>1, MaxIsIn
    <2>3. t \in DOMAIN decided[m] /\ decided[m] \in Infos
      BY <2>2
    <2> HIDE DEF froms, moved
    <2> QED
      BY <2>2, <2>3, InfosOf
  <1> HIDE DEF froms, moved
  <1>3. \A t \in Threads : lcore'[t] = lcore[t] \/ lcore'[t] \in Cores
    BY <1>1, <1>2
  <1>4. lcore' \in [Threads -> Cores \cup {AnyCore}]
    BY <1>1, <1>2 DEF LwT
  <1> QED
    BY <1>1, <1>3, <1>4, NoInfos DEF LwT

(* A mode that was not being changed is to change: the event for it is the first, and is
   for the reactor itself only when that is to wake up. *)
LEMMA ModeAsked ==
  ASSUME NEW x \in Cores, ModeOK(x), ~in_progress[x],
         NEW gone, NEW come, Change(Lines, Lines', gone, come),
         in_progress'[x], in_interrupt'[x] = in_interrupt[x], UNCHANGED notify_cpuset,
         come \cap Walking(x) # {} => new_in_interrupt'[x],
         come \cap Told(x) # {} => ~new_in_interrupt'[x],
         \A d \in Cores : d # Main => come \cap Visiting(x, d) = {}
  PROVE  ModeOK(x)'
  <1>1. ~Has(Lines, Changing(x)) /\ AtMostOne(Lines, Changing(x))
    BY DEF ModeOK
  <1>2. Changing(x) \in SUBSET (Cores \X Event)
    BY Parts
  <1>3. AtMostOne(Lines', Changing(x))
    BY <1>1, <1>2 DEF Change
  <1>4. ASSUME NEW T \in SUBSET Changing(x), Has(Lines', T)
        PROVE  come \cap T # {}
    <2>1. ~Has(Lines, T)
      BY <1>1, PartOnce
    <2> QED
      BY <1>4, <2>1, Follows
  <1>5. /\ Has(Lines', Walking(x)) => come \cap Walking(x) # {}
        /\ Has(Lines', Told(x)) => come \cap Told(x) # {}
        /\ \A d \in Cores : Has(Lines', Visiting(x, d)) => come \cap Visiting(x, d) # {}
    BY <1>4, Parts
  <1>6. \A c \in Cores : ~(c < Main)
    BY NCoresAssumption DEF Cores, Main
  <1>7. \A d \in Cores : Has(Lines', Visiting(x, d)) => \A c \in Cores : ~(c < d)
    BY <1>5, <1>6
  <1>8. in_interrupt'[x] => Known(x)'
    BY DEF ModeOK, Known
  <1> QED
    BY <1>3, <1>5, <1>7, <1>8 DEF ModeOK

(* The next mode is changed, or the round is over and threads are marked. *)
LEMMA UpdateCoreModeInd ==
  ASSUME IndInv, NEW gone, Step(gone), \A t \in Threads : gone \cap Coming(t) = {},
         NEW decided \in [Cores -> Infos], NEW wanted \in [Cores -> BOOLEAN],
         NEW from \in Cores \cup {NCores + 1}, UpdateCoreMode(decided, wanted, from),
         UNCHANGED resched_fd
  PROVE  IndInv'
  <1> DEFINE changes == {c \in from .. NCores : in_interrupt[c] # wanted[c] /\ ~in_progress[c]}
  <1>1. CASE changes = {}
    <2>1. /\ _threads_reschedule(decided) /\ in_round' = FALSE
          /\ core_number' = Main /\ modes' = [c \in Cores |-> FALSE]
          /\ UNCHANGED <<mode, ring, home, life, stop>>
      BY <1>1 DEF UpdateCoreMode
    <2>2. /\ LwT' /\ infos' \in [Cores -> Infos]
          /\ \A t \in Threads : lcore'[t] = lcore[t] \/ lcore'[t] \in Cores
      BY <2>1, RescheduleLw DEF IndInv
    <2>3. RingT' /\ RoundT' /\ StopT'
      BY <2>1, <2>2, MainCore DEF IndInv, RingT, RoundT, StopT, ring, stop
    <2>4. Inner'
      BY <2>1, <2>2, <2>3, NothingSent DEF ring
    <2> QED
      BY <2>3, <2>4 DEF IndInv, Inner
  <1>2. CASE changes # {}
    <2>1. changes \in SUBSET Cores
      BY NCoresAssumption DEF Cores
    <2>2. PICK x \in changes : x = Min(changes)
      <3> HIDE DEF changes
      <3> QED
        BY <1>2, <2>1, MinIsIn
    <2>3. x \in Cores /\ ~in_progress[x] /\ x + 1 \in Cores \cup {NCores + 1}
      BY <2>1, <2>2, NCoresAssumption DEF Cores
    <2>4. /\ core_number' = x + 1
          /\ in_progress' = [in_progress EXCEPT ![x] = TRUE]
          /\ new_in_interrupt' = [new_in_interrupt EXCEPT ![x] = wanted[x]]
          /\ infos' = decided /\ modes' = wanted
          /\ UNCHANGED <<in_interrupt, notify_cpuset, lw, in_round, state>>
      BY <1>2, <2>2 DEF UpdateCoreMode
    <2>5. /\ wanted[x] => spdk_for_each_reactor(Main, [fn |-> "notify", target |-> x, orig_core |-> Main])
          /\ ~wanted[x] => /\ spdk_event_call(notify_cpuset[Main], x, [fn |-> "set_interrupt_mode"])
                           /\ UNCHANGED stopping
      BY <1>2, <2>2 DEF UpdateCoreMode
    <2>6. /\ in_progress' \in [Cores -> BOOLEAN] /\ new_in_interrupt' \in [Cores -> BOOLEAN]
          /\ in_progress'[x] /\ new_in_interrupt'[x] = wanted[x]
          /\ \A y \in Cores : y # x => /\ in_progress'[y] = in_progress[y]
                                      /\ new_in_interrupt'[y] = new_in_interrupt[y]
      BY <2>3, <2>4 DEF IndInv, ModeT
    <2> HIDE DEF changes
    <2>7. ModesOK /\ PlacesOK /\ FdOK /\ RingT /\ ModeT
      BY DEF IndInv
    <2>8. ASSUME NEW d \in Cores, NEW e \in Event, spdk_event_call(notify_cpuset[Main], d, e)
          PROVE  FdOK' /\ RingT' /\ Change(Lines, Lines', gone, {<<d, e>>})
      <3>1. in_interrupt[d] => d \in notify_cpuset[Main]
        BY <2>7, MainCore, SleepersNotified
      <3>2. \A k \in Cores : in_interrupt'[k] => in_interrupt[k]
        BY <2>4
      <3>3. /\ FdOK' /\ events_fd' \in [Cores -> BOOLEAN]
            /\ events' = [events EXCEPT ![d] = Append(@, e)]
        BY <2>7, <2>8, <3>1, <3>2, SendWakes
      <3>4. events' \in [Cores -> Seq(Event)] /\ Change(Lines, Lines', gone, {<<d, e>>})
        BY <3>3 DEF Step
      <3> QED
        BY <2>7, <3>3, <3>4 DEF RingT
    <2>9. \E come :
            /\ Change(Lines, Lines', gone, come) /\ FdOK' /\ RingT' /\ StopT'
            /\ \A y \in Cores : y # x => come \cap Changing(y) = {}
            /\ \A t \in Threads : come \cap Coming(t) = {}
            /\ come \cap Walking(x) # {} => new_in_interrupt'[x]
            /\ come \cap Told(x) # {} => ~new_in_interrupt'[x]
            /\ \A d \in Cores : d # Main => come \cap Visiting(x, d) = {}
      <3>1. CASE wanted[x] /\ stopping
        <4>1. UNCHANGED <<ring, stopping>>
          BY <2>5, <3>1 DEF spdk_for_each_reactor
        <4>2. FdOK' /\ RingT' /\ StopT'
          BY <2>4, <2>7, <4>1 DEF FdOK, RingT, StopT, IndInv, ring
        <4>3. Change(Lines, Lines', gone, {})
          BY <4>1 DEF Step, ring
        <4> WITNESS {}
        <4> QED
          BY <4>2, <4>3
      <3>2. CASE wanted[x] /\ ~stopping
        <4> DEFINE w == [fn |-> "notify", target |-> x, orig_core |-> Main]
                   e == [fn |-> "on_reactor", walk |-> w]
        <4>1. w \in Walk /\ w.fn = "notify" /\ w.target = x
          BY <2>3, MainCore DEF Walk
        <4>2. stopping' = FALSE /\ spdk_event_call(notify_cpuset[Main], Main, e)
          BY <2>5, <3>2 DEF spdk_for_each_reactor
        <4> HIDE DEF w
        <4>3. e \in Event
          BY <4>1, WalkIs
        <4>4. /\ \A y \in Cores : y # x => {<<Main, e>>} \cap Changing(y) = {}
              /\ \A t \in Threads : {<<Main, e>>} \cap Coming(t) = {}
              /\ <<Main, e>> \notin Told(x)
              /\ \A d \in Cores : d # Main => <<Main, e>> \notin Visiting(x, d)
          BY <4>1, MainCore, AboutOne
        <4> HIDE DEF e
        <4>5. FdOK' /\ RingT' /\ Change(Lines, Lines', gone, {<<Main, e>>})
          BY <2>8, <4>2, <4>3, MainCore
        <4>6. StopT'
          BY <2>4, <4>2 DEF StopT, IndInv
        <4> WITNESS {<<Main, e>>}
        <4> QED
          BY <2>6, <3>2, <4>4, <4>5, <4>6
      <3>3. CASE ~wanted[x]
        <4> DEFINE e == [fn |-> "set_interrupt_mode"]
        <4>1. e \in Event /\ e.fn = "set_interrupt_mode"
          BY PlainIs
        <4>2. UNCHANGED stopping /\ spdk_event_call(notify_cpuset[Main], x, e)
          BY <2>5, <3>3
        <4> HIDE DEF e
        <4>3. /\ \A y \in Cores : y # x => {<<x, e>>} \cap Changing(y) = {}
              /\ \A t \in Threads : {<<x, e>>} \cap Coming(t) = {}
              /\ <<x, e>> \notin Walking(x)
              /\ \A d \in Cores : <<x, e>> \notin Visiting(x, d)
          BY <2>3, <4>1, SetsOne
        <4>4. FdOK' /\ RingT' /\ Change(Lines, Lines', gone, {<<x, e>>})
          BY <2>3, <2>8, <4>1, <4>2
        <4>5. StopT'
          BY <2>4, <4>2 DEF StopT, IndInv
        <4> WITNESS {<<x, e>>}
        <4> QED
          BY <2>6, <3>3, <4>3, <4>4, <4>5
      <3> QED
        BY <3>1, <3>2, <3>3
    <2>10. PICK come :
            /\ Change(Lines, Lines', gone, come) /\ FdOK' /\ RingT' /\ StopT'
            /\ \A y \in Cores : y # x => come \cap Changing(y) = {}
            /\ \A t \in Threads : come \cap Coming(t) = {}
            /\ come \cap Walking(x) # {} => new_in_interrupt'[x]
            /\ come \cap Told(x) # {} => ~new_in_interrupt'[x]
            /\ \A d \in Cores : d # Main => come \cap Visiting(x, d) = {}
      BY <2>9
    <2>11. ModeOK(x)'
      <3>1. ModeOK(x) /\ in_interrupt'[x] = in_interrupt[x] /\ UNCHANGED notify_cpuset
        BY <2>3, <2>4, <2>7 DEF ModesOK
      <3> QED
        BY <2>3, <2>6, <2>10, <3>1, ModeAsked
    <2>12. ModesOK'
      <3> SUFFICES ASSUME NEW y \in Cores, y # x PROVE ModeOK(y)'
        BY <2>11 DEF ModesOK
      <3>1. ModeOK(y) /\ come \cap Changing(y) = {} /\ Change(Lines, Lines', gone, come)
        BY <2>7, <2>10 DEF ModesOK
      <3>2. /\ in_interrupt'[y] = in_interrupt[y] /\ new_in_interrupt'[y] = new_in_interrupt[y]
            /\ in_progress'[y] = in_progress[y] /\ UNCHANGED notify_cpuset
        BY <2>4, <2>6
      <3> QED
        BY <3>1, <3>2, ModeKept
    <2>13. PlacesOK'
      <3>1. UNCHANGED <<home, life, lcore>>
        BY <2>4 DEF lw
      <3>2. /\ Change(Lines, Lines', gone, come) /\ \A t \in Threads : come \cap Coming(t) = {}
        BY <2>10
      <3> QED
        BY <2>7, <3>1, <3>2, PlacesKept
    <2>14. LoopT' /\ LoopOK'
      BY <2>4, StepLoop DEF lw
    <2>15. ModeT' /\ LwT' /\ RoundT'
      BY <2>3, <2>4, <2>6 DEF IndInv, ModeT, LwT, RoundT, lw
    <2> QED
      BY <2>10, <2>12, <2>13, <2>14, <2>15 DEF IndInv
  <1> QED
    BY <1>1, <1>2

(* The scheduler has decided. *)
LEMMA BalanceInd ==
  ASSUME IndInv, NEW gone, Step(gone), \A t \in Threads : gone \cap Coming(t) = {},
         _reactors_scheduler_balance
  PROVE  IndInv'
  <1>1. CASE state # "running"
    BY <1>1, CancelInd DEF _reactors_scheduler_balance
  <1>2. CASE state = "running"
    <2> DEFINE entries == {e \in Cores \X Threads : e[2] \in DOMAIN infos[e[1]]}
               Decided(dst) == [c \in Cores |-> [t \in DOMAIN infos[c] |-> dst[<<c, t>>]]]
    <2>1. PICK dst \in [entries -> Cores], wanted \in [Cores -> BOOLEAN] :
            UpdateCoreMode(Decided(dst), wanted, Main) /\ UNCHANGED resched_fd
      <3> DEFINE At(i) == {e \in entries : infos[e[1]][e[2]] = i}
                 Count(dst, i) == Cardinality({e \in entries : e[1] = i})
                                  + Cardinality({e \in entries \ At(i) : dst[e] = i})
                                  - Cardinality({e \in At(i) : dst[e] # i})
                                  + (IF i = Main THEN 1 ELSE 0)
                 Wanted(dst) == [i \in Cores |-> interrupt_mode(Count(dst, i), i # Main /\ on(i) = {}, modes[i])]
      <3>1. PICK dst \in [entries -> Cores] :
              UpdateCoreMode(Decided(dst), Wanted(dst), Main) /\ UNCHANGED resched_fd
        BY <1>2, Zenon DEF _reactors_scheduler_balance
      <3>2. Wanted(dst) \in [Cores -> BOOLEAN]
        <4> HIDE DEF Count
        <4>1. modes \in [Cores -> BOOLEAN]
          BY DEF IndInv, RoundT
        <4> QED
          BY <4>1 DEF interrupt_mode
      <3> HIDE DEF Wanted, Decided, entries
      <3> QED
        BY <3>1, <3>2
    <2>2. Decided(dst) \in [Cores -> Infos]
      <3> SUFFICES ASSUME NEW c \in Cores PROVE [t \in DOMAIN infos[c] |-> dst[<<c, t>>]] \in Infos
        OBVIOUS
      <3>1. DOMAIN infos[c] \in SUBSET Threads
        BY InfosOf DEF IndInv, RoundT
      <3>2. \A t \in DOMAIN infos[c] : <<c, t>> \in entries
        BY <3>1
      <3>3. [t \in DOMAIN infos[c] |-> dst[<<c, t>>]] \in [DOMAIN infos[c] -> Cores]
        BY <3>2
      <3> QED
        BY <3>1, <3>3, InfosAre
    <2> HIDE DEF Decided, entries
    <2> QED
      BY <2>1, <2>2, MainCore, UpdateCoreModeInd
  <1> QED
    BY <1>1, <1>2

(* The change of one mode is over: on to the next. *)
LEMMA UpdateInd ==
  ASSUME IndInv, NEW gone, Step(gone), \A t \in Threads : gone \cap Coming(t) = {},
         _reactors_scheduler_update_core_mode
  PROVE  IndInv'
  <1>1. infos \in [Cores -> Infos] /\ modes \in [Cores -> BOOLEAN] /\ core_number \in Cores \cup {NCores + 1}
    BY DEF IndInv, RoundT
  <1>2. UpdateCoreMode(infos, modes, core_number) /\ UNCHANGED resched_fd
    BY DEF _reactors_scheduler_update_core_mode
  <1> QED
    BY <1>1, <1>2, UpdateCoreModeInd

-----------------------------------------------------------------------------
(* The specification. *)

(* Every function an event may have keeps the invariant. *)
LEMMA RunEventInd ==
  ASSUME IndInv, NEW c \in Cores, RunEvent(c)
  PROVE  IndInv'
  <1>1. PICK e \in Event : e = Head(batch[c]) /\ Step({<<c, e>>})
    BY RunStep DEF RunEvent
  <1>2. Handle(c, e)
    BY <1>1 DEF RunEvent
  <1>3. e.fn # "schedule_thread" => \A t \in Threads : {<<c, e>>} \cap Coming(t) = {}
    BY OtherEvents
  <1>4. CASE e.fn = "schedule_thread" /\ _schedule_thread(c, e.thread)
    <2>1. e.thread \in Threads /\ e = [fn |-> "schedule_thread", thread |-> e.thread]
      BY <1>4, EventIs
    <2>2. PICK t \in Threads : t = e.thread
      BY <2>1
    <2>3. Step({<<c, [fn |-> "schedule_thread", thread |-> t]>>}) /\ _schedule_thread(c, t)
      BY <1>1, <1>4, <2>1, <2>2
    <2> QED
      BY <2>3, ArriveInd
  <1>5. CASE e.fn = "on_reactor" /\ on_reactor(c, e.walk)
    <2>1. PICK w \in Walk : w = e.walk /\ e = [fn |-> "on_reactor", walk |-> w]
      BY <1>5, EventIs
    <2>2. Step({<<c, [fn |-> "on_reactor", walk |-> w]>>}) /\ on_reactor(c, w)
      BY <1>1, <1>5, <2>1
    <2> QED
      BY <2>2, OnReactorInd
  <1>6. CASE e.fn = "end_reactor" /\ end_reactor(c, e.walk)
    <2>1. PICK w \in Walk : w = e.walk /\ e = [fn |-> "end_reactor", walk |-> w]
      BY <1>6, EventIs
    <2>2. Step({<<c, [fn |-> "end_reactor", walk |-> w]>>}) /\ end_reactor(c, w)
      BY <1>1, <1>6, <2>1
    <2> QED
      BY <2>2, EndReactorInd
  <1>7. CASE e.fn = "set_interrupt_mode" /\ _reactor_set_interrupt_mode(c)
    BY <1>1, <1>7, SetModeInd
  <1>8. CASE e.fn = "gather_metrics" /\ _reactors_scheduler_gather_metrics(c) /\ UNCHANGED in_round
    <2>1. in_round' \in BOOLEAN /\ \A t \in Threads : {<<c, e>>} \cap Coming(t) = {}
      BY <1>3, <1>8 DEF IndInv, RoundT
    <2> QED
      BY <1>1, <1>8, <2>1, GatherInd
  <1>9. CASE e.fn = "gather_metrics" /\ GatherFails(c)
    BY <1>1, <1>3, <1>9, GatherFailsInd
  <1>10. CASE e.fn = "cancel" /\ _reactors_scheduler_cancel
    BY <1>1, <1>3, <1>10, CancelInd
  <1>11. CASE e.fn = "balance" /\ _reactors_scheduler_balance
    BY <1>1, <1>3, <1>11, BalanceInd
  <1>12. CASE e.fn = "update_core_mode" /\ _reactors_scheduler_update_core_mode
    BY <1>1, <1>3, <1>12, UpdateInd
  <1> QED
    BY <1>2, <1>4, <1>5, <1>6, <1>7, <1>8, <1>9, <1>10, <1>11, <1>12 DEF Handle

(* A round begins with the threads of the scheduling reactor. *)
LEMMA StartRoundInd ==
  ASSUME IndInv, StartRound
  PROVE  IndInv'
  <1>1. in_round' = TRUE /\ _reactors_scheduler_gather_metrics(Main) /\ UNCHANGED loop
    BY DEF StartRound
  <1>2. Step({})
    BY <1>1, DirectStep
  <1> QED
    BY <1>1, <1>2, MainCore, GatherInd

(* spdk_reactors_stop sends the walk that ends in _reactors_stop. *)
LEMMA ReactorsStopInd ==
  ASSUME IndInv, spdk_reactors_stop
  PROVE  IndInv'
  <1> DEFINE w == [fn |-> "nop", orig_core |-> Main]
             e == [fn |-> "on_reactor", walk |-> w]
  <1>1. w \in Walk /\ w.fn = "nop"
    BY DEF Walk
  <1>2. /\ ~stopping /\ spdk_for_each_reactor(Main, w)
        /\ UNCHANGED <<mode, resched_fd, loop, lw, round, state>>
    BY DEF spdk_reactors_stop
  <1> HIDE DEF w
  <1>3. e \in Event /\ Plain(e)
    BY <1>1, WalkIs DEF Plain
  <1>4. stopping' = TRUE /\ spdk_event_call(notify_cpuset[Main], Main, e)
    BY <1>1, <1>2 DEF spdk_for_each_reactor
  <1> HIDE DEF e
  <1>5. Step({})
    BY <1>2, DirectStep
  <1>6. Inner'
    BY <1>2, <1>3, <1>4, <1>5, MainCore, PlainSent
  <1>7. RoundT' /\ StopT'
    BY <1>2, <1>4 DEF IndInv, RoundT, StopT, round
  <1> QED
    BY <1>6, <1>7 DEF IndInv, Inner

(* All reactors poll, and no event is on its way. *)
LEMMA InitInd == Init => IndInv
  <1> SUFFICES ASSUME Init PROVE IndInv
    OBVIOUS
  <1>1. ModeT /\ RingT /\ LoopT /\ LwT /\ RoundT /\ StopT
    <2>1. ModeT /\ LwT /\ StopT
      BY DEF Init, ModeT, LwT, StopT
    <2>2. RoundT
      BY NoInfos, MainCore DEF Init, RoundT
    <2>3. << >> \in Seq(Event)
      OBVIOUS
    <2>4. RingT /\ LoopT
      BY <2>3 DEF Init, RingT, LoopT
    <2> QED
      BY <2>1, <2>2, <2>4
  <1>2. LoopOK /\ FdOK
    BY DEF Init, LoopOK, FdOK
  <1>3. \A c \in Cores : DOMAIN Lines[c] = {}
    BY DEF Init, Lines
  <1>4. \A T : ~Has(Lines, T) /\ AtMostOne(Lines, T)
    BY <1>3 DEF Has, AtMostOne
  <1>5. PlacesOK
    BY <1>4 DEF Init, PlacesOK, PlaceOK
  <1>6. ModesOK
    BY <1>4 DEF Init, ModesOK, ModeOK
  <1> QED
    BY <1>1, <1>2, <1>5, <1>6 DEF IndInv

(* Every step keeps the invariant. *)
LEMMA NextInd == IndInv /\ [Next]_vars => IndInv'
  <1> SUFFICES ASSUME IndInv, [Next]_vars PROVE IndInv'
    OBVIOUS
  <1>1. ASSUME NEW c \in Cores, ReactorStep(c) PROVE IndInv'
    <2>1. ASSUME NEW t \in Threads, PollThread(c, t) \/ PostProcess(c, t) \/ ExitThread(c, t)
          PROVE  IndInv'
      BY <2>1, PollThreadInd, PostProcessEventInd, ExitThreadInd
    <2> QED
      BY <1>1, <2>1, ReactorRunInd, RunEventInd, BatchDoneInd, InterruptRunInd, QueueRunInd,
         ScheduleEventInd, InterruptDoneInd, ReactorEndsInd DEF ReactorStep
  <1>2. ASSUME UNCHANGED vars PROVE IndInv'
    <2>1. UNCHANGED <<mode, lw, round, stop, ring, resched_fd, loop>>
      BY <1>2 DEF vars
    <2>2. Change(Lines, Lines', {}, {})
      BY <2>1, LinesSame DEF ring, loop
    <2>3. LoopT' /\ RingT' /\ LoopOK' /\ FdOK'
      BY <2>1 DEF IndInv, LoopT, RingT, LoopOK, FdOK, loop, ring, mode, lw
    <2> QED
      BY <2>1, <2>2, <2>3, LoopFrame
  <1> QED
    BY <1>1, <1>2, StartRoundInd, ThreadCreateInd, ReactorsStopInd DEF Next

(* The invariant holds in every state. *)
LEMMA IndInvHolds == Spec => []IndInv
  BY InitInd, NextInd, PTL DEF Spec

(* No reactor sleeps on events that are in its ring. *)
THEOREM EventsNotStranded == Spec => []NoEventStranded
  <1>1. IndInv => NoEventStranded
    BY DEF IndInv, FdOK, NoEventStranded
  <1> QED
    BY <1>1, IndInvHolds, PTL

(* The invariant holds the types. *)
LEMMA TypesOK == IndInv => TypeOK
  <1> SUFFICES ASSUME IndInv PROVE TypeOK
    OBVIOUS
  <1>1. \A c \in Cores : DOMAIN infos[c] \subseteq Threads /\ Range(infos[c]) \subseteq Cores
    <2> TAKE c \in Cores
    <2>1. infos[c] \in Infos
      BY DEF IndInv, RoundT
    <2>2. DOMAIN infos[c] \in SUBSET Threads /\ infos[c] \in [DOMAIN infos[c] -> Cores]
      BY <2>1, InfosOf
    <2> QED
      BY <2>2 DEF Range
  <1> QED
    BY <1>1 DEF IndInv, TypeOK, ModeT, RingT, LoopT, LwT, RoundT, StopT

(* The events that bring a thread to a reactor: as many as PlaceOK says. *)
LEMMA PlacesCounted == IndInv => InOnePlace
  <1> SUFFICES ASSUME IndInv, NEW t \in Threads, life[t] = "running"
               PROVE  Cardinality(UNION {{c} \X {n \in DOMAIN (batch[c] \o events[c]) :
                         (batch[c] \o events[c])[n] = [fn |-> "schedule_thread", thread |-> t]} : c \in Cores})
                      = IF home[t] = AnyCore THEN 1 ELSE 0
    BY Zenon DEF InOnePlace
  <1> DEFINE ev == [fn |-> "schedule_thread", thread |-> t]
             M(c) == {n \in DOMAIN (batch[c] \o events[c]) : (batch[c] \o events[c])[n] = ev}
             S == UNION {{c} \X M(c) : c \in Cores}
  <1>1. \A p : p \in S <=> \E c \in Cores : \E n \in DOMAIN Lines[c] : p = <<c, n>> /\ Lines[c][n] = ev
    <2>1. \A c \in Cores : M(c) = {n \in DOMAIN Lines[c] : Lines[c][n] = ev}
      BY DEF Lines
    <2>2. \A p : p \in S <=> \E c \in Cores : p \in {c} \X M(c)
      <3> HIDE DEF M
      <3> QED
        OBVIOUS
    <2>3. \A c, p : p \in {c} \X M(c) <=> \E n \in M(c) : p = <<c, n>>
      <3> HIDE DEF M
      <3> QED
        OBVIOUS
    <2> HIDE DEF S, M
    <2> QED
      BY <2>1, <2>2, <2>3
  <1>2. \A c \in Cores : \A n \in DOMAIN Lines[c] : <<c, Lines[c][n]>> \in Coming(t) <=> Lines[c][n] = ev
    <2>1. ev \in Event
      BY DEF Event
    <2> HIDE DEF ev
    <2>2. \A p : p \in Coming(t) <=> p \in Cores \X Event /\ p[2] = ev
      BY DEF Coming, ev
    <2> QED
      BY <2>1, <2>2
  <1> HIDE DEF S, M, ev
  <1>3. PlaceOK(t)
    BY DEF IndInv, PlacesOK
  <1>4. CASE home[t] = AnyCore
    <2>1. Has(Lines, Coming(t)) /\ AtMostOne(Lines, Coming(t))
      BY <1>3, <1>4 DEF PlaceOK
    <2>2. PICK c \in Cores : \E n \in DOMAIN Lines[c] : <<c, Lines[c][n]>> \in Coming(t)
      BY <2>1 DEF Has
    <2>3. PICK n \in DOMAIN Lines[c] : <<c, Lines[c][n]>> \in Coming(t)
      BY <2>2
    <2>4. S = {<<c, n>>}
      <3>1. <<c, n>> \in S
        BY <1>1, <1>2, <2>3
      <3>2. ASSUME NEW p \in S PROVE p = <<c, n>>
        <4>1. PICK d \in Cores : \E m \in DOMAIN Lines[d] : p = <<d, m>> /\ Lines[d][m] = ev
          BY <1>1
        <4>2. PICK m \in DOMAIN Lines[d] : p = <<d, m>> /\ Lines[d][m] = ev
          BY <4>1
        <4>3. <<d, Lines[d][m]>> \in Coming(t)
          BY <1>2, <4>2
        <4>4. d = c /\ m = n
          BY <2>1, <2>3, <4>3 DEF AtMostOne
        <4> QED
          BY <4>2, <4>4
      <3> QED
        BY <3>1, <3>2
    <2> QED
      BY <1>4, <2>4, FS_Singleton DEF S, M, ev
  <1>5. CASE home[t] # AnyCore
    <2>1. ~Has(Lines, Coming(t))
      BY <1>3, <1>5 DEF PlaceOK
    <2>2. S = {}
      BY <1>1, <1>2, <2>1 DEF Has
    <2> QED
      BY <1>5, <2>2, FS_EmptySet DEF S, M, ev
  <1> QED
    BY <1>4, <1>5

(* A running thread is in the list of one reactor, or on its way to one in one event. *)
THEOREM ThreadsCorrect == Spec => []ThreadsPlaced
  <1>1. IndInv => ThreadsPlaced
    BY TypesOK, PlacesCounted DEF ThreadsPlaced
  <1> QED
    BY <1>1, IndInvHolds, PTL
=============================================================================
