--------------------------- MODULE BdevResetProofs --------------------------
(***************************************************************************)
(* Proofs about BdevReset, for any number of threads, I/O and resets.      *)
(***************************************************************************)
EXTENDS BdevReset, FiniteSetTheorems, SequenceTheorems, WellFoundedInduction, TLAPS

-----------------------------------------------------------------------------
(* The walk over the channels. *)

(* A set of natural numbers that is not empty has a least element: Min. *)
LEMMA MinIsLeast ==
  ASSUME NEW S \in SUBSET Nat, S # {}
  PROVE  Min(S) \in S /\ \A n \in S : Min(S) <= n
  <1>1. PICK x \in S : \A n \in S : ~ (<<n, x>> \in OpToRel(<, Nat))
    BY NatLessThanWellFounded, WFMin
  <1>2. \A n \in S : ~ (n < x)
    BY <1>1 DEF OpToRel
  <1>3. \A n \in S : x <= n
    BY <1>2
  <1> QED
    BY <1>3 DEF Min

(* The walk leaves thread t for a later one, and misses no channel in between. *)
LEMMA NextChannelSkipsNone ==
  ASSUME chan \subseteq Threads, NEW t \in 0 .. NThreads
  PROVE  /\ NextChannel(t) \in Threads \cup {Done}
         /\ \A c \in chan : c < NextChannel(t) => c <= t
  <1> DEFINE S == {u \in chan : u > t} \cup {Done}
  <1>1. chan \subseteq Nat /\ Done \in Nat /\ t \in Nat /\ S # {}
    BY NThreadsAssumption DEF Threads, Done
  <1>2. Min(S) \in S /\ Min(S) \in Nat /\ \A n \in S : Min(S) <= n
    <2>1. S \in SUBSET Nat
      BY <1>1
    <2> QED
      BY <1>1, <2>1, MinIsLeast
  <1>3. ASSUME NEW c \in chan, c < Min(S)
        PROVE  c <= t
    <2>1. CASE c > t
      <3>1. Min(S) <= c
        BY <1>2, <2>1
      <3> QED
        BY <1>1, <1>2, <1>3, <3>1
    <2> QED
      BY <1>1, <2>1
  <1> QED
    BY <1>2, <1>3 DEF NextChannel
-----------------------------------------------------------------------------
(* The freeze. *)

(* Channels are frozen, and unfrozen, in the order of the walk. *)
FreezeInv ==
  /\ chan \subseteq Threads /\ frozen \subseteq chan /\ older \subseteq chan
  /\ at \in Threads \cup {Done}
  /\ phase \in {"none", "freeze", "check", "wait", "module", "unfreeze"}
  /\ current = NoReset <=> phase = "none"
  /\ phase = "none" => frozen = {}
  /\ phase = "freeze" => \A c \in older : c < at => c \in frozen
  /\ phase \in {"check", "wait", "module"} => older \subseteq frozen
  /\ phase = "unfreeze" => \A c \in frozen : c >= at

freeze == <<chan, frozen, older, current, walk>>

(* Steps of I/O and users that leave the walk and the channels alone. *)
LEMMA FreezeKept ==
  ASSUME FreezeInv, UNCHANGED freeze
  PROVE  FreezeInv'
  BY DEF FreezeInv, freeze, walk

(* A channel is opened, and destroyed. *)
LEMMA ChannelsFreeze ==
  ASSUME FreezeInv, NEW t \in Threads, bdev_channel_create(t) \/ bdev_channel_destroy(t)
  PROVE  FreezeInv'
  BY DEF FreezeInv, bdev_channel_create, bdev_channel_destroy, walk, history

(* A reset starts, or is queued. *)
LEMMA ResetFreeze ==
  ASSUME FreezeInv, NEW r \in Resets, spdk_bdev_reset(r)
  PROVE  FreezeInv'
  <1>1. CASE current = NoReset
    <2>1. /\ NextChannel(0) \in Threads \cup {Done}
          /\ \A c \in chan : c < NextChannel(0) => c <= 0
      BY NextChannelSkipsNone, NThreadsAssumption DEF FreezeInv
    <2>2. \A c \in chan : ~ (c <= 0)
      BY NThreadsAssumption DEF FreezeInv, Threads
    <2> QED
      BY <1>1, <2>1, <2>2, ResetsAssumption DEF FreezeInv, spdk_bdev_reset, StartWalk
  <1>2. CASE current # NoReset
    BY <1>2, FreezeKept DEF spdk_bdev_reset, freeze, walk, history
  <1> QED
    BY <1>1, <1>2

(* A walk goes on over a channel that is gone. *)
LEMMA PassOverFreeze ==
  ASSUME FreezeInv, PassOver
  PROVE  FreezeInv'
  <1>1. /\ NextChannel(at) \in Threads \cup {Done}
        /\ \A c \in chan : c < NextChannel(at) => c <= at
    BY NextChannelSkipsNone, NThreadsAssumption DEF FreezeInv, PassOver, Threads
  <1>2. \A c \in chan : c < NextChannel(at) => c < at
    BY <1>1, NThreadsAssumption DEF FreezeInv, PassOver, Threads, Done
  <1>3. \A c \in chan : c >= at => c >= NextChannel(at)
    BY <1>1, <1>2, NThreadsAssumption DEF FreezeInv, PassOver, Threads, Done
  <1> QED
    BY <1>1, <1>2, <1>3 DEF FreezeInv, PassOver, history

(* A channel is frozen, checked or unfrozen. *)
LEMMA VisitFreeze ==
  ASSUME FreezeInv, \/ bdev_reset_freeze_channel \/ bdev_reset_check_outstanding_io
                    \/ bdev_unfreeze_channel
  PROVE  FreezeInv'
  <1> USE DEF bdev_reset_freeze_channel, bdev_reset_check_outstanding_io, bdev_unfreeze_channel
  <1>1. /\ NextChannel(at) \in Threads \cup {Done} /\ Done \in Nat
        /\ \A c \in chan : c < NextChannel(at) => c < at \/ c = at
    BY NextChannelSkipsNone, NThreadsAssumption DEF FreezeInv, Threads, Done
  <1>2. \A c \in chan : c >= at /\ c # at => c >= NextChannel(at)
    BY <1>1, NThreadsAssumption DEF FreezeInv, Threads, Done
  <1> QED
    BY <1>1, <1>2 DEF FreezeInv, history

(* A walk is over, and the next begins. *)
LEMMA WalkOverFreeze ==
  ASSUME FreezeInv, \/ bdev_reset_freeze_channel_done \/ bdev_reset_check_outstanding_io_done
                    \/ bdev_reset_poll_for_outstanding_io \/ ModuleResetComplete
  PROVE  FreezeInv'
  <1> USE DEF bdev_reset_freeze_channel_done, bdev_reset_check_outstanding_io_done,
              bdev_reset_poll_for_outstanding_io, ModuleResetComplete, StartWalk
  <1>1. /\ NextChannel(0) \in Threads \cup {Done}
        /\ \A c \in chan : c < NextChannel(0) => c <= 0
    BY NextChannelSkipsNone, NThreadsAssumption DEF FreezeInv
  <1>2. \A c \in chan : c >= NextChannel(0) /\ c < Done
    BY <1>1, NThreadsAssumption DEF FreezeInv, Threads, Done
  <1> QED
    BY <1>1, <1>2 DEF FreezeInv, history

(* The reset in progress is over. *)
LEMMA CompleteFreeze ==
  ASSUME FreezeInv, bdev_reset_complete
  PROVE  FreezeInv'
  <1>1. \A c \in chan : ~ (c >= Done)
    BY NThreadsAssumption DEF FreezeInv, Threads, Done
  <1> QED
    BY <1>1 DEF FreezeInv, bdev_reset_complete

(* What the steps of the I/O, of references and of put off completions leave alone. *)
LEMMA OthersKeepFreeze ==
  ASSUME \/ \E i \in Ios : \/ SubmitIo(i) \/ spdk_bdev_abort(i) \/ spdk_bdev_io_complete(i)
                           \/ ModuleNoMem(i) \/ bdev_io_exec_sequence_cb(i)
                           \/ bdev_io_complete(i)
         \/ \E t \in Threads : bdev_no_mem_poller(t) \/ spdk_put_io_channel(t)
         \/ \E r \in Resets : _bdev_reset_complete(r)
  PROVE  UNCHANGED freeze
  BY DEF SubmitIo, spdk_bdev_abort, spdk_bdev_io_complete, ModuleNoMem,
         bdev_io_exec_sequence_cb, bdev_io_complete, bdev_no_mem_poller, spdk_put_io_channel,
         _bdev_reset_complete, freeze, walk, history

(* Every step preserves the freeze. *)
LEMMA NextFreeze == FreezeInv /\ [Next]_vars => FreezeInv'
  <1> SUFFICES ASSUME FreezeInv, [Next]_vars PROVE FreezeInv'
    OBVIOUS
  <1>1. CASE UNCHANGED vars
    BY <1>1, FreezeKept DEF vars, freeze, walk, history
  <1>2. CASE \/ \E i \in Ios : \/ SubmitIo(i) \/ spdk_bdev_abort(i) \/ spdk_bdev_io_complete(i)
                              \/ ModuleNoMem(i) \/ bdev_io_exec_sequence_cb(i)
                              \/ bdev_io_complete(i)
             \/ \E t \in Threads : bdev_no_mem_poller(t) \/ spdk_put_io_channel(t)
             \/ \E r \in Resets : _bdev_reset_complete(r)
    BY <1>2, OthersKeepFreeze, FreezeKept
  <1>3. CASE \E t \in Threads : bdev_channel_create(t) \/ bdev_channel_destroy(t)
    BY <1>3, ChannelsFreeze
  <1>4. CASE \E r \in Resets : spdk_bdev_reset(r)
    BY <1>4, ResetFreeze
  <1>5. CASE ResetWalk \/ ModuleResetComplete
    BY <1>5, PassOverFreeze, VisitFreeze, WalkOverFreeze, CompleteFreeze DEF ResetWalk
  <1> QED
    BY <1>1, <1>2, <1>3, <1>4, <1>5 DEF Next

(* The channels that a reset found are frozen while it is checked for, waits and is
   done, and no channel stays frozen after it, whatever channels come and go during
   the walks. *)
THEOREM FreezeCorrect == Spec => []FreezeHolds
  <1>1. Init => FreezeInv
    BY NThreadsAssumption DEF Init, FreezeInv
  <1>2. FreezeInv => FreezeHolds
    BY DEF FreezeInv, FreezeHolds, OlderChannelsFrozen, FrozenOnlyInReset
  <1> QED
    BY <1>1, <1>2, NextFreeze, PTL DEF Spec
-----------------------------------------------------------------------------
(* Keep. *)

(* The elements of a finite set of numbers are ranked from 1 on. *)
LEMMA Ranked ==
  ASSUME NEW K \in SUBSET Nat, IsFiniteSet(K)
  PROVE  /\ Cardinality(K) \in Nat
         /\ \A n \in K : Cardinality({m \in K : m <= n}) \in 1 .. Cardinality(K)
         /\ \A k \in 1 .. Cardinality(K) : \E n \in K : Cardinality({m \in K : m <= n}) = k
         /\ \A a, b \in K :
              Cardinality({m \in K : m <= a}) = Cardinality({m \in K : m <= b}) => a = b
  <1> DEFINE Up(n) == {m \in K : m <= n}
             N == Cardinality(K)
             f == [n \in K |-> Cardinality(Up(n))]
  <1>1. N \in Nat
    BY FS_CardinalityType
  <1>2. ASSUME NEW n \in K
        PROVE  IsFiniteSet(Up(n)) /\ Cardinality(Up(n)) \in 1 .. N
    <2>1. Up(n) \in SUBSET K /\ n \in Up(n)
      OBVIOUS
    <2> HIDE DEF Up
    <2>2. IsFiniteSet(Up(n)) /\ Cardinality(Up(n)) <= N
      BY <2>1, FS_Subset
    <2>3. Cardinality(Up(n)) \in Nat /\ Cardinality(Up(n)) # 0
      BY <2>1, <2>2, FS_CardinalityType, FS_EmptySet
    <2> QED
      BY <1>1, <2>2, <2>3
  <1>3. ASSUME NEW a \in K, NEW b \in K, a < b
        PROVE  Cardinality(Up(a)) # Cardinality(Up(b))
    <2>1. Up(a) \in SUBSET Up(b) /\ b \in Up(b) /\ b \notin Up(a)
      <3>1. a \in Nat /\ b \in Nat /\ \A m \in K : m \in Nat
        OBVIOUS
      <3>2. \A m \in K : m <= a => m <= b
        BY <1>3, <3>1
      <3>3. b <= b /\ ~ (b <= a)
        BY <1>3, <3>1
      <3> QED
        BY <3>2, <3>3
    <2>2. IsFiniteSet(Up(b))
      BY <1>2
    <2> HIDE DEF Up
    <2> QED
      BY <2>1, <2>2, FS_Subset
  <1>4. ASSUME NEW a \in K, NEW b \in K, Cardinality(Up(a)) = Cardinality(Up(b))
        PROVE  a = b
    <2>1. a \in Nat /\ b \in Nat
      OBVIOUS
    <2> HIDE DEF Up
    <2>2. ~ (a < b) /\ ~ (b < a)
      BY <1>3, <1>4
    <2> QED
      BY <2>1, <2>2
  <1> HIDE DEF Up, N
  <1>5. f \in [K -> 1 .. N]
    BY <1>2
  <1>6. f \in Injection(K, 1 .. N)
    BY <1>4, <1>5 DEF Injection, IsInjective
  <1>7. IsFiniteSet(1 .. N) /\ Cardinality(1 .. N) = N
    BY <1>1, FS_Interval
  <1>8. f \in Surjection(K, 1 .. N)
    <2> HIDE DEF f
    <2> QED
      BY <1>6, <1>7, FS_Injection DEF N
  <1>9. \A k \in 1 .. N : \E n \in K : f[n] = k
    <2> HIDE DEF f
    <2> QED
      BY <1>8 DEF Surjection
  <1>10. \A k \in 1 .. N : \E n \in K : Cardinality(Up(n)) = k
    BY <1>9
  <1> QED
    BY <1>1, <1>2, <1>4, <1>10 DEF Up, N

(* Keep has the elements that are in S, and no more often than s. *)
LEMMA KeepFacts ==
  ASSUME NEW T, NEW s \in Seq(T), NEW S
  PROVE  /\ Keep(s, S) \in Seq(T)
         /\ Range(Keep(s, S)) = Range(s) \cap S
         /\ IsInjective(s) => IsInjective(Keep(s, S))
  <1> DEFINE K == {n \in DOMAIN s : s[n] \in S}
             Rank(n) == Cardinality({m \in K : m <= n})
             N == Cardinality(K)
             c == [k \in 1 .. N |-> CHOOSE n \in K : Rank(n) = k]
             q == Keep(s, S)
  <1>1. Len(s) \in Nat /\ DOMAIN s = 1 .. Len(s) /\ \A n \in DOMAIN s : s[n] \in T
    BY LenProperties, ElementOfSeq
  <1>2. K \in SUBSET Nat /\ K \subseteq 1 .. Len(s) /\ K \in SUBSET (1 .. Len(s))
    BY <1>1
  <1>3. IsFiniteSet(K)
    <2>1. IsFiniteSet(1 .. Len(s))
      BY <1>1, FS_Interval
    <2> HIDE DEF K
    <2> QED
      BY <1>2, <2>1, FS_Subset
  <1>4. \A n \in K : n \in DOMAIN s /\ s[n] \in S /\ s[n] \in T
    BY <1>1
  <1>5. \A n \in DOMAIN s : s[n] \in S => n \in K
    OBVIOUS
  <1>6. q = [k \in 1 .. N |-> s[CHOOSE n \in K : Rank(n) = k]]
    BY DEF Keep
  <1> HIDE DEF K, q
  <1>7. /\ N \in Nat
        /\ \A n \in K : Rank(n) \in 1 .. N
        /\ \A k \in 1 .. N : \E n \in K : Rank(n) = k
        /\ \A a, b \in K : Rank(a) = Rank(b) => a = b
    BY <1>2, <1>3, Ranked
  <1> HIDE DEF Rank, N
  <1>8. \A k \in 1 .. N : c[k] \in K /\ Rank(c[k]) = k
    BY <1>7
  <1>9. DOMAIN q = 1 .. N /\ \A k \in 1 .. N : q[k] = s[c[k]]
    BY <1>6
  <1>10. q = [k \in 1 .. N |-> q[k]]
    BY <1>6
  <1> HIDE DEF c
  <1>11. q \in Seq(T)
    <2>1. \A k \in 1 .. N : q[k] \in T
      BY <1>4, <1>8, <1>9
    <2>2. q \in [1 .. N -> T]
      BY <1>10, <2>1
    <2> QED
      BY <1>7, <2>2
  <1>12. \A n \in K : c[Rank(n)] = n
    BY <1>7, <1>8
  <1>13. Range(q) = Range(s) \cap S
    <2>1. \A x \in Range(q) : x \in Range(s) /\ x \in S
      BY <1>4, <1>8, <1>9 DEF Range
    <2>2. ASSUME NEW x \in Range(s), x \in S
          PROVE  x \in Range(q)
      <3>1. PICK n \in DOMAIN s : x = s[n]
        BY DEF Range
      <3>2. n \in K
        BY <1>5, <2>2, <3>1
      <3>3. Rank(n) \in 1 .. N /\ q[Rank(n)] = x
        BY <1>7, <1>9, <1>12, <3>1, <3>2
      <3> QED
        BY <1>9, <3>3 DEF Range
    <2> QED
      BY <2>1, <2>2
  <1>14. ASSUME IsInjective(s)
         PROVE  IsInjective(q)
    <2>1. \A a, b \in DOMAIN s : s[a] = s[b] => a = b
      BY <1>14 DEF IsInjective
    <2>2. ASSUME NEW a \in 1 .. N, NEW b \in 1 .. N, q[a] = q[b]
          PROVE  a = b
      <3>1. c[a] = c[b]
        BY <1>4, <1>8, <1>9, <2>1, <2>2
      <3> QED
        BY <1>8, <3>1
    <2> QED
      BY <1>9, <2>2 DEF IsInjective
  <1> QED
    BY <1>11, <1>13, <1>14 DEF q
(* Appending what is not there yet. *)
LEMMA AppendFacts ==
  ASSUME NEW T, NEW s \in Seq(T), NEW x \in T, x \notin Range(s), IsInjective(s)
  PROVE  /\ Append(s, x) \in Seq(T)
         /\ Range(Append(s, x)) = Range(s) \cup {x}
         /\ IsInjective(Append(s, x))
  <1> DEFINE q == Append(s, x)
  <1>1. /\ q \in Seq(T) /\ Len(s) \in Nat /\ DOMAIN s = 1 .. Len(s)
        /\ DOMAIN q = 1 .. Len(s) + 1 /\ q[Len(s) + 1] = x
        /\ \A n \in 1 .. Len(s) : q[n] = s[n]
    BY AppendProperties
  <1> HIDE DEF q
  <1>2. \A n \in DOMAIN q : n \in DOMAIN s \/ n = Len(s) + 1
    BY <1>1
  <1>3. \A n \in DOMAIN s : n \in DOMAIN q
    BY <1>1
  <1>4. Range(q) = Range(s) \cup {x}
    BY <1>1, <1>2, <1>3 DEF Range
  <1>5. IsInjective(q)
    BY <1>1, <1>2 DEF Range, IsInjective
  <1> QED
    BY <1>1, <1>4, <1>5 DEF q

-----------------------------------------------------------------------------
(* The accounts of a thread.  X are I/O that the code holds in its hands: neither counted *)
(* nor listed.                                                                            *)
Place == {"idle", "module", "accel", "nomem", "deferred"}

LocalT(t) ==
  [st : [Ios -> Place], nomem_io : Seq(IosOf(t)), nomem_threshold : Nat,
   io_outstanding : Int, ch_outstanding : Int, nomem_poller : BOOLEAN]

Out(t, f, X) == {j \in IosOf(t) \ X : f[j] \in {"module", "accel"}}

Counted(t, s, X) ==
  /\ s.io_outstanding = Cardinality(Out(t, s.st, X))
  /\ s.ch_outstanding = Cardinality(Out(t, s.st, X) \cap OwnIos)

Listed(t, s, X) ==
  /\ Range(s.nomem_io) = {j \in IosOf(t) \ X : s.st[j] = "nomem"}
  /\ IsInjective(s.nomem_io)

Accounted(t, s, X) == s \in LocalT(t) /\ Counted(t, s, X) /\ Listed(t, s, X)

Awake(s) == s.nomem_io # << >> => s.io_outstanding > 0 \/ s.nomem_poller

(* A retry has taken waiting I/O to the module. *)
Retried(t, s, r, X) ==
  \A j \in Ios : \/ r.st[j] = s.st[j]
                 \/ j \in IosOf(t) \ X /\ s.st[j] = "nomem" /\ r.st[j] = "module"

(* The I/O i has gone to p. *)
Placed(s, r, i, p) == \A j \in Ios : r.st[j] = IF j = i THEN p ELSE s.st[j]

(* The I/O of a thread are finite in number. *)
LEMMA OutFinite ==
  ASSUME NEW t, NEW f, NEW X
  PROVE  /\ IsFiniteSet(Out(t, f, X)) /\ IsFiniteSet(Out(t, f, X) \cap OwnIos)
         /\ Cardinality(Out(t, f, X)) \in Nat /\ Cardinality(Out(t, f, X) \cap OwnIos) \in Nat
  <1>1. Out(t, f, X) \in SUBSET Ios /\ Out(t, f, X) \cap OwnIos \in SUBSET Ios
    BY DEF Out, IosOf
  <1>2. IsFiniteSet(Out(t, f, X)) /\ IsFiniteSet(Out(t, f, X) \cap OwnIos)
    BY <1>1, IosAssumption, FS_Subset
  <1> QED
    BY <1>2, FS_CardinalityType

One(i) == IF i \in OwnIos THEN 1 ELSE 0

(* The counters go up. *)
LEMMA IncrementFacts ==
  ASSUME NEW t, NEW i, NEW s \in LocalT(t)
  PROVE  LET r == bdev_io_increment_outstanding(s, i)
         IN  /\ r \in LocalT(t) /\ r.st = s.st /\ r.nomem_io = s.nomem_io
             /\ r.nomem_threshold = s.nomem_threshold /\ r.nomem_poller = s.nomem_poller
             /\ r.io_outstanding = s.io_outstanding + 1
             /\ r.ch_outstanding = s.ch_outstanding + One(i)
  <1>0. s.io_outstanding \in Int /\ s.ch_outstanding \in Int
    BY DEF LocalT
  <1>1. PICK d \in {0, 1} : d = One(i)
    BY DEF One
  <1>2. PICK n \in Int : n = s.io_outstanding + 1
    BY <1>0
  <1>3. PICK m \in Int : m = s.ch_outstanding + d
    BY <1>0, <1>1
  <1>4. bdev_io_increment_outstanding(s, i) = [s EXCEPT !.io_outstanding = n, !.ch_outstanding = m]
    BY <1>1, <1>2, <1>3 DEF bdev_io_increment_outstanding, One
  <1>5. PICK r : r = [s EXCEPT !.io_outstanding = n, !.ch_outstanding = m]
    OBVIOUS
  <1>6. /\ r \in LocalT(t) /\ r.st = s.st /\ r.nomem_io = s.nomem_io
        /\ r.nomem_threshold = s.nomem_threshold /\ r.nomem_poller = s.nomem_poller
        /\ r.io_outstanding = n /\ r.ch_outstanding = m
    BY <1>5 DEF LocalT
  <1> QED
    BY <1>1, <1>2, <1>3, <1>4, <1>5, <1>6

(* The counters go down. *)
LEMMA DecrementFacts ==
  ASSUME NEW t, NEW i, NEW s \in LocalT(t)
  PROVE  LET r == bdev_io_decrement_outstanding(s, i)
         IN  /\ r \in LocalT(t) /\ r.st = s.st /\ r.nomem_io = s.nomem_io
             /\ r.nomem_threshold = s.nomem_threshold /\ r.nomem_poller = s.nomem_poller
             /\ r.io_outstanding = s.io_outstanding - 1
             /\ r.ch_outstanding = s.ch_outstanding - One(i)
  <1>0. s.io_outstanding \in Int /\ s.ch_outstanding \in Int
    BY DEF LocalT
  <1>1. PICK d \in {0, 1} : d = One(i)
    BY DEF One
  <1>2. PICK n \in Int : n = s.io_outstanding - 1
    BY <1>0
  <1>3. PICK m \in Int : m = s.ch_outstanding - d
    BY <1>0, <1>1
  <1>4. bdev_io_decrement_outstanding(s, i) = [s EXCEPT !.io_outstanding = n, !.ch_outstanding = m]
    BY <1>1, <1>2, <1>3 DEF bdev_io_decrement_outstanding, One
  <1>5. PICK r : r = [s EXCEPT !.io_outstanding = n, !.ch_outstanding = m]
    OBVIOUS
  <1>6. /\ r \in LocalT(t) /\ r.st = s.st /\ r.nomem_io = s.nomem_io
        /\ r.nomem_threshold = s.nomem_threshold /\ r.nomem_poller = s.nomem_poller
        /\ r.io_outstanding = n /\ r.ch_outstanding = m
    BY <1>5 DEF LocalT
  <1> QED
    BY <1>1, <1>2, <1>3, <1>4, <1>5, <1>6

(* Records that agree are equal. *)
LEMMA LocalExtensional ==
  ASSUME NEW t, NEW r \in LocalT(t), NEW s \in LocalT(t),
         r.st = s.st, r.nomem_io = s.nomem_io, r.nomem_threshold = s.nomem_threshold,
         r.io_outstanding = s.io_outstanding, r.ch_outstanding = s.ch_outstanding,
         r.nomem_poller = s.nomem_poller
  PROVE  r = s
  BY DEF LocalT

(* An I/O goes somewhere. *)
LEMMA GoesFacts ==
  ASSUME NEW t, NEW i \in Ios, NEW s \in LocalT(t), NEW p \in Place
  PROVE  LET r == Goes(s, i, p)
         IN  /\ r \in LocalT(t) /\ r.nomem_io = s.nomem_io
             /\ r.nomem_threshold = s.nomem_threshold /\ r.nomem_poller = s.nomem_poller
             /\ r.io_outstanding = s.io_outstanding /\ r.ch_outstanding = s.ch_outstanding
             /\ Placed(s, r, i, p)
  <1>1. [s.st EXCEPT ![i] = p] \in [Ios -> Place]
    BY DEF LocalT
  <1>2. Goes(s, i, p) = [s EXCEPT !.st = [s.st EXCEPT ![i] = p]]
    BY DEF Goes
  <1>3. \A j \in Ios : [s.st EXCEPT ![i] = p][j] = IF j = i THEN p ELSE s.st[j]
    BY DEF LocalT
  <1>4. PICK f \in [Ios -> Place] : f = [s.st EXCEPT ![i] = p]
    BY <1>1
  <1>5. PICK r : r = [s EXCEPT !.st = f]
    OBVIOUS
  <1>6. /\ r \in LocalT(t) /\ r.nomem_io = s.nomem_io
        /\ r.nomem_threshold = s.nomem_threshold /\ r.nomem_poller = s.nomem_poller
        /\ r.io_outstanding = s.io_outstanding /\ r.ch_outstanding = s.ch_outstanding
        /\ r.st = f
    BY <1>5 DEF LocalT
  <1>7. Placed(s, r, i, p)
    BY <1>3, <1>4, <1>6 DEF Placed
  <1>8. Goes(s, i, p) = r
    BY <1>2, <1>4, <1>5
  <1> QED
    BY <1>6, <1>7, <1>8

(* An I/O goes to the module, and is counted. *)
LEMMA IncrementAccounted ==
  ASSUME NEW t, NEW i \in IosOf(t), NEW s, Accounted(t, s, {i})
  PROVE  Accounted(t, Goes(bdev_io_increment_outstanding(s, i), i, "module"), {})
  <1> DEFINE r == Goes(bdev_io_increment_outstanding(s, i), i, "module")
             A == Out(t, s.st, {i})
             B == Out(t, r.st, {})
  <1>0. i \in Ios /\ s \in LocalT(t)
    BY DEF IosOf, Accounted
  <1>1. /\ r \in LocalT(t) /\ r.nomem_io = s.nomem_io
        /\ r.io_outstanding = s.io_outstanding + 1
        /\ r.ch_outstanding = s.ch_outstanding + One(i)
        /\ Placed(s, r, i, "module")
    <2>1. PICK q : q = bdev_io_increment_outstanding(s, i)
      OBVIOUS
    <2>2. /\ q \in LocalT(t) /\ q.st = s.st /\ q.nomem_io = s.nomem_io
          /\ q.io_outstanding = s.io_outstanding + 1 /\ q.ch_outstanding = s.ch_outstanding + One(i)
      BY <1>0, <2>1, IncrementFacts
    <2>3. r = Goes(q, i, "module") /\ "module" \in Place
      BY <2>1 DEF Place
    <2> HIDE DEF r
    <2>4. /\ r \in LocalT(t) /\ r.nomem_io = q.nomem_io
          /\ r.io_outstanding = q.io_outstanding /\ r.ch_outstanding = q.ch_outstanding
          /\ Placed(q, r, i, "module")
      BY <1>0, <2>2, <2>3, GoesFacts
    <2> QED
      BY <2>2, <2>4 DEF Placed
  <1> HIDE DEF r
  <1>3. B = A \cup {i} /\ i \notin A
    BY <1>0, <1>1 DEF Out, IosOf, Placed
  <1>4. B \cap OwnIos = IF i \in OwnIos THEN (A \cap OwnIos) \cup {i} ELSE A \cap OwnIos
    BY <1>3
  <1>5. /\ IsFiniteSet(A) /\ IsFiniteSet(A \cap OwnIos)
        /\ Cardinality(A) \in Nat /\ Cardinality(A \cap OwnIos) \in Nat
    BY OutFinite
  <1> HIDE DEF A, B
  <1>6. /\ Cardinality(B) = Cardinality(A) + 1
        /\ Cardinality(B \cap OwnIos) = Cardinality(A \cap OwnIos) + One(i)
    <2>1. Cardinality(B) = Cardinality(A) + 1
      BY <1>3, <1>5, FS_AddElement
    <2>2. Cardinality(B \cap OwnIos) = Cardinality(A \cap OwnIos) + One(i)
      <3>1. CASE i \in OwnIos
        BY <1>3, <1>4, <1>5, <3>1, FS_AddElement DEF One
      <3>2. CASE i \notin OwnIos
        BY <1>4, <1>5, <3>2, FS_AddElement DEF One
      <3> QED
        BY <3>1, <3>2
    <2> QED
      BY <2>1, <2>2
  <1>7. Counted(t, r, {})
    BY <1>1, <1>6 DEF Accounted, Counted, A, B
  <1>8. Listed(t, r, {})
    BY <1>1 DEF Accounted, Listed, IosOf, Placed
  <1> QED
    BY <1>1, <1>7, <1>8 DEF Accounted, r

(* An I/O that was counted is in the code's hands. *)
LEMMA DecrementAccounted ==
  ASSUME NEW t, NEW i \in IosOf(t), NEW s, Accounted(t, s, {}), s.st[i] \in {"module", "accel"}
  PROVE  /\ Accounted(t, bdev_io_decrement_outstanding(s, i), {i})
         /\ bdev_io_decrement_outstanding(s, i).st = s.st
  <1> DEFINE r == bdev_io_decrement_outstanding(s, i)
             A == Out(t, s.st, {})
             B == Out(t, r.st, {i})
  <1>0. i \in Ios /\ s \in LocalT(t)
    BY DEF IosOf, Accounted
  <1>1. /\ r \in LocalT(t) /\ r.st = s.st /\ r.nomem_io = s.nomem_io
        /\ r.io_outstanding = s.io_outstanding - 1
        /\ r.ch_outstanding = s.ch_outstanding - One(i)
    BY <1>0, DecrementFacts
  <1> HIDE DEF r
  <1>3. B = A \ {i} /\ i \in A
    BY <1>0, <1>1 DEF Out
  <1>4. B \cap OwnIos = (A \cap OwnIos) \ {i}
    BY <1>3
  <1>5. /\ IsFiniteSet(A) /\ IsFiniteSet(A \cap OwnIos)
        /\ Cardinality(A) \in Nat /\ Cardinality(A \cap OwnIos) \in Nat
    BY OutFinite
  <1> HIDE DEF A, B
  <1>6. /\ Cardinality(B) = Cardinality(A) - 1
        /\ Cardinality(B \cap OwnIos) = Cardinality(A \cap OwnIos) - One(i)
    <2>1. Cardinality(B) = Cardinality(A) - 1
      BY <1>3, <1>5, FS_RemoveElement
    <2>2. Cardinality(B \cap OwnIos) = Cardinality(A \cap OwnIos) - One(i)
      <3>1. CASE i \in OwnIos
        BY <1>3, <1>4, <1>5, <3>1, FS_RemoveElement DEF One
      <3>2. CASE i \notin OwnIos
        <4>1. B \cap OwnIos = A \cap OwnIos
          BY <1>4, <3>2
        <4>2. One(i) = 0 /\ Cardinality(B \cap OwnIos) = Cardinality(A \cap OwnIos)
          BY <3>2, <4>1 DEF One
        <4> QED
          BY <1>5, <4>2
      <3> QED
        BY <3>1, <3>2
    <2> QED
      BY <2>1, <2>2
  <1>7. Counted(t, r, {i})
    BY <1>1, <1>6 DEF Accounted, Counted, A, B
  <1>8. Listed(t, r, {i})
    BY <1>1 DEF Accounted, Listed, IosOf
  <1> QED
    BY <1>1, <1>7, <1>8 DEF Accounted, r

(* To count an I/O and at once take it back changes nothing. *)
LEMMA IncrementDecrement ==
  ASSUME NEW t, NEW i, NEW s \in LocalT(t)
  PROVE  bdev_io_decrement_outstanding(bdev_io_increment_outstanding(s, i), i) = s
  <1>1. PICK q : q = bdev_io_increment_outstanding(s, i)
    OBVIOUS
  <1>2. /\ q \in LocalT(t) /\ q.st = s.st /\ q.nomem_io = s.nomem_io
        /\ q.nomem_threshold = s.nomem_threshold /\ q.nomem_poller = s.nomem_poller
        /\ q.io_outstanding = s.io_outstanding + 1
        /\ q.ch_outstanding = s.ch_outstanding + One(i)
    BY <1>1, IncrementFacts
  <1>3. PICK r : r = bdev_io_decrement_outstanding(q, i)
    OBVIOUS
  <1>4. /\ r \in LocalT(t) /\ r.st = q.st /\ r.nomem_io = q.nomem_io
        /\ r.nomem_threshold = q.nomem_threshold /\ r.nomem_poller = q.nomem_poller
        /\ r.io_outstanding = q.io_outstanding - 1
        /\ r.ch_outstanding = q.ch_outstanding - One(i)
    BY <1>2, <1>3, DecrementFacts
  <1>5. s.io_outstanding \in Int /\ s.ch_outstanding \in Int /\ One(i) \in Int
    BY DEF LocalT, One
  <1>6. r = s
    BY <1>2, <1>4, <1>5, LocalExtensional
  <1> QED
    BY <1>1, <1>3, <1>6

(* The code lets go of an I/O that has completed. *)
LEMMA GoesAccounted ==
  ASSUME NEW t, NEW i \in IosOf(t), NEW s, Accounted(t, s, {i}), NEW p \in {"idle", "deferred"}
  PROVE  /\ Accounted(t, Goes(s, i, p), {})
         /\ Awake(s) => Awake(Goes(s, i, p))
  <1> DEFINE r == Goes(s, i, p)
  <1>0. i \in Ios /\ s \in LocalT(t)
    BY DEF IosOf, Accounted
  <1>1. /\ r \in LocalT(t) /\ r.nomem_io = s.nomem_io
        /\ r.io_outstanding = s.io_outstanding /\ r.ch_outstanding = s.ch_outstanding
        /\ r.nomem_poller = s.nomem_poller
        /\ Placed(s, r, i, p)
    <2>1. p \in Place
      BY DEF Place
    <2> QED
      BY <1>0, <2>1, GoesFacts
  <1> HIDE DEF r
  <1>3. Out(t, r.st, {}) = Out(t, s.st, {i})
    BY <1>0, <1>1 DEF Out, IosOf, Placed
  <1>4. Listed(t, r, {})
    BY <1>1 DEF Accounted, Listed, IosOf, Placed
  <1>5. Counted(t, r, {})
    BY <1>1, <1>3 DEF Accounted, Counted
  <1> QED
    BY <1>1, <1>4, <1>5 DEF Accounted, Awake, r

(* The code takes up an I/O that is neither out nor waiting. *)
LEMMA TakenUp ==
  ASSUME NEW t, NEW i, NEW s, Accounted(t, s, {}), s.st[i] \in {"idle", "deferred"}
  PROVE  Accounted(t, s, {i})
  <1>1. Out(t, s.st, {i}) = Out(t, s.st, {})
    BY DEF Out
  <1>2. Listed(t, s, {i})
    BY DEF Accounted, Listed
  <1> QED
    BY <1>1, <1>2 DEF Accounted, Counted

(* The list s with x at its front. *)
AtFront(x, s) == <<x>> \o s

(* With nothing outstanding the poller is registered. *)
Polls(s, r) == s.io_outstanding = 0 => r.nomem_poller

(* An I/O that the code holds joins the waiting, at the front. *)
LEMMA HandleNoMemFacts ==
  ASSUME NEW t, NEW i \in IosOf(t), NEW s \in LocalT(t), s.io_outstanding \in Nat
  PROVE  /\ handle_no_mem(s, i) \in LocalT(t)
         /\ handle_no_mem(s, i).nomem_io = AtFront(i, s.nomem_io)
         /\ Polls(s, handle_no_mem(s, i))
         /\ handle_no_mem(s, i).io_outstanding = s.io_outstanding
         /\ handle_no_mem(s, i).ch_outstanding = s.ch_outstanding
         /\ Placed(s, handle_no_mem(s, i), i, "nomem")
  <1>0. i \in Ios /\ s \in LocalT(t) /\ s.io_outstanding \in Nat
    BY DEF IosOf
  <1>1. PICK a \in Nat : a = s.io_outstanding
    BY <1>0
  <1>2. PICK b : b = Max({a \div 2, a - NOMEM_THRESHOLD_COUNT})
    OBVIOUS
  <1>3. b \in Nat
    <2>1. a \div 2 \in Nat /\ a - NOMEM_THRESHOLD_COUNT \in Int
      BY <1>1 DEF NOMEM_THRESHOLD_COUNT
    <2>2. \E x \in {a \div 2, a - NOMEM_THRESHOLD_COUNT} :
            \A y \in {a \div 2, a - NOMEM_THRESHOLD_COUNT} : x >= y
      BY <2>1
    <2>3. /\ b \in {a \div 2, a - NOMEM_THRESHOLD_COUNT}
          /\ \A y \in {a \div 2, a - NOMEM_THRESHOLD_COUNT} : b >= y
      BY <1>2, <2>2 DEF Max
    <2>4. b \in Int /\ b >= a \div 2
      BY <2>1, <2>3
    <2> QED
      BY <2>1, <2>4
  <1>4. PICK c : c = <<i>> \o s.nomem_io
    OBVIOUS
  <1>5. c \in Seq(IosOf(t))
    <2>1. <<i>> \in Seq(IosOf(t)) /\ s.nomem_io \in Seq(IosOf(t))
      BY <1>0 DEF LocalT
    <2> QED
      BY <1>4, <2>1, ConcatProperties
  <1>6. PICK q : q = Goes(s, i, "nomem")
    OBVIOUS
  <1>7. /\ q \in LocalT(t) /\ q.nomem_io = s.nomem_io
        /\ q.nomem_poller = s.nomem_poller
        /\ q.io_outstanding = s.io_outstanding /\ q.ch_outstanding = s.ch_outstanding
        /\ Placed(s, q, i, "nomem")
    <2>1. "nomem" \in Place
      BY DEF Place
    <2> QED
      BY <1>0, <1>6, <2>1, GoesFacts
  <1>8. PICK u : u = [q EXCEPT !.nomem_threshold = b, !.nomem_io = c]
    OBVIOUS
  <1>9. bdev_queue_nomem_io_head(s, i) = u
    BY <1>1, <1>2, <1>4, <1>6, <1>7, <1>8 DEF bdev_queue_nomem_io_head
  <1>10. /\ u \in LocalT(t) /\ u.st = q.st /\ u.nomem_io = c /\ u.nomem_poller = q.nomem_poller
         /\ u.io_outstanding = q.io_outstanding /\ u.ch_outstanding = q.ch_outstanding
    BY <1>3, <1>5, <1>7, <1>8 DEF LocalT
  <1>11. PICK p \in BOOLEAN : p = (u.nomem_poller \/ s.io_outstanding = 0)
    <2>1. u.nomem_poller \in BOOLEAN
      BY <1>10 DEF LocalT
    <2> QED
      BY <2>1
  <1>12. PICK v : v = [u EXCEPT !.nomem_poller = p]
    OBVIOUS
  <1>13. handle_no_mem(s, i) = v
    BY <1>9, <1>11, <1>12, Zenon DEF handle_no_mem
  <1>14. /\ v \in LocalT(t) /\ v.st = u.st /\ v.nomem_io = u.nomem_io /\ v.nomem_poller = p
         /\ v.io_outstanding = u.io_outstanding /\ v.ch_outstanding = u.ch_outstanding
    BY <1>10, <1>12 DEF LocalT
  <1>15. Polls(s, v)
    BY <1>11, <1>14, Zenon DEF Polls
  <1>16. /\ v.nomem_io = AtFront(i, s.nomem_io)
         /\ v.io_outstanding = s.io_outstanding /\ v.ch_outstanding = s.ch_outstanding
         /\ Placed(s, v, i, "nomem")
    BY <1>4, <1>7, <1>10, <1>14 DEF AtFront, Placed
  <1> QED
    BY <1>13, <1>14, <1>15, <1>16, Zenon

(* A list with a new element at its front. *)
LEMMA FrontFacts ==
  ASSUME NEW T, NEW s \in Seq(T), NEW x \in T, x \notin Range(s), IsInjective(s)
  PROVE  /\ AtFront(x, s) \in Seq(T) /\ AtFront(x, s) # << >>
         /\ Range(AtFront(x, s)) = Range(s) \cup {x}
         /\ IsInjective(AtFront(x, s))
  <1>1. PICK q : q = AtFront(x, s)
    OBVIOUS
  <1>2. /\ q \in Seq(T) /\ Len(s) \in Nat /\ DOMAIN s = 1 .. Len(s) /\ Len(q) = Len(s) + 1
        /\ DOMAIN q = 1 .. Len(s) + 1 /\ q[1] = x
        /\ \A n \in 1 .. Len(s) : q[n + 1] = s[n]
    <2>1. <<x>> \in Seq(T) /\ Len(<<x>>) = 1 /\ <<x>>[1] = x
      OBVIOUS
    <2>2. /\ q \in Seq(T) /\ Len(q) = Len(<<x>>) + Len(s)
          /\ \A n \in 1 .. Len(<<x>>) + Len(s) :
               q[n] = IF n <= Len(<<x>>) THEN <<x>>[n] ELSE s[n - Len(<<x>>)]
      BY <1>1, <2>1, ConcatProperties DEF AtFront
    <2>3. Len(s) \in Nat /\ DOMAIN s = 1 .. Len(s)
      BY LenProperties
    <2>4. DOMAIN q = 1 .. Len(q)
      BY <2>2, LenProperties
    <2> QED
      BY <2>1, <2>2, <2>3, <2>4
  <1>3. \A n \in DOMAIN q : n = 1 \/ (n - 1 \in DOMAIN s /\ q[n] = s[n - 1])
    BY <1>2
  <1>4. \A n \in DOMAIN s : n + 1 \in DOMAIN q /\ q[n + 1] = s[n]
    BY <1>2
  <1>5. Range(q) = Range(s) \cup {x}
    <2>1. \A y \in Range(q) : y \in Range(s) \cup {x}
      BY <1>2, <1>3 DEF Range
    <2>2. \A y \in Range(s) : y \in Range(q)
      BY <1>4 DEF Range
    <2>3. x \in Range(q)
      BY <1>2 DEF Range
    <2> QED
      BY <2>1, <2>2, <2>3
  <1>6. IsInjective(q)
    <2>1. ASSUME NEW a \in DOMAIN q, NEW b \in DOMAIN q, q[a] = q[b]
          PROVE  a = b
      <3>1. a = 1 <=> q[a] = x
        BY <1>2, <1>3 DEF Range
      <3>2. b = 1 <=> q[b] = x
        BY <1>2, <1>3 DEF Range
      <3>3. CASE a = 1
        BY <2>1, <3>1, <3>2, <3>3
      <3>4. CASE a # 1
        <4>1. a - 1 \in DOMAIN s /\ b - 1 \in DOMAIN s /\ s[a - 1] = s[b - 1]
          BY <1>3, <2>1, <3>1, <3>2, <3>4
        <4>2. a - 1 = b - 1
          BY <4>1 DEF IsInjective
        <4> QED
          BY <1>2, <4>2
      <3> QED
        BY <3>3, <3>4
    <2> QED
      BY <2>1 DEF IsInjective
  <1>7. q # << >>
    BY <1>2
  <1> QED
    BY <1>1, <1>2, <1>5, <1>6, <1>7

(* The accounts hold when it waits, and something will wake it. *)
LEMMA HandleNoMemAccounted ==
  ASSUME NEW t, NEW i \in IosOf(t), NEW s, NEW X, i \notin X, Accounted(t, s, X \cup {i})
  PROVE  /\ Accounted(t, handle_no_mem(s, i), X)
         /\ Awake(handle_no_mem(s, i))
         /\ Placed(s, handle_no_mem(s, i), i, "nomem")
  <1> DEFINE r == handle_no_mem(s, i)
  <1>2. i \in Ios /\ s \in LocalT(t) /\ s.io_outstanding \in Nat
    BY OutFinite DEF IosOf, Accounted, Counted
  <1>3. /\ r \in LocalT(t)
        /\ r.nomem_io = AtFront(i, s.nomem_io)
        /\ Polls(s, r)
        /\ r.io_outstanding = s.io_outstanding /\ r.ch_outstanding = s.ch_outstanding
        /\ Placed(s, r, i, "nomem")
    <2>1. s \in LocalT(t) /\ s.io_outstanding \in Nat
      BY <1>2
    <2>2. r \in LocalT(t)
      BY <2>1, HandleNoMemFacts
    <2>4. r.nomem_io = AtFront(i, s.nomem_io)
      BY <2>1, HandleNoMemFacts
    <2>5. Polls(s, r)
      BY <2>1, HandleNoMemFacts
    <2>6. r.io_outstanding = s.io_outstanding /\ r.ch_outstanding = s.ch_outstanding
      BY <2>1, HandleNoMemFacts
    <2>7. Placed(s, r, i, "nomem")
      BY <2>1, HandleNoMemFacts
    <2> QED
      BY <2>2, <2>4, <2>5, <2>6, <2>7
  <1> HIDE DEF r
  <1>4. Out(t, r.st, X) = Out(t, s.st, X \cup {i})
    BY <1>3, <1>2 DEF Out, IosOf, Placed
  <1>5. Counted(t, r, X)
    BY <1>3, <1>4 DEF Accounted, Counted
  <1>6. /\ s.nomem_io \in Seq(IosOf(t)) /\ i \notin Range(s.nomem_io) /\ IsInjective(s.nomem_io)
        /\ Range(s.nomem_io) = {j \in IosOf(t) \ (X \cup {i}) : s.st[j] = "nomem"}
    BY <1>2 DEF Accounted, Listed, LocalT
  <1>7. Range(r.nomem_io) = Range(s.nomem_io) \cup {i} /\ IsInjective(r.nomem_io)
    BY <1>3, <1>6, FrontFacts
  <1>8. Listed(t, r, X)
    BY <1>3, <1>6, <1>7 DEF Listed, IosOf, Placed
  <1>9. Awake(r)
    <2>1. CASE s.io_outstanding = 0
      <3>1. r.nomem_poller
        BY <1>3, <2>1, Zenon DEF Polls
      <3> QED
        BY <3>1, Zenon DEF Awake
    <2>2. CASE s.io_outstanding # 0
      <3>1. r.io_outstanding > 0
        BY <1>3, <1>2, <2>2
      <3> QED
        BY <3>1, Zenon DEF Awake
    <2> QED
      BY <2>1, <2>2
  <1> QED
    BY <1>3, <1>5, <1>8, <1>9 DEF Accounted, r

(* The first k elements of a list, and the rest of it. *)
First(s, k) == {s[n] : n \in 1 .. k}
Rest(s, k) == SubSeq(s, k + 1, Len(s))

(* The first k elements of a list without repetitions, and the rest of it. *)
LEMMA SplitFacts ==
  ASSUME NEW T, NEW s \in Seq(T), IsInjective(s), NEW k \in 0 .. Len(s)
  PROVE  /\ Rest(s, k) \in Seq(T)
         /\ IsInjective(Rest(s, k))
         /\ Range(Rest(s, k)) = Range(s) \ First(s, k)
         /\ First(s, k) \subseteq Range(s)
         /\ IsFiniteSet(First(s, k)) /\ Cardinality(First(s, k)) = k
  <1>0. Len(s) \in Nat /\ DOMAIN s = 1 .. Len(s) /\ k \in Nat /\ k <= Len(s)
    BY LenProperties
  <1>1. \A n \in 1 .. Len(s) : s[n] \in T
    BY ElementOfSeq
  <1>2. \A a, b \in 1 .. Len(s) : s[a] = s[b] => a = b
    BY <1>0 DEF IsInjective
  <1>3. PICK A : A = First(s, k) /\ A = {s[n] : n \in 1 .. k}
    BY DEF First
  <1>4. PICK q : q = Rest(s, k) /\ q = SubSeq(s, k + 1, Len(s))
    BY DEF Rest
  <1>5. /\ q \in Seq(T) /\ Len(q) = Len(s) - k
        /\ \A n \in 1 .. Len(s) - k : q[n] = s[k + n]
    <2>1. k + 1 \in Int /\ Len(s) \in Int /\ \A n \in k + 1 .. Len(s) : s[n] \in T
      BY <1>0, <1>1
    <2>2. /\ q \in Seq(T) /\ Len(q) = IF k + 1 <= Len(s) THEN Len(s) - (k + 1) + 1 ELSE 0
          /\ \A n \in 1 .. Len(s) - (k + 1) + 1 : q[n] = s[k + 1 + n - 1]
      BY <1>4, <2>1, SubSeqProperties
    <2>3. Len(q) = Len(s) - k
      <3>1. CASE k + 1 <= Len(s)
        <4>1. Len(q) = Len(s) - (k + 1) + 1
          BY <2>2, <3>1
        <4> QED
          BY <1>0, <4>1
      <3>2. CASE k = Len(s)
        <4>1. ~ (k + 1 <= Len(s)) /\ Len(s) - k = 0
          BY <1>0, <3>2
        <4> QED
          BY <2>2, <4>1
      <3>3. k + 1 <= Len(s) \/ k = Len(s)
        <4>1. \A a, b \in Nat : a <= b => a + 1 <= b \/ a = b
          OBVIOUS
        <4> QED
          BY <1>0, <4>1
      <3> QED
        BY <3>1, <3>2, <3>3
    <2>4. ASSUME NEW n \in 1 .. Len(s) - k
          PROVE  q[n] = s[k + n]
      <3>1. n \in 1 .. Len(s) - (k + 1) + 1 /\ k + 1 + n - 1 = k + n
        BY <1>0
      <3>2. q[n] = s[k + 1 + n - 1]
        BY <2>2, <3>1
      <3> QED
        BY <3>1, <3>2
    <2> QED
      BY <2>2, <2>3, <2>4
  <1>6. DOMAIN q = 1 .. Len(s) - k
    BY <1>5, LenProperties
  <1>7. \A n \in DOMAIN q : k + n \in k + 1 .. Len(s) /\ q[n] = s[k + n]
    BY <1>0, <1>5, <1>6
  <1>8. \A m \in k + 1 .. Len(s) : m - k \in DOMAIN q /\ q[m - k] = s[m]
    BY <1>0, <1>5, <1>6
  <1>9. IsInjective(q)
    <2>1. ASSUME NEW a \in DOMAIN q, NEW b \in DOMAIN q, q[a] = q[b]
          PROVE  a = b
      <3>1. k + a = k + b
        BY <1>0, <1>2, <1>7, <2>1
      <3> QED
        BY <1>0, <1>6, <3>1
    <2> QED
      BY <2>1 DEF IsInjective
  <1>10. Range(q) = Range(s) \ A
    <2>1. ASSUME NEW x \in Range(q)
          PROVE  x \in Range(s) /\ x \notin A
      <3>1. PICK n \in DOMAIN q : x = q[n]
        BY DEF Range
      <3>2. x = s[k + n] /\ k + n \in 1 .. Len(s)
        BY <1>0, <1>7, <3>1
      <3>3. ASSUME NEW m \in 1 .. k, x = s[m]
            PROVE  FALSE
        <4>0. m \in 1 .. Len(s) /\ s[m] = s[k + n]
          BY <1>0, <3>2, <3>3
        <4>1. m = k + n
          BY <1>2, <3>2, <4>0
        <4> QED
          BY <1>0, <1>6, <4>1
      <3> QED
        BY <1>0, <1>3, <3>2, <3>3 DEF Range
    <2>2. ASSUME NEW x \in Range(s), x \notin A
          PROVE  x \in Range(q)
      <3>1. PICK m \in 1 .. Len(s) : x = s[m]
        BY <1>0 DEF Range
      <3>2. m \in k + 1 .. Len(s)
        BY <1>0, <1>3, <2>2, <3>1
      <3> QED
        BY <1>8, <3>1, <3>2 DEF Range
    <2> QED
      BY <2>1, <2>2
  <1>11. A \subseteq Range(s)
    BY <1>0, <1>3 DEF Range
  <1>12. IsFiniteSet(A) /\ Cardinality(A) = k
    <2>1. PICK f : f = [n \in 1 .. k |-> s[n]]
      OBVIOUS
    <2>2. f \in [1 .. k -> A]
      BY <1>3, <2>1
    <2>3. \A a, b \in 1 .. k : f[a] = f[b] => a = b
      BY <1>0, <1>2, <2>1
    <2>4. \A x \in A : \E n \in 1 .. k : f[n] = x
      BY <1>3, <2>1
    <2>5. f \in Bijection(1 .. k, A)
      BY <2>2, <2>3, <2>4 DEF Bijection, Injection, Surjection, IsInjective
    <2>6. ExistsBijection(1 .. k, A)
      BY <2>5 DEF ExistsBijection
    <2>7. IsFiniteSet(1 .. k)
      BY <1>0, FS_Interval
    <2> QED
      BY <1>0, <2>6, <2>7, FS_CountingElements, FS_Bijection
  <1> QED
    BY <1>3, <1>4, <1>5, <1>9, <1>10, <1>11, <1>12

(* Disjoint sets add up. *)
LEMMA DisjointUnion ==
  ASSUME NEW A, NEW B, IsFiniteSet(A), IsFiniteSet(B), A \cap B = {}
  PROVE  Cardinality(A \cup B) = Cardinality(A) + Cardinality(B)
  <1>1. Cardinality(A \cup B) = Cardinality(A) + Cardinality(B) - Cardinality(A \cap B)
    BY FS_Union
  <1>2. Cardinality(A) \in Nat /\ Cardinality(B) \in Nat /\ Cardinality(A \cap B) = 0
    BY FS_CardinalityType, FS_EmptySet
  <1> QED
    BY <1>1, <1>2

(* I/O from the front of the list are with the module again. *)
LEMMA ResubmittedFacts ==
  ASSUME NEW t, NEW s \in LocalT(t), IsInjective(s.nomem_io), NEW k \in 0 .. Len(s.nomem_io),
         Cardinality(First(s.nomem_io, k) \cap OwnIos) \in Nat
  PROVE  /\ Resubmitted(s, k) \in LocalT(t)
         /\ Range(Resubmitted(s, k).nomem_io) = Range(s.nomem_io) \ First(s.nomem_io, k)
         /\ IsInjective(Resubmitted(s, k).nomem_io)
         /\ Resubmitted(s, k).io_outstanding = s.io_outstanding + k
         /\ Resubmitted(s, k).ch_outstanding
              = s.ch_outstanding + Cardinality(First(s.nomem_io, k) \cap OwnIos)
         /\ \A j \in Ios : Resubmitted(s, k).st[j] =
                             IF j \in First(s.nomem_io, k) THEN "module" ELSE s.st[j]
  <1>a. PICK A : A = First(s.nomem_io, k)
    OBVIOUS
  <1>c. PICK c \in Nat : c = Cardinality(A \cap OwnIos)
    BY <1>a
  <1>0. /\ s.nomem_io \in Seq(IosOf(t)) /\ s.io_outstanding \in Int /\ s.ch_outstanding \in Int
        /\ s.st \in [Ios -> Place]
    BY DEF LocalT
  <1>1. PICK q : q = Rest(s.nomem_io, k)
    OBVIOUS
  <1>2. /\ q \in Seq(IosOf(t)) /\ IsInjective(q)
        /\ Range(q) = Range(s.nomem_io) \ A
    BY <1>0, <1>1, <1>a, SplitFacts
  <1>3. PICK n \in Int : n = s.io_outstanding + k
    BY <1>0
  <1>4. PICK m \in Int : m = s.ch_outstanding + c
    <2>1. c \in Int
      BY <1>c
    <2>2. PICK d \in Int : d = s.ch_outstanding
      BY <1>0
    <2>3. d + c \in Int
      BY ONLY <2>1, d \in Int
    <2> QED
      BY <2>2, <2>3
  <1>5. PICK f : f = [i \in Ios |-> IF i \in A THEN "module" ELSE s.st[i]]
    OBVIOUS
  <1>6. f \in [Ios -> Place] /\ \A j \in Ios : f[j] = IF j \in A THEN "module" ELSE s.st[j]
    BY <1>0, <1>5 DEF Place
  <1>7. PICK r : r = [s EXCEPT !.nomem_io = q, !.st = f, !.io_outstanding = n, !.ch_outstanding = m]
    OBVIOUS
  <1>8. Resubmitted(s, k) = r
    BY <1>1, <1>3, <1>4, <1>5, <1>7, <1>a, <1>c DEF Resubmitted, First, Rest
  <1>9. /\ r \in LocalT(t) /\ r.nomem_io = q /\ r.io_outstanding = n /\ r.ch_outstanding = m
        /\ r.st = f
    BY <1>2, <1>6, <1>7 DEF LocalT
  <1> QED
    BY <1>2, <1>3, <1>4, <1>6, <1>8, <1>9, <1>a, <1>c

(* They are counted, and no longer listed. *)
LEMMA ResubmittedAccounted ==
  ASSUME NEW t, NEW s, NEW X, Accounted(t, s, X), NEW k \in 0 .. Len(s.nomem_io)
  PROVE  Accounted(t, Resubmitted(s, k), X) /\ Retried(t, s, Resubmitted(s, k), X)
  <1>0. /\ s \in LocalT(t) /\ s.nomem_io \in Seq(IosOf(t)) /\ IsInjective(s.nomem_io)
        /\ Range(s.nomem_io) = {j \in IosOf(t) \ X : s.st[j] = "nomem"}
    BY DEF Accounted, Listed, LocalT
  <1>1. PICK A : A = First(s.nomem_io, k)
    OBVIOUS
  <1>2. A \subseteq Range(s.nomem_io) /\ IsFiniteSet(A) /\ Cardinality(A) = k
    BY <1>0, <1>1, SplitFacts
  <1>3. IsFiniteSet(A \cap OwnIos) /\ Cardinality(A \cap OwnIos) \in Nat
    <2>1. A \cap OwnIos \in SUBSET A
      OBVIOUS
    <2> QED
      BY <1>2, <2>1, FS_Subset, FS_CardinalityType
  <1>4. PICK c \in Nat : c = Cardinality(A \cap OwnIos)
    BY <1>3
  <1> DEFINE r == Resubmitted(s, k)
             B == Out(t, s.st, X)
             C == Out(t, r.st, X)
  <1>5. /\ r \in LocalT(t) /\ Range(r.nomem_io) = Range(s.nomem_io) \ A
        /\ IsInjective(r.nomem_io)
        /\ r.io_outstanding = s.io_outstanding + k /\ r.ch_outstanding = s.ch_outstanding + c
        /\ \A j \in Ios : r.st[j] = IF j \in A THEN "module" ELSE s.st[j]
    BY <1>0, <1>1, <1>4, ResubmittedFacts
  <1> HIDE DEF r
  <1>6. C = B \cup A /\ B \cap A = {}
    BY <1>0, <1>2, <1>5 DEF Out, IosOf
  <1>7. C \cap OwnIos = (B \cap OwnIos) \cup (A \cap OwnIos)
        /\ (B \cap OwnIos) \cap (A \cap OwnIos) = {}
    BY <1>6
  <1>8. /\ IsFiniteSet(B) /\ IsFiniteSet(B \cap OwnIos)
        /\ Cardinality(B) \in Nat /\ Cardinality(B \cap OwnIos) \in Nat
    BY OutFinite
  <1>9. Counted(t, s, X)
    BY DEF Accounted
  <1>10. s.io_outstanding = Cardinality(B) /\ s.ch_outstanding = Cardinality(B \cap OwnIos)
    BY <1>9 DEF Counted
  <1> HIDE DEF B, C
  <1>11. Cardinality(C) = Cardinality(B) + k
    BY <1>2, <1>6, <1>8, DisjointUnion
  <1>12. Cardinality(C \cap OwnIos) = Cardinality(B \cap OwnIos) + c
    BY <1>3, <1>4, <1>7, <1>8, DisjointUnion
  <1>13. r.io_outstanding = Cardinality(C) /\ r.ch_outstanding = Cardinality(C \cap OwnIos)
    BY <1>5, <1>10, <1>11, <1>12
  <1>14. Counted(t, r, X)
    BY <1>13 DEF Counted, C
  <1>15. Listed(t, r, X)
    BY <1>0, <1>2, <1>5 DEF Listed, IosOf
  <1>16. Retried(t, s, r, X)
    BY <1>0, <1>2, <1>5 DEF Retried
  <1> QED
    BY <1>5, <1>14, <1>15, <1>16 DEF Accounted, r

(* A list without its head. *)
LEMMA TailFacts ==
  ASSUME NEW T, NEW s \in Seq(T), IsInjective(s), s # << >>
  PROVE  /\ Head(s) \in T /\ Head(s) \in Range(s) /\ Tail(s) \in Seq(T)
         /\ Range(Tail(s)) = Range(s) \ {Head(s)} /\ IsInjective(Tail(s))
  <1>1. PICK q : q = Tail(s)
    OBVIOUS
  <1>2. /\ Len(s) \in Nat /\ Len(s) # 0 /\ DOMAIN s = 1 .. Len(s) /\ q \in Seq(T)
        /\ Head(s) = s[1] /\ Head(s) \in T
        /\ DOMAIN q = 1 .. Len(s) - 1 /\ \A n \in 1 .. Len(s) - 1 : q[n] = s[n + 1]
    BY <1>1, HeadTailProperties, LenProperties, EmptySeq
  <1>3. \A n \in DOMAIN q : n + 1 \in DOMAIN s /\ n + 1 # 1 /\ q[n] = s[n + 1]
    BY <1>2
  <1>4. \A n \in DOMAIN s : n # 1 => n - 1 \in DOMAIN q /\ q[n - 1] = s[n]
    BY <1>2
  <1>5. \A a, b \in DOMAIN s : s[a] = s[b] => a = b
    BY DEF IsInjective
  <1>6. 1 \in DOMAIN s
    BY <1>2
  <1>7. Range(q) = Range(s) \ {Head(s)}
    <2>1. \A x \in Range(q) : x \in Range(s) /\ x # s[1]
      BY <1>3, <1>5, <1>6 DEF Range
    <2>2. \A x \in Range(s) : x # s[1] => x \in Range(q)
      BY <1>4 DEF Range
    <2> QED
      BY <1>2, <2>1, <2>2
  <1>8. IsInjective(q)
    <2>1. ASSUME NEW a \in DOMAIN q, NEW b \in DOMAIN q, q[a] = q[b]
          PROVE  a = b
      <3>1. a + 1 = b + 1
        BY <1>3, <1>5, <2>1
      <3> QED
        BY <1>2, <3>1
    <2> QED
      BY <2>1 DEF IsInjective
  <1>9. Head(s) \in Range(s)
    BY <1>2, <1>6 DEF Range
  <1> QED
    BY <1>1, <1>2, <1>7, <1>8, <1>9

(* The code takes the first waiting I/O from the list. *)
LEMMA TailAccounted ==
  ASSUME NEW t, NEW s, NEW X, Accounted(t, s, X), s.nomem_io # << >>
  PROVE  /\ Head(s.nomem_io) \in IosOf(t) \ X /\ s.st[Head(s.nomem_io)] = "nomem"
         /\ Accounted(t, [s EXCEPT !.nomem_io = Tail(@)], X \cup {Head(s.nomem_io)})
         /\ [s EXCEPT !.nomem_io = Tail(@)].st = s.st
  <1>0. /\ s \in LocalT(t) /\ s.nomem_io \in Seq(IosOf(t)) /\ IsInjective(s.nomem_io)
        /\ Range(s.nomem_io) = {j \in IosOf(t) \ X : s.st[j] = "nomem"}
        /\ s.io_outstanding = Cardinality(Out(t, s.st, X))
        /\ s.ch_outstanding = Cardinality(Out(t, s.st, X) \cap OwnIos)
    BY DEF Accounted, Listed, LocalT, Counted
  <1>1. PICK h : h = Head(s.nomem_io)
    OBVIOUS
  <1>2. PICK q : q = Tail(s.nomem_io)
    OBVIOUS
  <1>3. /\ h \in Range(s.nomem_io) /\ q \in Seq(IosOf(t))
        /\ Range(q) = Range(s.nomem_io) \ {h} /\ IsInjective(q)
    BY <1>0, <1>1, <1>2, TailFacts
  <1>4. PICK r : r = [s EXCEPT !.nomem_io = q]
    OBVIOUS
  <1>5. /\ r \in LocalT(t) /\ r.nomem_io = q /\ r.st = s.st
        /\ r.io_outstanding = s.io_outstanding /\ r.ch_outstanding = s.ch_outstanding
    BY <1>0, <1>3, <1>4 DEF LocalT
  <1>6. h \in IosOf(t) \ X /\ s.st[h] = "nomem"
    BY <1>0, <1>3
  <1>7. Out(t, r.st, X \cup {h}) = Out(t, s.st, X)
    BY <1>5, <1>6 DEF Out
  <1>8. Counted(t, r, X \cup {h})
    BY <1>0, <1>5, <1>7 DEF Counted
  <1>9. Listed(t, r, X \cup {h})
    BY <1>0, <1>3, <1>5 DEF Listed
  <1>10. Accounted(t, r, X \cup {h})
    BY <1>5, <1>8, <1>9 DEF Accounted
  <1> QED
    BY <1>1, <1>2, <1>4, <1>5, <1>6, <1>10

(* The waiting I/O are retried: the accounts hold, and what still waits will be woken. *)
LEMMA RetryAccounted ==
  ASSUME NEW t, NEW s, NEW X, Accounted(t, s, X), NEW r \in bdev_shared_ch_retry_io(s)
  PROVE  Accounted(t, r, X) /\ Awake(r) /\ Retried(t, s, r, X)
  <1>1. CASE s.io_outstanding > s.nomem_threshold
    <2>1. r = s
      BY <1>1 DEF bdev_shared_ch_retry_io
    <2>2. s.io_outstanding \in Int /\ s.nomem_threshold \in Nat
      BY DEF Accounted, LocalT
    <2>3. s.io_outstanding > 0
      BY <1>1, <2>2
    <2> QED
      BY <2>1, <2>3 DEF Awake, Retried
  <1>2. CASE ~ (s.io_outstanding > s.nomem_threshold)
    <2>1. PICK k \in 0 .. Len(s.nomem_io) :
            r = LET q == Resubmitted(s, k) IN
                IF q.nomem_io = << >> THEN q
                ELSE handle_no_mem([q EXCEPT !.nomem_io = Tail(@)], Head(q.nomem_io))
      BY <1>2, Zenon DEF bdev_shared_ch_retry_io
    <2>2. PICK q : q = Resubmitted(s, k)
      OBVIOUS
    <2>3. Accounted(t, q, X) /\ Retried(t, s, q, X)
      BY <2>2, ResubmittedAccounted
    <2>4. CASE q.nomem_io = << >>
      <3>1. r = q
        BY <2>1, <2>2, <2>4
      <3> QED
        BY <2>3, <2>4, <3>1 DEF Awake
    <2>5. CASE q.nomem_io # << >>
      <3>1. PICK h : h = Head(q.nomem_io)
        OBVIOUS
      <3>2. PICK u : u = [q EXCEPT !.nomem_io = Tail(@)]
        OBVIOUS
      <3>3. h \in IosOf(t) /\ h \notin X /\ q.st[h] = "nomem" /\ u.st = q.st
            /\ Accounted(t, u, X \cup {h})
        BY <2>3, <2>5, <3>1, <3>2, TailAccounted
      <3>4. r = handle_no_mem(u, h)
        BY <2>1, <2>2, <2>5, <3>1, <3>2
      <3>5. /\ Accounted(t, r, X) /\ Awake(r)
            /\ Placed(u, r, h, "nomem")
        BY <3>3, <3>4, HandleNoMemAccounted
      <3>6. \A j \in Ios : r.st[j] = q.st[j]
        BY <3>3, <3>5 DEF Placed
      <3>7. Retried(t, s, r, X)
        BY <2>3, <3>6 DEF Retried
      <3> QED
        BY <3>5, <3>7
    <2> QED
      BY <2>4, <2>5
  <1> QED
    BY <1>1, <1>2

(* The same when there may be no waiting I/O. *)
LEMMA RetryIfAnyAccounted ==
  ASSUME NEW t, NEW s, NEW X, Accounted(t, s, X), NEW r \in RetryIfAny(s)
  PROVE  Accounted(t, r, X) /\ Awake(r) /\ Retried(t, s, r, X)
  <1>1. CASE s.nomem_io = << >>
    BY <1>1 DEF RetryIfAny, Awake, Retried
  <1>2. CASE s.nomem_io # << >>
    BY <1>2, RetryAccounted DEF RetryIfAny
  <1> QED
    BY <1>1, <1>2

(* Only I/O of thread t move, and of those that are idle only I. *)
Moves(t, s, r, I) ==
  \A j \in Ios : r.st[j] = s.st[j] \/ (j \in IosOf(t) /\ (s.st[j] # "idle" \/ j \in I))

(* An I/O that the code holds completes, and the waiting ones are retried. *)
LEMMA HeldCompleted ==
  ASSUME NEW t, NEW i \in IosOf(t), NEW s, Accounted(t, s, {i}), NEW p \in {"idle", "deferred"},
         NEW r \in {Goes(u, i, p) : u \in RetryIfAny(s)}
  PROVE  Accounted(t, r, {}) /\ Awake(r) /\ Moves(t, s, r, {i})
  <1>1. PICK u \in RetryIfAny(s) : r = Goes(u, i, p)
    OBVIOUS
  <1>2. Accounted(t, u, {i}) /\ Awake(u) /\ Retried(t, s, u, {i})
    BY <1>1, RetryIfAnyAccounted
  <1>3. Accounted(t, r, {}) /\ Awake(r)
    BY <1>1, <1>2, GoesAccounted
  <1>4. Placed(u, r, i, p)
    <2>1. u \in LocalT(t) /\ i \in Ios /\ p \in Place
      BY <1>2 DEF Accounted, IosOf, Place
    <2>2. Placed(u, Goes(u, i, p), i, p)
      BY <2>1, GoesFacts
    <2> QED
      BY <1>1, <2>2
  <1>5. Moves(t, s, r, {i})
    BY <1>2, <1>4 DEF Moves, Retried, Placed
  <1> QED
    BY <1>3, <1>5

(* An I/O that was with the module or the accel framework completes. *)
LEMMA CompletedAccounted ==
  ASSUME NEW t, NEW i \in IosOf(t), NEW s, Accounted(t, s, {}), s.st[i] \in {"module", "accel"},
         NEW p \in {"idle", "deferred"}, NEW r \in Completed(s, i, p)
  PROVE  Accounted(t, r, {}) /\ Awake(r) /\ Moves(t, s, r, {})
  <1>1. PICK q : q = bdev_io_decrement_outstanding(s, i)
    OBVIOUS
  <1>2. Accounted(t, q, {i}) /\ q.st = s.st
    BY <1>1, DecrementAccounted
  <1>3. r \in {Goes(u, i, p) : u \in RetryIfAny(q)}
    BY <1>1 DEF Completed
  <1>4. Accounted(t, r, {}) /\ Awake(r) /\ Moves(t, q, r, {i})
    BY <1>2, <1>3, HeldCompleted
  <1>5. Moves(t, s, r, {})
    BY <1>2, <1>4 DEF Moves
  <1> QED
    BY <1>4, <1>5

(* An I/O that the code holds is counted and completed at once. *)
LEMMA CompletedInSubmit ==
  ASSUME NEW t, NEW i \in IosOf(t), NEW s, Accounted(t, s, {i}), NEW p \in {"idle", "deferred"},
         NEW r \in Completed(bdev_io_increment_outstanding(s, i), i, p)
  PROVE  Accounted(t, r, {}) /\ Awake(r) /\ Moves(t, s, r, {i})
  <1>1. s \in LocalT(t)
    BY DEF Accounted
  <1>2. bdev_io_decrement_outstanding(bdev_io_increment_outstanding(s, i), i) = s
    BY <1>1, IncrementDecrement
  <1>3. r \in {Goes(u, i, p) : u \in RetryIfAny(s)}
    BY <1>2 DEF Completed
  <1> QED
    BY <1>3, HeldCompleted

(* An I/O leaves the list it waits in. *)
LEMMA KeepAccounted ==
  ASSUME NEW t, NEW i \in IosOf(t), NEW s, Accounted(t, s, {}), s.st[i] = "nomem"
  PROVE  /\ Accounted(t, [s EXCEPT !.nomem_io = Keep(@, Ios \ {i})], {i})
         /\ [s EXCEPT !.nomem_io = Keep(@, Ios \ {i})].st = s.st
  <1>0. /\ s \in LocalT(t) /\ s.nomem_io \in Seq(IosOf(t)) /\ IsInjective(s.nomem_io)
        /\ Range(s.nomem_io) = {j \in IosOf(t) \ {} : s.st[j] = "nomem"}
        /\ s.io_outstanding = Cardinality(Out(t, s.st, {}))
        /\ s.ch_outstanding = Cardinality(Out(t, s.st, {}) \cap OwnIos)
    BY DEF Accounted, Listed, LocalT, Counted
  <1>1. PICK q : q = Keep(s.nomem_io, Ios \ {i})
    OBVIOUS
  <1>2. /\ q \in Seq(IosOf(t)) /\ Range(q) = Range(s.nomem_io) \cap (Ios \ {i}) /\ IsInjective(q)
    BY <1>0, <1>1, KeepFacts
  <1>3. PICK r : r = [s EXCEPT !.nomem_io = q]
    OBVIOUS
  <1>4. /\ r \in LocalT(t) /\ r.nomem_io = q /\ r.st = s.st
        /\ r.io_outstanding = s.io_outstanding /\ r.ch_outstanding = s.ch_outstanding
    BY <1>0, <1>2, <1>3 DEF LocalT
  <1>5. Out(t, r.st, {i}) = Out(t, s.st, {})
    BY <1>4 DEF Out
  <1>6. Counted(t, r, {i})
    BY <1>0, <1>4, <1>5 DEF Counted
  <1>7. Listed(t, r, {i})
    BY <1>0, <1>2, <1>4 DEF Listed, IosOf
  <1>8. Accounted(t, r, {i})
    BY <1>4, <1>6, <1>7 DEF Accounted
  <1> QED
    BY <1>1, <1>3, <1>4, <1>8

(* A waiting I/O is aborted. *)
LEMMA AbortAccounted ==
  ASSUME NEW t, NEW i \in IosOf(t), NEW s, Accounted(t, s, {}), s.st[i] = "nomem",
         NEW r \in bdev_abort_queued_io(s, i)
  PROVE  Accounted(t, r, {}) /\ Awake(r) /\ Moves(t, s, r, {})
  <1>1. PICK q : q = [s EXCEPT !.nomem_io = Keep(@, Ios \ {i})]
    OBVIOUS
  <1>2. Accounted(t, q, {i}) /\ q.st = s.st
    BY <1>1, KeepAccounted
  <1>3. r \in Completed(bdev_io_increment_outstanding(q, i), i, "idle")
    BY <1>1 DEF bdev_abort_queued_io
  <1>4. Accounted(t, r, {}) /\ Awake(r) /\ Moves(t, q, r, {i})
    BY <1>2, <1>3, CompletedInSubmit
  <1>5. Moves(t, s, r, {})
    BY <1>2, <1>4 DEF Moves
  <1> QED
    BY <1>4, <1>5

(* The module has no memory for an I/O that the code holds. *)
LEMMA NoMemMoves ==
  ASSUME NEW t, NEW i \in IosOf(t), NEW s, Accounted(t, s, {i})
  PROVE  /\ Accounted(t, handle_no_mem(s, i), {}) /\ Awake(handle_no_mem(s, i))
         /\ Moves(t, s, handle_no_mem(s, i), {i})
  <1>1. {} \cup {i} = {i} /\ i \notin {}
    OBVIOUS
  <1>2. Accounted(t, s, {} \cup {i})
    BY <1>1
  <1>3. /\ Accounted(t, handle_no_mem(s, i), {}) /\ Awake(handle_no_mem(s, i))
        /\ Placed(s, handle_no_mem(s, i), i, "nomem")
    BY <1>1, <1>2, HandleNoMemAccounted
  <1> QED
    BY <1>3 DEF Moves, Placed

(* An I/O is submitted. *)
LEMMA SubmitAccounted ==
  ASSUME NEW t, NEW i \in IosOf(t), NEW s, Accounted(t, s, {}), Awake(s), s.st[i] = "idle",
         NEW r \in bdev_io_do_submit(s, i)
  PROVE  Accounted(t, r, {}) /\ Awake(r) /\ Moves(t, s, r, {i})
  <1>0. s \in LocalT(t) /\ Accounted(t, s, {i}) /\ i \in Ios
    BY TakenUp DEF Accounted, IosOf
  <1>1. CASE s.nomem_io = << >>
    <2>1. PICK g : g = bdev_io_increment_outstanding(s, i)
      OBVIOUS
    <2>2. \/ r = Goes(g, i, "module")
          \/ r = handle_no_mem(bdev_io_decrement_outstanding(g, i), i)
          \/ r \in Completed(g, i, "deferred")
      BY <1>1, <2>1 DEF bdev_io_do_submit, SubmitToModule
    <2>3. CASE r = Goes(g, i, "module")
      <3>1. Accounted(t, r, {})
        BY <1>0, <2>1, <2>3, IncrementAccounted
      <3>2. /\ g \in LocalT(t) /\ g.nomem_io = s.nomem_io /\ g.st = s.st
        BY <1>0, <2>1, IncrementFacts
      <3>3. "module" \in Place
        BY DEF Place
      <3>4. /\ Goes(g, i, "module").nomem_io = g.nomem_io
            /\ Placed(g, Goes(g, i, "module"), i, "module")
        BY <1>0, <3>2, <3>3, GoesFacts
      <3> QED
        BY <1>1, <2>3, <3>1, <3>2, <3>4 DEF Awake, Moves, Placed
    <2>4. CASE r = handle_no_mem(bdev_io_decrement_outstanding(g, i), i)
      <3>1. r = handle_no_mem(s, i)
        BY <1>0, <2>1, <2>4, IncrementDecrement
      <3> QED
        BY <1>0, <3>1, NoMemMoves
    <2>5. CASE r \in Completed(g, i, "deferred")
      BY <1>0, <2>1, <2>5, CompletedInSubmit
    <2> QED
      BY <2>2, <2>3, <2>4, <2>5
  <1>2. CASE s.nomem_io # << >>
    <2>1. PICK q : q = [Goes(s, i, "nomem") EXCEPT !.nomem_io = Append(@, i)]
      OBVIOUS
    <2>2. r = q \/ r \in bdev_shared_ch_retry_io(q)
      BY <1>2, <2>1 DEF bdev_io_do_submit
    <2>3. Accounted(t, q, {}) /\ Awake(q) /\ Placed(s, q, i, "nomem")
      <3>1. PICK g : g = Goes(s, i, "nomem")
        OBVIOUS
      <3>2. "nomem" \in Place
        BY DEF Place
      <3>3. /\ g \in LocalT(t) /\ g.nomem_io = s.nomem_io /\ g.nomem_poller = s.nomem_poller
            /\ g.io_outstanding = s.io_outstanding /\ g.ch_outstanding = s.ch_outstanding
            /\ Placed(s, g, i, "nomem")
        BY <1>0, <3>1, <3>2, GoesFacts
      <3>4. /\ s.nomem_io \in Seq(IosOf(t)) /\ IsInjective(s.nomem_io)
            /\ Range(s.nomem_io) = {j \in IosOf(t) \ {i} : s.st[j] = "nomem"}
        BY <1>0 DEF Accounted, Listed, LocalT
      <3>5. PICK c : c = Append(s.nomem_io, i)
        OBVIOUS
      <3>6. c \in Seq(IosOf(t)) /\ Range(c) = Range(s.nomem_io) \cup {i} /\ IsInjective(c)
        BY <3>4, <3>5, AppendFacts
      <3>7. /\ q \in LocalT(t) /\ q.nomem_io = c /\ q.st = g.st
            /\ q.nomem_poller = g.nomem_poller
            /\ q.io_outstanding = g.io_outstanding /\ q.ch_outstanding = g.ch_outstanding
        BY <2>1, <3>1, <3>3, <3>5, <3>6 DEF LocalT
      <3>8. Out(t, q.st, {}) = Out(t, s.st, {i})
        BY <1>0, <3>3, <3>7 DEF Out, IosOf, Placed
      <3>9. Counted(t, q, {})
        BY <1>0, <3>3, <3>7, <3>8 DEF Accounted, Counted
      <3>10. Listed(t, q, {})
        BY <3>3, <3>4, <3>6, <3>7 DEF Listed, IosOf, Placed
      <3>11. Awake(q)
        <4>1. s.io_outstanding > 0 \/ s.nomem_poller
          BY <1>2, Zenon DEF Awake
        <4>2. q.io_outstanding = s.io_outstanding /\ q.nomem_poller = s.nomem_poller
          BY <3>3, <3>7
        <4> QED
          BY <4>1, <4>2, Zenon DEF Awake
      <3> QED
        BY <3>3, <3>7, <3>9, <3>10, <3>11 DEF Accounted, Placed
    <2>4. CASE r = q
      BY <2>3, <2>4 DEF Moves, Placed
    <2>5. CASE r \in bdev_shared_ch_retry_io(q)
      <3>1. Accounted(t, r, {}) /\ Awake(r) /\ Retried(t, q, r, {})
        BY <2>3, <2>5, RetryAccounted
      <3>2. Moves(t, s, r, {i})
        BY <2>3, <3>1 DEF Moves, Retried, Placed
      <3> QED
        BY <3>1, <3>2
    <2> QED
      BY <2>2, <2>4, <2>5
  <1> QED
    BY <1>1, <1>2

-----------------------------------------------------------------------------
(* The accounts of all threads. *)

ResT == [nomem_io : Seq(Ios), nomem_threshold : Nat, io_outstanding : Int,
         ch_outstanding : Int, nomem_poller : BOOLEAN]

AccInv ==
  /\ st \in [Ios -> Place] /\ res \in [Threads -> ResT]
  /\ \A t \in Threads : Accounted(t, Local(t), {}) /\ Awake(Local(t))

(* Thread t comes to s in a step that lets users start I/O only on channels they hold. *)
IoStep(t, s) ==
  /\ Accounted(t, s, {}) /\ Awake(s) /\ Becomes(t, s)
  /\ \E I : Moves(t, Local(t), s, I) /\ \A j \in I \cap OwnIos : IoThread[j] \in user

(* The fields of Local. *)
LEMMA LocalFacts ==
  ASSUME NEW t
  PROVE  /\ Local(t).st = st /\ Local(t).nomem_io = res[t].nomem_io
         /\ Local(t).nomem_threshold = res[t].nomem_threshold
         /\ Local(t).io_outstanding = res[t].io_outstanding
         /\ Local(t).ch_outstanding = res[t].ch_outstanding
         /\ Local(t).nomem_poller = res[t].nomem_poller
  BY DEF Local

(* An I/O belongs to its thread. *)
LEMMA ThreadOf ==
  ASSUME NEW i \in Ios
  PROVE  IoThread[i] \in Threads /\ i \in IosOf(IoThread[i])
  BY IosAssumption DEF IosOf

(* The accounts of a thread depend on its own I/O only. *)
LEMMA AccountedElsewhere ==
  ASSUME NEW t, NEW s, NEW r \in LocalT(t), Accounted(t, s, {}),
         r.nomem_io = s.nomem_io, r.io_outstanding = s.io_outstanding,
         r.ch_outstanding = s.ch_outstanding,
         \A j \in IosOf(t) : r.st[j] = s.st[j]
  PROVE  Accounted(t, r, {})
  <1>1. Out(t, r.st, {}) = Out(t, s.st, {})
    BY DEF Out
  <1>2. Counted(t, r, {})
    BY <1>1 DEF Accounted, Counted
  <1>3. Listed(t, r, {})
    BY DEF Accounted, Listed
  <1> QED
    BY <1>2, <1>3 DEF Accounted

(* A thread comes to s: the accounts of all threads hold. *)
LEMMA BecomesAccounted ==
  ASSUME AccInv, NEW t \in Threads, NEW s, IoStep(t, s)
  PROVE  AccInv'
  <1>0. /\ s \in LocalT(t) /\ Accounted(t, s, {}) /\ Awake(s)
        /\ st \in [Ios -> Place] /\ res \in [Threads -> ResT]
        /\ \A u \in Threads : Accounted(u, Local(u), {}) /\ Awake(Local(u))
    BY DEF IoStep, Accounted, AccInv
  <1>1. PICK x : x = [nomem_io |-> s.nomem_io, nomem_threshold |-> s.nomem_threshold,
                      io_outstanding |-> s.io_outstanding, ch_outstanding |-> s.ch_outstanding,
                      nomem_poller |-> s.nomem_poller]
    OBVIOUS
  <1>2. st' = s.st /\ res' = [res EXCEPT ![t] = x]
    BY <1>1 DEF IoStep, Becomes
  <1>3. /\ s.st \in [Ios -> Place] /\ s.nomem_io \in Seq(IosOf(t)) /\ s.nomem_threshold \in Nat
        /\ s.io_outstanding \in Int /\ s.ch_outstanding \in Int /\ s.nomem_poller \in BOOLEAN
    BY <1>0 DEF LocalT
  <1>4. s.nomem_io \in Seq(Ios)
    <2>1. IosOf(t) \subseteq Ios
      BY DEF IosOf
    <2> QED
      BY <1>3, <2>1
  <1>5. x \in ResT
    BY <1>1, <1>3, <1>4 DEF ResT
  <1>6. st' \in [Ios -> Place] /\ res' \in [Threads -> ResT]
    BY <1>0, <1>2, <1>3, <1>5
  <1>7. \A j \in Ios : j \notin IosOf(t) => st'[j] = st[j]
    BY <1>2, LocalFacts DEF IoStep, Moves
  <1>8. ASSUME NEW u \in Threads
        PROVE  Accounted(u, Local(u)', {}) /\ Awake(Local(u)')
    <2>1. PICK r : r = Local(u)'
      OBVIOUS
    <2>2. /\ r.st = st' /\ r.nomem_io = res'[u].nomem_io
          /\ r.nomem_threshold = res'[u].nomem_threshold
          /\ r.io_outstanding = res'[u].io_outstanding
          /\ r.ch_outstanding = res'[u].ch_outstanding
          /\ r.nomem_poller = res'[u].nomem_poller
      BY <2>1 DEF Local
    <2>3. CASE u = t
      <3>1. res'[u] = x
        BY <1>0, <1>2, <2>3
      <3>2. r = [st |-> s.st, nomem_io |-> s.nomem_io, nomem_threshold |-> s.nomem_threshold,
                 io_outstanding |-> s.io_outstanding, ch_outstanding |-> s.ch_outstanding,
                 nomem_poller |-> s.nomem_poller]
        BY <1>1, <1>2, <2>1, <3>1 DEF Local
      <3>3. r \in LocalT(t) /\ r = s
        BY <1>0, <1>3, <3>2 DEF LocalT
      <3> QED
        BY <1>0, <2>1, <2>3, <3>3
    <2>4. CASE u # t
      <3>1. res'[u] = res[u]
        BY <1>0, <1>2, <2>4
      <3>2. PICK l : l = Local(u)
        OBVIOUS
      <3>3. l \in LocalT(u) /\ Accounted(u, l, {}) /\ Awake(l)
        BY <1>0, <3>2 DEF Accounted
      <3>4. /\ l.st = st /\ l.nomem_io = res[u].nomem_io
            /\ l.nomem_threshold = res[u].nomem_threshold
            /\ l.io_outstanding = res[u].io_outstanding
            /\ l.ch_outstanding = res[u].ch_outstanding /\ l.nomem_poller = res[u].nomem_poller
        BY <3>2, LocalFacts
      <3>5. r \in LocalT(u)
        <4>1. r = [st |-> st', nomem_io |-> l.nomem_io, nomem_threshold |-> l.nomem_threshold,
                   io_outstanding |-> l.io_outstanding, ch_outstanding |-> l.ch_outstanding,
                   nomem_poller |-> l.nomem_poller]
          BY <2>1, <3>1, <3>4 DEF Local
        <4> QED
          BY <1>6, <3>3, <4>1 DEF LocalT
      <3>6. /\ r.nomem_io = l.nomem_io /\ r.io_outstanding = l.io_outstanding
            /\ r.ch_outstanding = l.ch_outstanding /\ r.nomem_poller = l.nomem_poller
        BY <2>2, <3>1, <3>4
      <3>7. \A j \in IosOf(u) : r.st[j] = l.st[j]
        BY <1>7, <2>2, <2>4, <3>4 DEF IosOf
      <3>8. Accounted(u, r, {})
        BY <3>3, <3>5, <3>6, <3>7, AccountedElsewhere
      <3>9. Awake(r)
        BY <3>3, <3>6, Zenon DEF Awake
      <3> QED
        BY <2>1, <3>8, <3>9
    <2> QED
      BY <2>3, <2>4
  <1> QED
    BY <1>6, <1>8 DEF AccInv

(* What each of the steps of the I/O makes of its thread. *)
LEMMA IoSteps ==
  ASSUME AccInv, NEW i \in Ios,
         \/ SubmitIo(i) \/ spdk_bdev_abort(i) \/ spdk_bdev_io_complete(i)
         \/ ModuleNoMem(i) \/ bdev_io_exec_sequence_cb(i)
  PROVE  \E s : IoStep(IoThread[i], s)
  <1>1. PICK t : t = IoThread[i]
    OBVIOUS
  <1>2. t \in Threads /\ i \in IosOf(t)
    BY <1>1, ThreadOf
  <1>3. PICK l : l = Local(t)
    OBVIOUS
  <1>4. Accounted(t, l, {}) /\ Awake(l) /\ l.st = st
    BY <1>2, <1>3, LocalFacts DEF AccInv
  <1> SUFFICES \E s : IoStep(t, s)
    BY <1>1
  <1>5. ASSUME NEW s, Accounted(t, s, {}), Awake(s), Moves(t, l, s, {}), Becomes(t, s)
        PROVE  IoStep(t, s)
    BY <1>3, <1>5 DEF IoStep
  <1>6. CASE SubmitIo(i)
    <2>1. PICK s \in _bdev_io_submit(t, i) : Becomes(t, s)
      BY <1>1, <1>6 DEF SubmitIo
    <2>2. l.st[i] = "idle" /\ (i \in OwnIos => t \in user)
      BY <1>1, <1>4, <1>6 DEF SubmitIo
    <2>3. Accounted(t, s, {}) /\ Awake(s) /\ Moves(t, l, s, {i})
      <3>1. CASE s \in _bdev_io_complete_in_submit(l, i)
        <4>1. Accounted(t, l, {i})
          BY <1>4, <2>2, TakenUp
        <4>2. s \in Completed(bdev_io_increment_outstanding(l, i), i, "deferred")
          BY <3>1 DEF _bdev_io_complete_in_submit
        <4> QED
          BY <1>2, <4>1, <4>2, CompletedInSubmit
      <3>2. CASE s \in bdev_io_do_submit(l, i)
        BY <1>2, <1>4, <2>2, <3>2, SubmitAccounted
      <3> QED
        BY <1>3, <2>1, <3>1, <3>2 DEF _bdev_io_submit
    <2> QED
      BY <1>1, <1>3, <2>1, <2>2, <2>3 DEF IoStep
  <1>7. CASE spdk_bdev_abort(i)
    <2>1. PICK q \in IF t \in frozen THEN {l} ELSE bdev_abort_queued_io(l, i) :
            \E s \in RetryIfAny(q) : Becomes(t, s)
      BY <1>1, <1>3, <1>7 DEF spdk_bdev_abort
    <2>2. PICK s \in RetryIfAny(q) : Becomes(t, s)
      BY <2>1
    <2>3. l.st[i] = "nomem"
      BY <1>4, <1>7 DEF spdk_bdev_abort
    <2>4. Accounted(t, q, {}) /\ Moves(t, l, q, {})
      <3>1. CASE q = l
        BY <1>4, <3>1 DEF Moves
      <3>2. CASE q \in bdev_abort_queued_io(l, i)
        BY <1>2, <1>4, <2>3, <3>2, AbortAccounted
      <3> QED
        BY <2>1, <3>1, <3>2
    <2>5. Accounted(t, s, {}) /\ Awake(s) /\ Retried(t, q, s, {})
      BY <2>2, <2>4, RetryIfAnyAccounted
    <2>6. Moves(t, l, s, {})
      BY <2>4, <2>5 DEF Moves, Retried
    <2> QED
      BY <1>5, <2>2, <2>5, <2>6
  <1>8. CASE spdk_bdev_io_complete(i)
    <2>1. l.st[i] = "module"
      BY <1>4, <1>8 DEF spdk_bdev_io_complete
    <2>2. \/ Becomes(t, Goes(l, i, "accel"))
          \/ \E s \in Completed(l, i, "idle") : Becomes(t, s)
      BY <1>1, <1>3, <1>8 DEF spdk_bdev_io_complete
    <2>3. CASE Becomes(t, Goes(l, i, "accel"))
      <3>1. PICK s : s = Goes(l, i, "accel")
        OBVIOUS
      <3>2. l \in LocalT(t) /\ "accel" \in Place
        BY <1>4 DEF Accounted, Place
      <3>3. /\ s \in LocalT(t) /\ s.nomem_io = l.nomem_io /\ s.nomem_poller = l.nomem_poller
            /\ s.io_outstanding = l.io_outstanding /\ s.ch_outstanding = l.ch_outstanding
            /\ Placed(l, s, i, "accel")
        BY <3>1, <3>2, GoesFacts
      <3>4. Out(t, s.st, {}) = Out(t, l.st, {})
        BY <2>1, <3>3 DEF Out, Placed, IosOf
      <3>5. Counted(t, s, {})
        BY <1>4, <3>3, <3>4 DEF Accounted, Counted
      <3>6. Listed(t, s, {})
        BY <1>4, <2>1, <3>3 DEF Accounted, Listed, Placed, IosOf
      <3>7. Awake(s)
        BY <1>4, <3>3, Zenon DEF Awake
      <3>8. Moves(t, l, s, {})
        BY <1>2, <2>1, <3>3 DEF Moves, Placed
      <3> QED
        BY <1>5, <2>3, <3>1, <3>3, <3>5, <3>6, <3>7, <3>8 DEF Accounted
    <2>4. CASE \E s \in Completed(l, i, "idle") : Becomes(t, s)
      <3>1. PICK s \in Completed(l, i, "idle") : Becomes(t, s)
        BY <2>4
      <3>2. Accounted(t, s, {}) /\ Awake(s) /\ Moves(t, l, s, {})
        BY <1>2, <1>4, <2>1, <3>1, CompletedAccounted
      <3> QED
        BY <1>5, <3>1, <3>2
    <2> QED
      BY <2>2, <2>3, <2>4
  <1>9. CASE ModuleNoMem(i)
    <2>1. l.st[i] = "module"
      BY <1>4, <1>9 DEF ModuleNoMem
    <2>2. PICK q : q = bdev_io_decrement_outstanding(l, i)
      OBVIOUS
    <2>3. Accounted(t, q, {i}) /\ q.st = l.st
      BY <1>2, <1>4, <2>1, <2>2, DecrementAccounted
    <2>4. PICK s : s = handle_no_mem(q, i)
      OBVIOUS
    <2>5. Accounted(t, s, {}) /\ Awake(s) /\ Moves(t, q, s, {i})
      BY <1>2, <2>3, <2>4, NoMemMoves
    <2>6. Moves(t, l, s, {})
      BY <2>1, <2>3, <2>5 DEF Moves
    <2>7. Becomes(t, s)
      BY <1>1, <1>3, <1>9, <2>2, <2>4 DEF ModuleNoMem
    <2> QED
      BY <1>5, <2>5, <2>6, <2>7
  <1>10. CASE bdev_io_exec_sequence_cb(i)
    <2>1. l.st[i] = "accel"
      BY <1>4, <1>10 DEF bdev_io_exec_sequence_cb
    <2>2. PICK s \in Completed(l, i, "idle") : Becomes(t, s)
      BY <1>1, <1>3, <1>10 DEF bdev_io_exec_sequence_cb
    <2>3. Accounted(t, s, {}) /\ Awake(s) /\ Moves(t, l, s, {})
      BY <1>2, <1>4, <2>1, <2>2, CompletedAccounted
    <2> QED
      BY <1>5, <2>2, <2>3
  <1> QED
    BY <1>6, <1>7, <1>8, <1>9, <1>10

(* The poller retries the waiting I/O, and stays as long as nothing else will. *)
LEMMA PollerStep ==
  ASSUME AccInv, NEW t \in Threads, bdev_no_mem_poller(t)
  PROVE  \E s : IoStep(t, s)
  <1>1. PICK l : l = Local(t)
    OBVIOUS
  <1>2. Accounted(t, l, {}) /\ l.st = st
    BY <1>1, LocalFacts DEF AccInv
  <1>3. PICK q \in RetryIfAny(l) :
          Becomes(t, [q EXCEPT !.nomem_poller = q.nomem_io # << >> /\ q.io_outstanding = 0])
    BY <1>1 DEF bdev_no_mem_poller
  <1>4. Accounted(t, q, {}) /\ Retried(t, l, q, {})
    BY <1>2, <1>3, RetryIfAnyAccounted
  <1>5. PICK b \in BOOLEAN : b = (q.nomem_io # << >> /\ q.io_outstanding = 0)
    OBVIOUS
  <1>6. PICK s : s = [q EXCEPT !.nomem_poller = b]
    OBVIOUS
  <1>7. Becomes(t, s)
    BY <1>3, <1>5, <1>6, Zenon
  <1>8. /\ s \in LocalT(t) /\ s.nomem_io = q.nomem_io /\ s.nomem_poller = b
        /\ s.io_outstanding = q.io_outstanding /\ s.ch_outstanding = q.ch_outstanding
        /\ s.st = q.st
    BY <1>4, <1>6 DEF Accounted, LocalT
  <1>9. Accounted(t, s, {})
    BY <1>4, <1>8, AccountedElsewhere
  <1>10. Awake(s)
    <2>1. CASE s.nomem_io # << >> /\ s.io_outstanding = 0
      <3>1. s.nomem_poller
        BY <1>5, <1>8, <2>1, Zenon
      <3> QED
        BY <3>1, Zenon DEF Awake
    <2>2. CASE s.nomem_io # << >> /\ s.io_outstanding # 0
      <3>1. s.io_outstanding \in Nat
        BY <1>9, OutFinite DEF Accounted, Counted
      <3>2. s.io_outstanding > 0
        BY <2>2, <3>1
      <3> QED
        BY <3>2, Zenon DEF Awake
    <2>3. CASE s.nomem_io = << >>
      BY <2>3, Zenon DEF Awake
    <2> QED
      BY <2>1, <2>2, <2>3
  <1>11. Moves(t, l, s, {})
    BY <1>4, <1>8 DEF Moves, Retried
  <1> QED
    BY <1>1, <1>7, <1>9, <1>10, <1>11 DEF IoStep

(* The waiting I/O of a channel are aborted. *)
LEMMA FreezeStep ==
  ASSUME AccInv, NEW t \in Threads, Becomes(t, bdev_abort_all_nomem_io(t))
  PROVE  /\ \E s : IoStep(t, s)
         /\ \A j \in Ios : st'[j] = IF j \in OwnIos \cap IosOf(t) /\ st[j] = "nomem"
                                   THEN "idle" ELSE st[j]
  <1>1. PICK l : l = Local(t)
    OBVIOUS
  <1>2. Accounted(t, l, {}) /\ Awake(l) /\ l.st = st /\ st \in [Ios -> Place]
    BY <1>1, LocalFacts DEF AccInv
  <1>3. /\ l \in LocalT(t) /\ l.nomem_io \in Seq(IosOf(t)) /\ IsInjective(l.nomem_io)
        /\ Range(l.nomem_io) = {j \in IosOf(t) \ {} : st[j] = "nomem"}
        /\ l.io_outstanding = Cardinality(Out(t, st, {}))
        /\ l.ch_outstanding = Cardinality(Out(t, st, {}) \cap OwnIos)
    BY <1>2 DEF Accounted, Listed, LocalT, Counted
  <1>4. PICK q : q = Keep(l.nomem_io, Ios \ OwnIos)
    OBVIOUS
  <1>5. q \in Seq(IosOf(t)) /\ Range(q) = Range(l.nomem_io) \cap (Ios \ OwnIos) /\ IsInjective(q)
    BY <1>3, <1>4, KeepFacts
  <1>6. PICK f : f = [i \in Ios |-> IF st[i] = "nomem" /\ i \in OwnIos \cap IosOf(t)
                                    THEN "idle" ELSE st[i]]
    OBVIOUS
  <1>7. /\ f \in [Ios -> Place]
        /\ \A j \in Ios : f[j] = IF j \in OwnIos \cap IosOf(t) /\ st[j] = "nomem"
                                THEN "idle" ELSE st[j]
    BY <1>2, <1>6 DEF Place
  <1>8. PICK s : s = [l EXCEPT !.nomem_io = q, !.st = f]
    OBVIOUS
  <1>9. Becomes(t, s)
    BY <1>1, <1>4, <1>6, <1>8 DEF bdev_abort_all_nomem_io
  <1>10. /\ s \in LocalT(t) /\ s.nomem_io = q /\ s.nomem_poller = l.nomem_poller
         /\ s.io_outstanding = l.io_outstanding /\ s.ch_outstanding = l.ch_outstanding
         /\ s.st = f
    BY <1>3, <1>5, <1>7, <1>8 DEF LocalT
  <1>11. Out(t, s.st, {}) = Out(t, st, {})
    BY <1>7, <1>10 DEF Out, IosOf
  <1>12. Counted(t, s, {})
    BY <1>3, <1>10, <1>11 DEF Counted
  <1>13. Listed(t, s, {})
    BY <1>3, <1>5, <1>7, <1>10 DEF Listed, IosOf
  <1>14. Awake(s)
    <2>1. ASSUME s.nomem_io # << >>
          PROVE  l.nomem_io # << >>
      <3>1. q # << >>
        BY <1>10, <2>1
      <3>2. Len(q) \in Nat /\ Len(q) # 0 /\ DOMAIN q = 1 .. Len(q)
        BY <1>5, <3>1, EmptySeq, LenProperties
      <3>3. q[1] \in Range(q)
        BY <3>2 DEF Range
      <3>4. q[1] \in Range(l.nomem_io)
        BY <1>5, <3>3
      <3> QED
        BY <3>4 DEF Range
    <2> QED
      BY <1>2, <1>10, <2>1, Zenon DEF Awake
  <1>15. Moves(t, l, s, {})
    BY <1>2, <1>7, <1>10 DEF Moves
  <1>16. IoStep(t, s)
    BY <1>1, <1>9, <1>10, <1>12, <1>13, <1>14, <1>15 DEF IoStep, Accounted
  <1>17. st' = f
    BY <1>9, <1>10 DEF Becomes
  <1> QED
    BY <1>7, <1>16, <1>17

(* A completion that was put off is run: the I/O was neither counted nor listed. *)
LEMMA DeferredAccounted ==
  ASSUME AccInv, NEW i \in Ios, bdev_io_complete(i)
  PROVE  AccInv'
  <1>1. /\ st[i] = "deferred" /\ st' = [st EXCEPT ![i] = "idle"] /\ res' = res
        /\ st \in [Ios -> Place] /\ res \in [Threads -> ResT]
    BY DEF bdev_io_complete, AccInv
  <1>2. st' \in [Ios -> Place] /\ \A j \in Ios : st'[j] = IF j = i THEN "idle" ELSE st[j]
    BY <1>1 DEF Place
  <1>3. ASSUME NEW t \in Threads
        PROVE  Accounted(t, Local(t)', {}) /\ Awake(Local(t)')
    <2>1. PICK l : l = Local(t)
      OBVIOUS
    <2>2. PICK r : r = Local(t)'
      OBVIOUS
    <2>3. l \in LocalT(t) /\ Counted(t, l, {}) /\ Listed(t, l, {}) /\ Awake(l)
      BY <2>1 DEF AccInv, Accounted
    <2>4. /\ l.st = st /\ l.nomem_io = res[t].nomem_io
          /\ l.nomem_threshold = res[t].nomem_threshold
          /\ l.io_outstanding = res[t].io_outstanding
          /\ l.ch_outstanding = res[t].ch_outstanding /\ l.nomem_poller = res[t].nomem_poller
      BY <2>1, LocalFacts
    <2>5. r = [st |-> st', nomem_io |-> l.nomem_io, nomem_threshold |-> l.nomem_threshold,
               io_outstanding |-> l.io_outstanding, ch_outstanding |-> l.ch_outstanding,
               nomem_poller |-> l.nomem_poller]
      BY <1>1, <2>2, <2>4 DEF Local
    <2>6. /\ r \in LocalT(t) /\ r.st = st' /\ r.nomem_io = l.nomem_io
          /\ r.io_outstanding = l.io_outstanding /\ r.ch_outstanding = l.ch_outstanding
          /\ r.nomem_poller = l.nomem_poller
      BY <1>2, <2>3, <2>5 DEF LocalT
    <2>7. Out(t, r.st, {}) = Out(t, l.st, {})
      BY <1>1, <1>2, <2>4, <2>6 DEF Out, IosOf
    <2>8. Counted(t, r, {})
      BY <2>3, <2>6, <2>7 DEF Counted
    <2>9. Listed(t, r, {})
      BY <1>1, <1>2, <2>3, <2>4, <2>6 DEF Listed, IosOf
    <2>10. Awake(r)
      BY <2>3, <2>6, Zenon DEF Awake
    <2> QED
      BY <2>2, <2>6, <2>8, <2>9, <2>10 DEF Accounted
  <1> QED
    BY <1>1, <1>2, <1>3 DEF AccInv

(* At the start nothing is outstanding and nothing waits. *)
LEMMA InitAccounted == Init => AccInv
  <1> SUFFICES ASSUME Init PROVE AccInv
    OBVIOUS
  <1>1. PICK x : x = [nomem_io |-> << >>, nomem_threshold |-> 0, io_outstanding |-> 0,
                      ch_outstanding |-> 0, nomem_poller |-> FALSE]
    OBVIOUS
  <1>2. st = [i \in Ios |-> "idle"] /\ res = [t \in Threads |-> x]
    BY <1>1 DEF Init
  <1>3. x \in ResT
    <2>1. << >> \in Seq(Ios)
      OBVIOUS
    <2> QED
      BY <1>1, <2>1 DEF ResT
  <1>4. st \in [Ios -> Place] /\ res \in [Threads -> ResT]
    BY <1>2, <1>3 DEF Place
  <1>5. ASSUME NEW t \in Threads
        PROVE  Accounted(t, Local(t), {}) /\ Awake(Local(t))
    <2>1. PICK l : l = Local(t)
      OBVIOUS
    <2>2. << >> \in Seq(IosOf(t))
      OBVIOUS
    <2>3. l = [st |-> st, nomem_io |-> << >>, nomem_threshold |-> 0, io_outstanding |-> 0,
               ch_outstanding |-> 0, nomem_poller |-> FALSE]
      BY <1>1, <1>2, <2>1 DEF Local
    <2>4. /\ l \in LocalT(t) /\ l.st = st /\ l.nomem_io = << >>
          /\ l.io_outstanding = 0 /\ l.ch_outstanding = 0
      BY <1>4, <2>2, <2>3 DEF LocalT
    <2>5. Out(t, l.st, {}) = {} /\ Out(t, l.st, {}) \cap OwnIos = {}
      BY <1>2, <2>4 DEF Out, IosOf
    <2>6. Counted(t, l, {})
      BY <2>4, <2>5, FS_EmptySet DEF Counted
    <2>7. Listed(t, l, {})
      <3>1. Range(<< >>) = {} /\ IsInjective(<< >>)
        BY DEF Range, IsInjective
      <3>2. {j \in IosOf(t) \ {} : l.st[j] = "nomem"} = {}
        BY <1>2, <2>4 DEF IosOf
      <3> QED
        BY <2>4, <3>1, <3>2 DEF Listed
    <2> QED
      BY <2>1, <2>4, <2>6, <2>7 DEF Accounted, Awake
  <1> QED
    BY <1>4, <1>5 DEF AccInv

(* Steps that leave the I/O alone. *)
LEMMA AccountedKept ==
  ASSUME AccInv, UNCHANGED <<st, res>>
  PROVE  AccInv'
  <1>1. \A t : Local(t)' = Local(t)
    BY DEF Local
  <1> QED
    BY <1>1 DEF AccInv

(* Every step preserves the accounts. *)
LEMMA NextAccounted == AccInv /\ FreezeInv /\ [Next]_vars => AccInv'
  <1> SUFFICES ASSUME AccInv, FreezeInv, [Next]_vars PROVE AccInv'
    OBVIOUS
  <1>1. CASE UNCHANGED vars
    BY <1>1, AccountedKept DEF vars
  <1>2. CASE \E i \in Ios : \/ SubmitIo(i) \/ spdk_bdev_abort(i) \/ spdk_bdev_io_complete(i)
                            \/ ModuleNoMem(i) \/ bdev_io_exec_sequence_cb(i)
    BY <1>2, IoSteps, ThreadOf, BecomesAccounted
  <1>3. CASE \E i \in Ios : bdev_io_complete(i)
    BY <1>3, DeferredAccounted
  <1>4. CASE \E t \in Threads : bdev_no_mem_poller(t)
    BY <1>4, PollerStep, BecomesAccounted
  <1>5. CASE bdev_reset_freeze_channel
    <2>1. at \in Threads /\ Becomes(at, bdev_abort_all_nomem_io(at))
      BY <1>5 DEF bdev_reset_freeze_channel, FreezeInv
    <2> QED
      BY <2>1, FreezeStep, BecomesAccounted
  <1>6. CASE \/ \E t \in Threads : \/ bdev_channel_create(t) \/ spdk_put_io_channel(t)
                                 \/ bdev_channel_destroy(t)
             \/ \E r \in Resets : spdk_bdev_reset(r) \/ _bdev_reset_complete(r)
             \/ PassOver \/ bdev_reset_freeze_channel_done
             \/ bdev_reset_check_outstanding_io \/ bdev_reset_check_outstanding_io_done
             \/ bdev_reset_poll_for_outstanding_io
             \/ bdev_unfreeze_channel \/ bdev_reset_complete \/ ModuleResetComplete
    <2>1. UNCHANGED <<st, res>>
      BY <1>6 DEF bdev_channel_create, spdk_put_io_channel, bdev_channel_destroy, spdk_bdev_reset,
           _bdev_reset_complete, PassOver, bdev_reset_freeze_channel_done,
           bdev_reset_check_outstanding_io, bdev_reset_check_outstanding_io_done,
           bdev_reset_poll_for_outstanding_io, bdev_unfreeze_channel, bdev_reset_complete,
           ModuleResetComplete
    <2> QED
      BY <2>1, AccountedKept
  <1> QED
    BY <1>1, <1>2, <1>3, <1>4, <1>5, <1>6 DEF Next, ResetWalk

-----------------------------------------------------------------------------
(* The rest of the types. *)

RestT ==
  /\ chan \subseteq Threads /\ user \subseteq chan /\ frozen \subseteq chan
  /\ reset \in [Resets -> {"idle", "current", "queued", "deferred"}]
  /\ current \in Resets \cup {NoReset}
  /\ queued \in Seq(Resets)
  /\ phase \in {"none", "freeze", "check", "wait", "module", "unfreeze"}
  /\ at \in Threads \cup {Done}
  /\ busy \in BOOLEAN /\ skipped \in BOOLEAN
  /\ older \subseteq chan /\ before \subseteq OwnIos /\ requeued \subseteq OwnIos

(* Steps of a thread on its I/O. *)
LEMMA BecomesRest ==
  ASSUME RestT, NEW t, NEW s, Becomes(t, s), frozen' \subseteq chan, at' \in Threads \cup {Done},
         UNCHANGED <<chan, user, reset, current, queued, phase, busy, older, skipped>>
  PROVE  RestT'
  <1>1. before' \subseteq OwnIos /\ requeued' \subseteq OwnIos
    BY DEF RestT, Becomes
  <1> QED
    BY <1>1 DEF RestT

(* Every step preserves them. *)
LEMMA NextRest == RestT /\ FreezeInv /\ [Next]_vars => RestT'
  <1> SUFFICES ASSUME RestT, FreezeInv, [Next]_vars PROVE RestT'
    OBVIOUS
  <1>0. FreezeInv'
    BY NextFreeze
  <1>1. CASE UNCHANGED vars
    BY <1>1 DEF vars, walk, history, RestT
  <1>2. ASSUME NEW i \in Ios, \/ SubmitIo(i) \/ spdk_bdev_abort(i) \/ spdk_bdev_io_complete(i)
                              \/ ModuleNoMem(i) \/ bdev_io_exec_sequence_cb(i)
        PROVE  RestT'
    <2>1. UNCHANGED <<chan, user, frozen, reset, current, queued, walk, older, skipped>>
      BY <1>2 DEF SubmitIo, spdk_bdev_abort, spdk_bdev_io_complete, ModuleNoMem,
                  bdev_io_exec_sequence_cb
    <2>2. \E s : Becomes(IoThread[i], s)
      BY <1>2 DEF SubmitIo, spdk_bdev_abort, spdk_bdev_io_complete, ModuleNoMem,
                  bdev_io_exec_sequence_cb
    <2>3. frozen' \subseteq chan /\ at' \in Threads \cup {Done}
      BY <2>1 DEF RestT, walk
    <2> QED
      BY <2>1, <2>2, <2>3, BecomesRest DEF walk
  <1>3. CASE \E i \in Ios : bdev_io_complete(i)
    BY <1>3 DEF bdev_io_complete, walk, history, RestT
  <1>4. ASSUME NEW t \in Threads, bdev_no_mem_poller(t)
        PROVE  RestT'
    <2>1. UNCHANGED <<chan, user, frozen, reset, current, queued, walk, older, skipped>>
      BY <1>4 DEF bdev_no_mem_poller
    <2>2. \E s : Becomes(t, s)
      BY <1>4 DEF bdev_no_mem_poller
    <2>3. frozen' \subseteq chan /\ at' \in Threads \cup {Done}
      BY <2>1 DEF RestT, walk
    <2> QED
      BY <2>1, <2>2, <2>3, BecomesRest DEF walk
  <1>5. CASE bdev_reset_freeze_channel
    <2>1. frozen' \subseteq chan /\ at' \in Threads \cup {Done}
      BY <1>0, <1>5 DEF RestT, FreezeInv, bdev_reset_freeze_channel
    <2> QED
      BY <1>5, <2>1, BecomesRest DEF bdev_reset_freeze_channel
  <1>6. CASE \E t \in Threads : \/ bdev_channel_create(t) \/ spdk_put_io_channel(t)
                               \/ bdev_channel_destroy(t)
    BY <1>6 DEF bdev_channel_create, spdk_put_io_channel, bdev_channel_destroy, walk, history,
                RestT
  <1>7. CASE \E r \in Resets : spdk_bdev_reset(r)
    <2>1. PICK r \in Resets : spdk_bdev_reset(r)
      BY <1>7
    <2>2. CASE current = NoReset
      <3>1. /\ current' = r /\ reset' = [reset EXCEPT ![r] = "current"]
            /\ phase' = "freeze" /\ at' = NextChannel(0) /\ busy' = FALSE
            /\ older' = chan /\ requeued' = {} /\ skipped' = FALSE /\ before' \subseteq OwnIos
            /\ UNCHANGED <<queued, chan, user, frozen>>
        BY <2>1, <2>2 DEF spdk_bdev_reset, StartWalk
      <3>2. at' \in Threads \cup {Done}
        BY <1>0 DEF FreezeInv
      <3> QED
        BY <3>1, <3>2 DEF RestT
    <2>3. CASE current # NoReset
      <3>1. /\ reset' = [reset EXCEPT ![r] = "queued"] /\ queued' = Append(queued, r)
            /\ UNCHANGED <<current, walk, history, chan, user, frozen>>
        BY <2>1, <2>3 DEF spdk_bdev_reset
      <3>2. queued' \in Seq(Resets)
        BY <3>1, AppendProperties DEF RestT
      <3>3. reset' \in [Resets -> {"idle", "current", "queued", "deferred"}]
        BY <3>1 DEF RestT
      <3> QED
        BY <3>1, <3>2, <3>3 DEF RestT, walk, history
    <2> QED
      BY <2>2, <2>3
  <1>8. CASE \E r \in Resets : _bdev_reset_complete(r)
    BY <1>8 DEF _bdev_reset_complete, walk, history, RestT
  <1>9. CASE PassOver \/ bdev_reset_freeze_channel_done \/ bdev_reset_check_outstanding_io
             \/ bdev_reset_check_outstanding_io_done \/ bdev_reset_poll_for_outstanding_io
             \/ bdev_unfreeze_channel \/ ModuleResetComplete
    <2>1. at' \in Threads \cup {Done} /\ frozen' \subseteq chan'
          /\ phase' \in {"none", "freeze", "check", "wait", "module", "unfreeze"}
      BY <1>0 DEF FreezeInv
    <2>2. UNCHANGED <<chan, user, reset, current, queued, older, before, requeued>>
      BY <1>9 DEF PassOver, bdev_reset_freeze_channel_done, bdev_reset_check_outstanding_io,
           bdev_reset_check_outstanding_io_done, bdev_reset_poll_for_outstanding_io,
           bdev_unfreeze_channel, ModuleResetComplete, history
    <2>3. busy' \in BOOLEAN
      <3>1. CASE bdev_reset_check_outstanding_io
        <4>1. busy' = (res[at].ch_outstanding > 0)
          BY <3>1, Zenon DEF bdev_reset_check_outstanding_io
        <4>2. (res[at].ch_outstanding > 0) \in BOOLEAN
          OBVIOUS
        <4> QED
          BY <4>1, <4>2, Zenon
      <3>2. CASE ~ bdev_reset_check_outstanding_io
        BY <1>9, <3>2 DEF PassOver, bdev_reset_freeze_channel_done,
           bdev_reset_check_outstanding_io_done, bdev_reset_poll_for_outstanding_io,
           bdev_unfreeze_channel, ModuleResetComplete, StartWalk, RestT
      <3> QED
        BY <3>1, <3>2
    <2>4. skipped' \in BOOLEAN
      BY <1>9 DEF PassOver, bdev_reset_freeze_channel_done, bdev_reset_check_outstanding_io,
           bdev_reset_check_outstanding_io_done, bdev_reset_poll_for_outstanding_io,
           bdev_unfreeze_channel, ModuleResetComplete, history, RestT
    <2> QED
      BY <2>1, <2>2, <2>3, <2>4 DEF RestT
  <1>10. CASE bdev_reset_complete
    <2>1. reset' \in [Resets -> {"idle", "current", "queued", "deferred"}]
      BY <1>10 DEF bdev_reset_complete, RestT
    <2>2. /\ queued' = << >> /\ current' = NoReset /\ phase' = "none"
          /\ older' = {} /\ before' = {} /\ requeued' = {} /\ skipped' = FALSE
          /\ UNCHANGED <<chan, user, frozen, at, busy>>
      BY <1>10 DEF bdev_reset_complete
    <2>3. << >> \in Seq(Resets)
      OBVIOUS
    <2> QED
      BY <2>1, <2>2, <2>3 DEF RestT
  <1> QED
    BY <1>1, <1>2, <1>3, <1>4, <1>5, <1>6, <1>7, <1>8, <1>9, <1>10 DEF Next, ResetWalk

(* Every I/O is counted while it is out and listed, once, while it waits; what waits will
   be woken: by the completion of I/O that is out, or by the poller. *)
THEOREM IosAccountedAlways == Spec => []IosAccounted
  <1>1. Init => FreezeInv
    BY NThreadsAssumption DEF Init, FreezeInv
  <1>2. Init => RestT
    <2>1. << >> \in Seq(Resets)
      OBVIOUS
    <2> QED
      BY <2>1 DEF Init, RestT
  <1>3. ASSUME AccInv, RestT
        PROVE  IosAccounted
    <2>1. \A t \in Threads : /\ Local(t) \in LocalT(t) /\ Counted(t, Local(t), {})
                            /\ Listed(t, Local(t), {}) /\ Awake(Local(t))
      BY <1>3 DEF AccInv, Accounted
    <2>2. ASSUME NEW t \in Threads
          PROVE  /\ res[t].nomem_io \in Seq(IosOf(t))
                 /\ res[t].nomem_threshold \in Nat /\ res[t].nomem_poller \in BOOLEAN
                 /\ res[t].io_outstanding = Cardinality(Out(t, st, {}))
                 /\ res[t].ch_outstanding = Cardinality(Out(t, st, {}) \cap OwnIos)
                 /\ Range(res[t].nomem_io) = {i \in IosOf(t) : st[i] = "nomem"}
                 /\ IsInjective(res[t].nomem_io)
      <3>1. PICK l : l = Local(t)
        OBVIOUS
      <3>2. /\ l.st = st /\ l.nomem_io = res[t].nomem_io
            /\ l.nomem_threshold = res[t].nomem_threshold
            /\ l.io_outstanding = res[t].io_outstanding
            /\ l.ch_outstanding = res[t].ch_outstanding /\ l.nomem_poller = res[t].nomem_poller
        BY <3>1, LocalFacts
      <3>3. l \in LocalT(t) /\ Counted(t, l, {}) /\ Listed(t, l, {})
        BY <2>1, <3>1
      <3>4. /\ res[t].nomem_io \in Seq(IosOf(t))
            /\ res[t].nomem_threshold \in Nat /\ res[t].nomem_poller \in BOOLEAN
        BY <3>2, <3>3 DEF LocalT
      <3>5. /\ res[t].io_outstanding = Cardinality(Out(t, st, {}))
            /\ res[t].ch_outstanding = Cardinality(Out(t, st, {}) \cap OwnIos)
        BY <3>2, <3>3 DEF Counted
      <3>6. /\ Range(res[t].nomem_io) = {i \in IosOf(t) : st[i] = "nomem"}
            /\ IsInjective(res[t].nomem_io)
        BY <3>2, <3>3 DEF Listed
      <3> QED
        BY <3>4, <3>5, <3>6
    <2>3. \A t : Out(t, st, {}) = {i \in IosOf(t) : st[i] \in {"module", "accel"}}
      BY DEF Out
    <2>4. OutstandingExact
      BY <2>2, <2>3 DEF OutstandingExact
    <2>5. WaitersListedOnce
      BY <2>2 DEF WaitersListedOnce
    <2>6. NomemNotStranded
      BY <2>1, LocalFacts, Zenon DEF NomemNotStranded, Awake
    <2>7. ASSUME NEW t \in Threads
          PROVE  res[t].io_outstanding \in Nat /\ res[t].ch_outstanding \in Nat
      <3>1. /\ Cardinality(Out(t, st, {})) \in Nat
            /\ Cardinality(Out(t, st, {}) \cap OwnIos) \in Nat
        BY OutFinite
      <3>2. /\ res[t].io_outstanding = Cardinality(Out(t, st, {}))
            /\ res[t].ch_outstanding = Cardinality(Out(t, st, {}) \cap OwnIos)
        BY <2>2
      <3> QED
        BY <3>1, <3>2
    <2>8. TypeOK
      <3>1. st \in [Ios -> {"idle", "module", "accel", "nomem", "deferred"}]
        BY <1>3 DEF AccInv, Place
      <3> QED
        BY <1>3, <2>2, <2>7, <3>1 DEF TypeOK, RestT
    <2> QED
      BY <2>4, <2>5, <2>6, <2>8 DEF IosAccounted
  <1> QED
    BY <1>1, <1>2, <1>3, InitAccounted, NextFreeze, NextRest, NextAccounted, PTL DEF Spec

-----------------------------------------------------------------------------
(* The drain. *)

(* I/O older than the reset are on older channels; on a frozen one they are out, or were
   given back since; the check has found none out on the channels it has visited. *)
DrainInv ==
  /\ \A i \in OwnIos : st[i] # "idle" => IoThread[i] \in user
  /\ \A i \in before : st[i] \in {"module", "accel", "nomem"} /\ IoThread[i] \in older
  /\ \A i \in before \ requeued : IoThread[i] \in frozen => st[i] \in {"module", "accel"}
  /\ phase = "check" /\ busy => at = Done
  /\ phase = "check" /\ ~busy => \A i \in before : IoThread[i] < at => i \in requeued
  /\ skipped => before \subseteq requeued

(* What a step of a thread makes of the I/O older than the reset. *)
LEMMA BecomesDrain ==
  ASSUME AccInv, RestT, DrainInv, NEW t \in Threads, NEW s, IoStep(t, s)
  PROVE  /\ \A i \in OwnIos : st'[i] # "idle" => IoThread[i] \in user
         /\ before' \subseteq before /\ before' \cap requeued \subseteq requeued'
         /\ \A i \in before' : st'[i] \in {"module", "accel", "nomem"}
         /\ \A i \in before' \ requeued' : IoThread[i] \in frozen => st'[i] \in {"module", "accel"}
  <1>1. OwnIos \subseteq Ios /\ before \subseteq OwnIos /\ st \in [Ios -> Place]
    BY IosAssumption DEF RestT, AccInv
  <1>2. st' = s.st /\ s.st \in [Ios -> Place] /\ Local(t).st = st
    BY LocalFacts DEF IoStep, Becomes, Accounted, LocalT
  <1>3. PICK I : Moves(t, Local(t), s, I) /\ \A j \in I \cap OwnIos : IoThread[j] \in user
    BY DEF IoStep
  <1>4. \A j \in Ios : st'[j] = st[j] \/ (j \in IosOf(t) /\ (st[j] # "idle" \/ j \in I))
    BY <1>2, <1>3 DEF Moves
  <1>5. /\ before' = before \ {i \in before : st'[i] \in {"idle", "deferred"}}
        /\ requeued' = (requeued \cup {i \in OwnIos \ requeued : t \in frozen /\ st[i] # "nomem"
                                                              /\ st'[i] = "nomem"})
                        \ {i \in before : st'[i] \in {"idle", "deferred"}}
    BY <1>2 DEF IoStep, Becomes
  <1>6. \A i \in OwnIos : st'[i] # "idle" => IoThread[i] \in user
    BY <1>1, <1>3, <1>4 DEF DrainInv
  <1>7. before' \subseteq before /\ before' \cap requeued \subseteq requeued'
    BY <1>5
  <1>8. \A i \in before' : st'[i] \in {"module", "accel", "nomem"}
    BY <1>1, <1>2, <1>5 DEF Place
  <1>9. ASSUME NEW i \in before', i \notin requeued', IoThread[i] \in frozen
        PROVE  st'[i] \in {"module", "accel"}
    <2>1. i \in before /\ i \notin requeued /\ i \in OwnIos /\ i \in Ios
      BY <1>1, <1>7, <1>9
    <2>2. st[i] \in {"module", "accel"}
      BY <1>9, <2>1 DEF DrainInv
    <2>3. CASE st'[i] = "nomem"
      <3>1. i \in IosOf(t)
        BY <1>4, <2>1, <2>2, <2>3
      <3>2. t \in frozen
        BY <1>9, <3>1 DEF IosOf
      <3>3. i \in requeued'
        BY <1>5, <1>9, <2>1, <2>2, <2>3, <3>2
      <3> QED
        BY <1>9, <3>3
    <2> QED
      BY <1>8, <1>9, <2>3
  <1> QED
    BY <1>6, <1>7, <1>8, <1>9

(* A thread's step that freezes nothing. *)
LEMMA IoStepDrain ==
  ASSUME AccInv, RestT, DrainInv, NEW t \in Threads, NEW s, IoStep(t, s),
         UNCHANGED <<chan, user, frozen, walk, older, skipped>>
  PROVE  DrainInv'
  BY BecomesDrain DEF DrainInv, walk

(* A channel is frozen, and its waiting I/O are aborted. *)
LEMMA FreezeDrain ==
  ASSUME AccInv, RestT, FreezeInv, DrainInv, bdev_reset_freeze_channel
  PROVE  DrainInv'
  <1>1. /\ at \in Threads /\ Becomes(at, bdev_abort_all_nomem_io(at)) /\ phase = "freeze"
        /\ frozen' = frozen \cup {at} /\ UNCHANGED <<user, phase, older, skipped>>
    BY DEF bdev_reset_freeze_channel, FreezeInv
  <1>2. /\ \E s : IoStep(at, s)
        /\ \A j \in Ios : st'[j] = IF j \in OwnIos \cap IosOf(at) /\ st[j] = "nomem"
                                  THEN "idle" ELSE st[j]
    BY <1>1, FreezeStep
  <1>3. /\ \A i \in OwnIos : st'[i] # "idle" => IoThread[i] \in user
        /\ before' \subseteq before /\ before' \cap requeued \subseteq requeued'
        /\ \A i \in before' : st'[i] \in {"module", "accel", "nomem"}
        /\ \A i \in before' \ requeued' : IoThread[i] \in frozen => st'[i] \in {"module", "accel"}
    BY <1>1, <1>2, BecomesDrain
  <1>4. ASSUME NEW i \in before', IoThread[i] = at
        PROVE  st'[i] # "nomem"
    <2>1. i \in OwnIos /\ i \in Ios
      BY <1>3, IosAssumption DEF RestT
    <2> QED
      BY <1>2, <1>4, <2>1 DEF IosOf
  <1> QED
    BY <1>1, <1>3, <1>4 DEF DrainInv

(* A channel is found without I/O. *)
LEMMA CheckDrain ==
  ASSUME AccInv, RestT, FreezeInv, DrainInv, bdev_reset_check_outstanding_io
  PROVE  DrainInv'
  <1>1. /\ phase = "check" /\ at \in chan /\ busy' = (res[at].ch_outstanding > 0)
        /\ at' = IF busy' THEN Done ELSE NextChannel(at)
        /\ UNCHANGED <<st, user, frozen, phase, older, before, requeued, skipped>>
    BY DEF bdev_reset_check_outstanding_io, history
  <1>2. ASSUME ~ busy', NEW i \in before, IoThread[i] < at'
        PROVE  i \in requeued
    <2>1. at' = NextChannel(at) /\ ~ (res[at].ch_outstanding > 0)
      BY <1>1, <1>2
    <2>2. at \in Threads /\ at \in 0 .. NThreads /\ chan \subseteq Threads
      BY <1>1, NThreadsAssumption DEF RestT, Threads
    <2>3. \A c \in chan : c < NextChannel(at) => c <= at
      BY <2>2, NextChannelSkipsNone
    <2>4. IoThread[i] \in older /\ IoThread[i] \in chan /\ IoThread[i] \in frozen
          /\ i \in OwnIos /\ i \in Ios
      BY <1>1, IosAssumption DEF DrainInv, RestT, FreezeInv
    <2>5. IoThread[i] <= at
      BY <1>2, <2>1, <2>3, <2>4
    <2>6. CASE IoThread[i] = at
      <3>1. SUFFICES ASSUME i \notin requeued PROVE FALSE
        OBVIOUS
      <3>2. st[i] \in {"module", "accel"}
        BY <2>4, <3>1 DEF DrainInv
      <3>3. i \in Out(at, st, {}) \cap OwnIos
        BY <2>4, <2>6, <3>2 DEF Out, IosOf
      <3>4. res[at].ch_outstanding = Cardinality(Out(at, st, {}) \cap OwnIos)
        <4>1. Counted(at, Local(at), {})
          BY <2>2 DEF AccInv, Accounted
        <4>2. Local(at).st = st /\ Local(at).ch_outstanding = res[at].ch_outstanding
          BY LocalFacts
        <4> QED
          BY <4>1, <4>2 DEF Counted
      <3>5. /\ IsFiniteSet(Out(at, st, {}) \cap OwnIos)
            /\ Cardinality(Out(at, st, {}) \cap OwnIos) \in Nat
        BY OutFinite
      <3>6. Cardinality(Out(at, st, {}) \cap OwnIos) # 0
        BY <3>3, <3>5, FS_EmptySet
      <3> QED
        BY <2>1, <3>4, <3>5, <3>6
    <2>7. CASE IoThread[i] # at
      <3>1. ~ busy
        BY <1>1, <2>2, NThreadsAssumption DEF DrainInv, Threads, Done
      <3>2. at \in Nat /\ IoThread[i] \in Nat
        <4>1. \A c \in Threads : c \in Nat
          BY NThreadsAssumption DEF Threads
        <4> QED
          BY <2>2, <2>4, <4>1
      <3>3. IoThread[i] < at
        BY <2>5, <2>7, <3>2
      <3> QED
        BY <1>1, <1>2, <3>1, <3>3 DEF DrainInv
    <2> QED
      BY <2>6, <2>7
  <1>3. phase' = "check" /\ ~ busy' => \A i \in before' : IoThread[i] < at' => i \in requeued'
    BY <1>1, <1>2
  <1> QED
    BY <1>1, <1>3 DEF DrainInv

(* The walk of the check goes on, ends, or starts again; the other walks. *)
LEMMA WalkDrain ==
  ASSUME AccInv, RestT, FreezeInv, DrainInv,
         \/ PassOver \/ bdev_reset_freeze_channel_done \/ bdev_reset_check_outstanding_io_done
         \/ bdev_reset_poll_for_outstanding_io \/ bdev_unfreeze_channel \/ ModuleResetComplete
  PROVE  DrainInv'
  <1>0. chan \subseteq Threads /\ chan \subseteq Nat /\ Done \in Nat /\ at \in Nat
    BY NThreadsAssumption DEF RestT, Threads, Done
  <1>1. \A i \in before : IoThread[i] \in chan /\ IoThread[i] \in Nat /\ IoThread[i] < Done
    <2>1. \A i \in before : IoThread[i] \in chan
      BY DEF DrainInv, RestT
    <2>2. \A c \in chan : c \in Nat /\ c < Done
      BY <1>0, NThreadsAssumption DEF Threads, Done
    <2> QED
      BY <2>1, <2>2
  <1>2. UNCHANGED <<st, user, older, before, requeued>> /\ frozen' \subseteq frozen
    BY DEF PassOver, bdev_reset_freeze_channel_done, bdev_reset_check_outstanding_io_done,
           bdev_reset_poll_for_outstanding_io, bdev_unfreeze_channel, ModuleResetComplete, history
  <1>3. /\ phase' = "check" /\ busy' => at' = Done
        /\ phase' = "check" /\ ~busy' => \A i \in before : IoThread[i] < at' => i \in requeued
    <2>1. CASE PassOver
      <3>1. /\ at \in 0 .. NThreads /\ at \notin chan /\ at' = NextChannel(at)
            /\ UNCHANGED <<phase, busy>> /\ at # Done
        BY <2>1, NThreadsAssumption DEF PassOver, Threads, Done
      <3>2. \A c \in chan : c < NextChannel(at) => c <= at
        BY <1>0, <3>1, NextChannelSkipsNone
      <3>3. \A c \in chan : c < NextChannel(at) => c < at
        BY <1>0, <3>1, <3>2
      <3> QED
        BY <1>1, <3>1, <3>3 DEF DrainInv
    <2>2. CASE StartWalk("check")
      <3>1. 0 \in 0 .. NThreads
        BY NThreadsAssumption
      <3>2. \A c \in chan : c < NextChannel(0) => c <= 0
        BY <1>0, <3>1, NextChannelSkipsNone
      <3>3. \A c \in chan : ~ (c <= 0)
        BY <1>0, NThreadsAssumption DEF Threads
      <3> QED
        BY <1>1, <2>2, <3>2, <3>3 DEF StartWalk
    <2>3. CASE phase' # "check"
      BY <2>3
    <2>4. PassOver \/ StartWalk("check") \/ phase' # "check"
      BY DEF bdev_reset_freeze_channel_done, bdev_reset_check_outstanding_io_done,
           bdev_reset_poll_for_outstanding_io, bdev_unfreeze_channel, ModuleResetComplete, StartWalk
    <2> QED
      BY <2>1, <2>2, <2>3, <2>4
  <1>4. skipped' => before \subseteq requeued
    <2>1. CASE skipped' = skipped
      BY <2>1 DEF DrainInv
    <2>2. CASE phase = "check" /\ at = Done /\ ~busy
      BY <1>1, <2>2 DEF DrainInv
    <2>3. skipped' = skipped \/ (phase = "check" /\ at = Done /\ ~busy)
      BY DEF PassOver, bdev_reset_freeze_channel_done, bdev_reset_check_outstanding_io_done,
           bdev_reset_poll_for_outstanding_io, bdev_unfreeze_channel, ModuleResetComplete, history
    <2> QED
      BY <2>1, <2>2, <2>3
  <1> QED
    BY <1>2, <1>3, <1>4 DEF DrainInv

(* A reset starts: all I/O that are out or wait are older than it. *)
LEMMA ResetDrain ==
  ASSUME AccInv, RestT, FreezeInv, DrainInv, NEW r \in Resets, spdk_bdev_reset(r)
  PROVE  DrainInv'
  <1>1. CASE current = NoReset
    <2>1. /\ older' = chan /\ requeued' = {} /\ skipped' = FALSE /\ phase' = "freeze"
          /\ before' = {i \in OwnIos : st[i] \in {"module", "accel", "nomem"}}
          /\ UNCHANGED <<st, user, frozen>>
      BY <1>1 DEF spdk_bdev_reset, StartWalk
    <2>2. frozen = {}
      BY <1>1 DEF FreezeInv
    <2>3. \A i \in before' : IoThread[i] \in chan
      BY <2>1 DEF DrainInv, RestT
    <2> QED
      BY <2>1, <2>2, <2>3 DEF DrainInv
  <1>2. CASE current # NoReset
    BY <1>2 DEF spdk_bdev_reset, walk, history, DrainInv
  <1> QED
    BY <1>1, <1>2

(* Channels come and go; the users of a channel that goes have no I/O. *)
LEMMA ChannelsDrain ==
  ASSUME AccInv, RestT, FreezeInv, DrainInv, NEW t \in Threads,
         bdev_channel_create(t) \/ spdk_put_io_channel(t) \/ bdev_channel_destroy(t)
  PROVE  DrainInv'
  <1>0. OwnIos \subseteq Ios /\ before \subseteq OwnIos
    BY IosAssumption DEF RestT
  <1>1. CASE bdev_channel_create(t)
    BY <1>1 DEF bdev_channel_create, walk, history, DrainInv
  <1>2. CASE spdk_put_io_channel(t)
    <2>1. /\ user' = user \ {t} /\ UNCHANGED <<st, chan, frozen, walk, history>>
          /\ \A i \in OwnIos \cap IosOf(t) : st[i] = "idle"
      BY <1>2 DEF spdk_put_io_channel
    <2>2. \A i \in OwnIos : st[i] # "idle" => IoThread[i] \in user'
      BY <1>0, <2>1 DEF DrainInv, IosOf
    <2> QED
      BY <2>1, <2>2 DEF DrainInv, walk, history
  <1>3. CASE bdev_channel_destroy(t)
    <2>1. /\ t \notin user /\ frozen' = frozen \ {t} /\ older' = older \ {t}
          /\ UNCHANGED <<st, user, walk, before, requeued, skipped>>
      BY <1>3 DEF bdev_channel_destroy
    <2>2. \A i \in before : IoThread[i] \in user
      BY <1>0 DEF DrainInv
    <2>3. \A i \in before : IoThread[i] \in older'
      BY <2>1, <2>2 DEF DrainInv
    <2> QED
      BY <2>1, <2>3 DEF DrainInv, walk
  <1> QED
    BY <1>1, <1>2, <1>3

(* Every step preserves the drain. *)
LEMMA NextDrain == AccInv /\ RestT /\ FreezeInv /\ DrainInv /\ [Next]_vars => DrainInv'
  <1> SUFFICES ASSUME AccInv, RestT, FreezeInv, DrainInv, [Next]_vars PROVE DrainInv'
    OBVIOUS
  <1>1. CASE UNCHANGED vars
    BY <1>1 DEF vars, walk, history, DrainInv
  <1>2. ASSUME NEW i \in Ios, \/ SubmitIo(i) \/ spdk_bdev_abort(i) \/ spdk_bdev_io_complete(i)
                              \/ ModuleNoMem(i) \/ bdev_io_exec_sequence_cb(i)
        PROVE  DrainInv'
    <2>1. UNCHANGED <<chan, user, frozen, walk, older, skipped>>
      BY <1>2 DEF SubmitIo, spdk_bdev_abort, spdk_bdev_io_complete, ModuleNoMem,
                  bdev_io_exec_sequence_cb
    <2>2. IoThread[i] \in Threads /\ \E s : IoStep(IoThread[i], s)
      BY <1>2, IoSteps, ThreadOf
    <2> QED
      BY <2>1, <2>2, IoStepDrain
  <1>3. ASSUME NEW i \in Ios, bdev_io_complete(i)
        PROVE  DrainInv'
    <2>1. /\ st[i] = "deferred" /\ st' = [st EXCEPT ![i] = "idle"] /\ st \in [Ios -> Place]
          /\ UNCHANGED <<user, frozen, walk, history>>
      BY <1>3 DEF bdev_io_complete, AccInv
    <2>2. \A j \in Ios : st'[j] = IF j = i THEN "idle" ELSE st[j]
      BY <2>1
    <2>3. OwnIos \subseteq Ios /\ before \subseteq OwnIos /\ i \notin before
      BY <2>1, IosAssumption DEF RestT, DrainInv
    <2>4. /\ \A j \in before : st'[j] = st[j]
          /\ \A j \in OwnIos : st'[j] # "idle" => st[j] # "idle"
      BY <2>2, <2>3
    <2> QED
      BY <2>1, <2>4 DEF DrainInv, walk, history
  <1>4. ASSUME NEW t \in Threads, bdev_no_mem_poller(t)
        PROVE  DrainInv'
    <2>1. UNCHANGED <<chan, user, frozen, walk, older, skipped>>
      BY <1>4 DEF bdev_no_mem_poller
    <2> QED
      BY <1>4, <2>1, PollerStep, IoStepDrain
  <1>5. CASE bdev_reset_freeze_channel
    BY <1>5, FreezeDrain
  <1>6. CASE \E t \in Threads : \/ bdev_channel_create(t) \/ spdk_put_io_channel(t)
                               \/ bdev_channel_destroy(t)
    BY <1>6, ChannelsDrain
  <1>7. CASE \E r \in Resets : spdk_bdev_reset(r)
    BY <1>7, ResetDrain
  <1>8. CASE \E r \in Resets : _bdev_reset_complete(r)
    BY <1>8 DEF _bdev_reset_complete, walk, history, DrainInv
  <1>9. CASE PassOver \/ bdev_reset_freeze_channel_done \/ bdev_reset_check_outstanding_io_done
             \/ bdev_reset_poll_for_outstanding_io \/ bdev_unfreeze_channel \/ ModuleResetComplete
    BY <1>9, WalkDrain
  <1>10. CASE bdev_reset_check_outstanding_io
    BY <1>10, CheckDrain
  <1>11. CASE bdev_reset_complete
    BY <1>11 DEF bdev_reset_complete, DrainInv
  <1> QED
    BY <1>1, <1>2, <1>3, <1>4, <1>5, <1>6, <1>7, <1>8, <1>9, <1>10, <1>11 DEF Next, ResetWalk

(* A reset is skipped only when every I/O submitted before it has completed, or was given
   back by the module on a channel that was already frozen. *)
THEOREM SkippedAfterDrainAlways == Spec => []SkippedAfterDrain
  <1>1. Init => FreezeInv
    BY NThreadsAssumption DEF Init, FreezeInv
  <1>2. Init => RestT
    <2>1. << >> \in Seq(Resets)
      OBVIOUS
    <2> QED
      BY <2>1 DEF Init, RestT
  <1>3. Init => DrainInv
    BY IosAssumption DEF Init, DrainInv
  <1>4. DrainInv => SkippedAfterDrain
    BY DEF DrainInv, SkippedAfterDrain
  <1> QED
    BY <1>1, <1>2, <1>3, <1>4, InitAccounted, NextFreeze, NextRest, NextAccounted, NextDrain, PTL
       DEF Spec
=============================================================================
