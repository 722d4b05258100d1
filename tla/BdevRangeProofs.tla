--------------------------- MODULE BdevRangeProofs ---------------------------
(***************************************************************************)
(* Proofs about BdevRange, for any number of threads, locks and I/Os: a    *)
(* locked range is exclusive (RangesExclude), and the copies on the        *)
(* channels and the queues behind them follow the bdev's list              *)
(* (RangesFollowed).                                                       *)
(*                                                                         *)
(* A lock is granted when its walk has been at every channel, while        *)
(* channels come and go and other locks walk too.  The invariant says what *)
(* holds behind the walk (Covered, Cleared) and, when it unlocks, what is  *)
(* left ahead of it (Behind).                                              *)
(***************************************************************************)
EXTENDS BdevRange, FiniteSetTheorems, SequenceTheorems, WellFoundedInduction, TLAPS

Copy == [lock : Locks, quiesce : BOOLEAN, owner : BOOLEAN]

(* I/O is under way only for users; the queues list what is held back.     *)
IoT ==
  /\ user \subseteq chan /\ chan \subseteq Threads
  /\ io \in [Ios -> {"idle", "submitted", "locked"}]
  /\ nomem \in 0 .. MaxNoMem
  /\ \A i \in Ios : io[i] # "idle" => IoThread[i] \in user

QueueOK ==
  /\ io_locked \in [Threads -> Seq(Ios)]
  /\ \A t \in Threads :
       /\ Range(io_locked[t]) = {i \in Ios : IoThread[i] = t /\ io[i] = "locked"}
       /\ IsInjective(io_locked[t])

(* The copies: only a quiesce's is quiesced, only another's has an owner.  *)
CopyT ==
  /\ ch_ranges \in [Threads -> SUBSET Copy]
  /\ \A t \in Threads \ chan : ch_ranges[t] = {}
  /\ \A t \in Threads : \A r \in ch_ranges[t] :
       (r.quiesce => r.lock \in Quiesces) /\ (r.owner => r.lock \notin Quiesces)

(* The bdev's lists follow the state of the locks. *)
Listed == {"msg", "locking", "held", "cleanup", "failed"}

LockT ==
  /\ lock \in [Locks -> LockState]
  /\ at \in [Locks -> Threads \cup {Done}]
  /\ waits \subseteq Locks
  /\ locked_ranges = {l \in Locks : lock[l] \in Listed}
  /\ \A l \in waits : lock[l] = "locking" /\ at[l] \in chan
  /\ \A l \in Locks : lock[l] = "held" => at[l] = Done

PendingOK ==
  /\ pending_locked_ranges \in Seq(Locks)
  /\ IsInjective(pending_locked_ranges)
  /\ Range(pending_locked_ranges) = {l \in Locks : lock[l] = "pending"}

ListDisjoint ==
  \A k, l \in locked_ranges : k # l => ~bdev_lba_range_overlapped(k, l)

(* Every channel the walk of a lock has passed has a copy. *)
Covered ==
  \A l \in Locks, t \in chan :
    lock[l] \in {"locking", "held"} /\ t < at[l] => \E r \in ch_ranges[t] : r.lock = l

(* And so has the channel where it waits. *)
WaitsCopied == \A l \in waits : \E r \in ch_ranges[at[l]] : r.lock = l

(* What is in flight on a channel passes its copies, or is waited for. *)
Cleared ==
  \A i \in Ios : \A r \in ch_ranges[IoThread[i]] :
    io[i] = "submitted" /\ bdev_io_range_is_locked(i, r)
    => r.lock \in waits /\ at[r.lock] = IoThread[i]

(* A copy the bdev does not list is ahead of the walk that drops it. *)
Behind ==
  \A t \in Threads : \A r \in ch_ranges[t] :
    r.lock \in locked_ranges \/ (lock[r.lock] = "unlocking" /\ at[r.lock] <= t)

(* The write of a compare-and-write is under way only while it has the lock. *)
OwnIo ==
  \A i \in Ios : IoLock[i] # NoLock /\ io[i] # "idle" => lock[IoLock[i]] = "held"

IndInv ==
  /\ IoT /\ QueueOK /\ CopyT /\ LockT /\ PendingOK
  /\ ListDisjoint /\ Covered /\ WaitsCopied /\ Cleared /\ Behind /\ OwnIo /\ HeldBackByRange
-----------------------------------------------------------------------------
(* Sets of numbers, and the next channel of a walk. *)

(* A set of natural numbers that is not empty has a least element. *)
LEMMA MinIsIn ==
  ASSUME NEW S \in SUBSET Nat, S # {}
  PROVE  Min(S) \in S /\ \A n \in S : Min(S) <= n
  <1>1. PICK x \in S : \A n \in S : ~ (<<n, x>> \in OpToRel(<, Nat))
    BY NatLessThanWellFounded, WFMin
  <1>2. \A n \in S : ~ (n < x)
    BY <1>1 DEF OpToRel
  <1>3. \A n \in S : x <= n
    BY <1>2
  <1> QED
    BY <1>3 DEF Min

(* NextChannel is the next thread with a channel, or Done. *)
LEMMA NextChannelFacts ==
  ASSUME chan \subseteq Threads, NEW t \in Nat, t <= NThreads
  PROVE  /\ NextChannel(t) \in chan \cup {Done}
         /\ NextChannel(t) \in Threads \cup {Done}
         /\ NextChannel(t) > t
         /\ \A u \in chan : u > t => NextChannel(t) <= u
  <1> DEFINE S == {u \in chan : u > t} \cup {Done}
  <1>1. NThreads \in Nat
    BY NThreadsAssumption
  <1>2. S \in SUBSET Nat /\ S # {} /\ \A u \in S : u > t
    <2>1. Done \in Nat /\ Done > t /\ \A u \in chan : u \in Nat
      BY <1>1 DEF Threads, Done
    <2> QED
      BY <2>1
  <1>3. Min(S) \in S /\ \A n \in S : Min(S) <= n
    BY <1>2, MinIsIn
  <1>4. NextChannel(t) = Min(S)
    BY DEF NextChannel
  <1> HIDE DEF S
  <1>5. NextChannel(t) \in S /\ \A n \in S : NextChannel(t) <= n
    BY <1>3, <1>4
  <1> USE DEF S
  <1> QED
    BY <1>2, <1>5

-----------------------------------------------------------------------------
(* Keep. *)

(* The elements of a finite set of numbers are ranked from 1 on. *)
LEMMA Ranked ==
  ASSUME NEW K \in SUBSET Nat, IsFiniteSet(K)
  PROVE  /\ Cardinality(K) \in Nat
         /\ \A n \in K : Cardinality({m \in K : m <= n}) \in 1 .. Cardinality(K)
         /\ \A k \in 1 .. Cardinality(K) : \E n \in K : Cardinality({m \in K : m <= n}) = k
         /\ \A a, b \in K :
              Cardinality({m \in K : m <= a}) = Cardinality({m \in K : m <= b}) => a = b
  <1> DEFINE Up(n) == {m \in K : m <= n}
             N == Cardinality(K)
             f == [n \in K |-> Cardinality(Up(n))]
  <1>1. N \in Nat
    BY FS_CardinalityType
  <1>2. ASSUME NEW n \in K
        PROVE  IsFiniteSet(Up(n)) /\ Cardinality(Up(n)) \in 1 .. N
    <2>1. Up(n) \in SUBSET K /\ n \in Up(n)
      OBVIOUS
    <2> HIDE DEF Up
    <2>2. IsFiniteSet(Up(n)) /\ Cardinality(Up(n)) <= N
      BY <2>1, FS_Subset
    <2>3. Cardinality(Up(n)) \in Nat /\ Cardinality(Up(n)) # 0
      BY <2>1, <2>2, FS_CardinalityType, FS_EmptySet
    <2> QED
      BY <1>1, <2>2, <2>3
  <1>3. ASSUME NEW a \in K, NEW b \in K, a < b
        PROVE  Cardinality(Up(a)) # Cardinality(Up(b))
    <2>1. Up(a) \in SUBSET Up(b) /\ b \in Up(b) /\ b \notin Up(a)
      <3>1. a \in Nat /\ b \in Nat /\ \A m \in K : m \in Nat
        OBVIOUS
      <3>2. \A m \in K : m <= a => m <= b
        BY <1>3, <3>1
      <3>3. b <= b /\ ~ (b <= a)
        BY <1>3, <3>1
      <3> QED
        BY <3>2, <3>3
    <2>2. IsFiniteSet(Up(b))
      BY <1>2
    <2> HIDE DEF Up
    <2> QED
      BY <2>1, <2>2, FS_Subset
  <1>4. ASSUME NEW a \in K, NEW b \in K, Cardinality(Up(a)) = Cardinality(Up(b))
        PROVE  a = b
    <2>1. a \in Nat /\ b \in Nat
      OBVIOUS
    <2> HIDE DEF Up
    <2>2. ~ (a < b) /\ ~ (b < a)
      BY <1>3, <1>4
    <2> QED
      BY <2>1, <2>2
  <1> HIDE DEF Up, N
  <1>5. f \in [K -> 1 .. N]
    BY <1>2
  <1>6. f \in Injection(K, 1 .. N)
    BY <1>4, <1>5 DEF Injection, IsInjective
  <1>7. IsFiniteSet(1 .. N) /\ Cardinality(1 .. N) = N
    BY <1>1, FS_Interval
  <1>8. f \in Surjection(K, 1 .. N)
    <2> HIDE DEF f
    <2> QED
      BY <1>6, <1>7, FS_Injection DEF N
  <1>9. \A k \in 1 .. N : \E n \in K : f[n] = k
    <2> HIDE DEF f
    <2> QED
      BY <1>8 DEF Surjection
  <1>10. \A k \in 1 .. N : \E n \in K : Cardinality(Up(n)) = k
    BY <1>9
  <1> QED
    BY <1>1, <1>2, <1>4, <1>10 DEF Up, N

(* Keep has the elements that are in S, and no more often than s. *)
LEMMA KeepFacts ==
  ASSUME NEW T, NEW s \in Seq(T), NEW S
  PROVE  /\ Keep(s, S) \in Seq(T)
         /\ Range(Keep(s, S)) = Range(s) \cap S
         /\ IsInjective(s) => IsInjective(Keep(s, S))
  <1> DEFINE K == {n \in DOMAIN s : s[n] \in S}
             Rank(n) == Cardinality({m \in K : m <= n})
             N == Cardinality(K)
             c == [k \in 1 .. N |-> CHOOSE n \in K : Rank(n) = k]
             q == Keep(s, S)
  <1>1. Len(s) \in Nat /\ DOMAIN s = 1 .. Len(s) /\ \A n \in DOMAIN s : s[n] \in T
    BY LenProperties, ElementOfSeq
  <1>2. K \in SUBSET Nat /\ K \subseteq 1 .. Len(s) /\ K \in SUBSET (1 .. Len(s))
    BY <1>1
  <1>3. IsFiniteSet(K)
    <2>1. IsFiniteSet(1 .. Len(s))
      BY <1>1, FS_Interval
    <2> HIDE DEF K
    <2> QED
      BY <1>2, <2>1, FS_Subset
  <1>4. \A n \in K : n \in DOMAIN s /\ s[n] \in S /\ s[n] \in T
    BY <1>1
  <1>5. \A n \in DOMAIN s : s[n] \in S => n \in K
    OBVIOUS
  <1>6. q = [k \in 1 .. N |-> s[CHOOSE n \in K : Rank(n) = k]]
    BY DEF Keep
  <1> HIDE DEF K, q
  <1>7. /\ N \in Nat
        /\ \A n \in K : Rank(n) \in 1 .. N
        /\ \A k \in 1 .. N : \E n \in K : Rank(n) = k
        /\ \A a, b \in K : Rank(a) = Rank(b) => a = b
    BY <1>2, <1>3, Ranked
  <1> HIDE DEF Rank, N
  <1>8. \A k \in 1 .. N : c[k] \in K /\ Rank(c[k]) = k
    BY <1>7
  <1>9. DOMAIN q = 1 .. N /\ \A k \in 1 .. N : q[k] = s[c[k]]
    BY <1>6
  <1>10. q = [k \in 1 .. N |-> q[k]]
    BY <1>6
  <1> HIDE DEF c
  <1>11. q \in Seq(T)
    <2>1. \A k \in 1 .. N : q[k] \in T
      BY <1>4, <1>8, <1>9
    <2>2. q \in [1 .. N -> T]
      BY <1>10, <2>1
    <2> QED
      BY <1>7, <2>2
  <1>12. \A n \in K : c[Rank(n)] = n
    BY <1>7, <1>8
  <1>13. Range(q) = Range(s) \cap S
    <2>1. \A x \in Range(q) : x \in Range(s) /\ x \in S
      BY <1>4, <1>8, <1>9 DEF Range
    <2>2. ASSUME NEW x \in Range(s), x \in S
          PROVE  x \in Range(q)
      <3>1. PICK n \in DOMAIN s : x = s[n]
        BY DEF Range
      <3>2. n \in K
        BY <1>5, <2>2, <3>1
      <3>3. Rank(n) \in 1 .. N /\ q[Rank(n)] = x
        BY <1>7, <1>9, <1>12, <3>1, <3>2
      <3> QED
        BY <1>9, <3>3 DEF Range
    <2> QED
      BY <2>1, <2>2
  <1>14. ASSUME IsInjective(s)
         PROVE  IsInjective(q)
    <2>1. \A a, b \in DOMAIN s : s[a] = s[b] => a = b
      BY <1>14 DEF IsInjective
    <2>2. ASSUME NEW a \in 1 .. N, NEW b \in 1 .. N, q[a] = q[b]
          PROVE  a = b
      <3>1. c[a] = c[b]
        BY <1>4, <1>8, <1>9, <2>1, <2>2
      <3> QED
        BY <1>8, <3>1
    <2> QED
      BY <1>9, <2>2 DEF IsInjective
  <1> QED
    BY <1>11, <1>13, <1>14 DEF q
(* Appending what is not there yet. *)
LEMMA AppendFacts ==
  ASSUME NEW T, NEW s \in Seq(T), NEW x \in T, x \notin Range(s), IsInjective(s)
  PROVE  /\ Append(s, x) \in Seq(T)
         /\ Range(Append(s, x)) = Range(s) \cup {x}
         /\ IsInjective(Append(s, x))
  <1> DEFINE q == Append(s, x)
  <1>1. /\ q \in Seq(T) /\ Len(s) \in Nat /\ DOMAIN s = 1 .. Len(s)
        /\ DOMAIN q = 1 .. Len(s) + 1 /\ q[Len(s) + 1] = x
        /\ \A n \in 1 .. Len(s) : q[n] = s[n]
    BY AppendProperties
  <1> HIDE DEF q
  <1>2. \A n \in DOMAIN q : n \in DOMAIN s \/ n = Len(s) + 1
    BY <1>1
  <1>3. \A n \in DOMAIN s : n \in DOMAIN q
    BY <1>1
  <1>4. Range(q) = Range(s) \cup {x}
    BY <1>1, <1>2, <1>3 DEF Range
  <1>5. IsInjective(q)
    BY <1>1, <1>2 DEF Range, IsInjective
  <1> QED
    BY <1>1, <1>4, <1>5 DEF q

-----------------------------------------------------------------------------
(* Overlap and what is in the way. *)

(* Overlapping is symmetric. *)
LEMMA OverlapSymmetric ==
  ASSUME NEW x \in Locks \cup Ios, NEW y \in Locks \cup Ios,
         bdev_lba_range_overlapped(x, y)
  PROVE  bdev_lba_range_overlapped(y, x)
  BY IosAssumption DEF bdev_lba_range_overlapped

(* No copy of a lock is stricter than the one its walk makes. *)
LEMMA CopyOfStrictest ==
  ASSUME NEW i \in Ios, NEW r \in Copy, r.quiesce => r.lock \in Quiesces,
         bdev_io_range_is_locked(i, r)
  PROVE  bdev_io_range_is_locked(i, CopyOf(r.lock))
  BY DEF bdev_io_range_is_locked, CopyOf, Copy

(* To have the owner in a copy lets pass only the owner's write. *)
LEMMA OwnerLetsPass ==
  ASSUME NEW i \in Ios, NEW r \in Copy, NEW o \in BOOLEAN,
         bdev_io_range_is_locked(i, r), IoLock[i] # r.lock
  PROVE  bdev_io_range_is_locked(i, [r EXCEPT !.owner = o])
  BY DEF bdev_io_range_is_locked, Copy

(* And holds back nothing more. *)
LEMMA OwnerHoldsNoMore ==
  ASSUME NEW i \in Ios, NEW r \in Copy, NEW p \in BOOLEAN,
         bdev_io_range_is_locked(i, [r EXCEPT !.owner = r.owner \/ p])
  PROVE  bdev_io_range_is_locked(i, r)
  BY DEF bdev_io_range_is_locked, Copy

-----------------------------------------------------------------------------
(* Steps. *)

(* Init. *)
LEMMA InitInv == Init => IndInv
  <1> SUFFICES ASSUME Init PROVE IndInv
    OBVIOUS
  <1> USE DEF Init
  <1>1. IoT
    BY NThreadsAssumption DEF IoT
  <1>2. QueueOK
    BY DEF QueueOK, Range, IsInjective
  <1>3. CopyT
    BY DEF CopyT
  <1>4. LockT
    BY DEF LockT, LockState, Listed
  <1>5. PendingOK
    BY DEF PendingOK, Range, IsInjective
  <1>6. ListDisjoint /\ Covered /\ WaitsCopied /\ Cleared /\ Behind /\ OwnIo
    BY DEF ListDisjoint, Covered, WaitsCopied, Cleared, Behind, OwnIo
  <1>7. HeldBackByRange
    BY DEF HeldBackByRange
  <1> QED
    BY <1>1, <1>2, <1>3, <1>4, <1>5, <1>6, <1>7 DEF IndInv

(* bdev_io_submit. *)
LEMMA SubmitInv ==
  ASSUME IndInv, NEW i \in Ios, bdev_io_submit(i)
  PROVE  IndInv'
  <1> DEFINE t == IoThread[i]
  <1>0. t \in Threads
    BY IosAssumption
  <1>1. /\ io[i] = "idle" /\ t \in user /\ (IoLock[i] # NoLock => lock[IoLock[i]] = "held")
        /\ UNCHANGED <<chan, user, ch_ranges, locked_ranges, pending_locked_ranges, lock, at, waits, nomem>>
    BY DEF bdev_io_submit
  <1>2. /\ io' \in [Ios -> {"idle", "submitted", "locked"}]
        /\ \A j \in Ios : j # i => io'[j] = io[j]
        /\ io'[i] = IF Held(i, ch_ranges[t]) THEN "locked" ELSE "submitted"
    BY DEF bdev_io_submit, IndInv, IoT
  <1>3. IoT'
    BY <1>1, <1>2 DEF IndInv, IoT
  <1>4. QueueOK'
    <2>1. CASE Held(i, ch_ranges[t])
      <3>1. io_locked' = [io_locked EXCEPT ![t] = Append(io_locked[t], i)]
        BY <2>1 DEF bdev_io_submit
      <3>2. io_locked \in [Threads -> Seq(Ios)] /\ i \notin Range(io_locked[t])
            /\ IsInjective(io_locked[t])
        BY <1>0, <1>1 DEF IndInv, QueueOK
      <3>3. /\ Append(io_locked[t], i) \in Seq(Ios)
            /\ Range(Append(io_locked[t], i)) = Range(io_locked[t]) \cup {i}
            /\ IsInjective(Append(io_locked[t], i))
        BY <1>0, <3>2, AppendFacts
      <3>4. io_locked' \in [Threads -> Seq(Ios)]
        BY <1>0, <3>1, <3>2, <3>3
      <3>5. ASSUME NEW u \in Threads
            PROVE  /\ Range(io_locked'[u]) = {j \in Ios : IoThread[j] = u /\ io'[j] = "locked"}
                   /\ IsInjective(io_locked'[u])
        <4>1. /\ Range(io_locked[u]) = {j \in Ios : IoThread[j] = u /\ io[j] = "locked"}
              /\ IsInjective(io_locked[u])
          BY DEF IndInv, QueueOK
        <4>2. CASE u = t
          <5>1. io_locked'[u] = Append(io_locked[t], i)
            BY <1>0, <3>1, <3>2, <4>2
          <5> QED
            BY <1>2, <2>1, <3>3, <4>1, <4>2, <5>1
        <4>3. CASE u # t
          <5>1. io_locked'[u] = io_locked[u]
            BY <3>1, <3>2, <4>3
          <5> QED
            BY <1>2, <4>1, <4>3, <5>1
        <4> QED
          BY <4>2, <4>3
      <3> QED
        BY <3>4, <3>5 DEF QueueOK
    <2>2. CASE ~Held(i, ch_ranges[t])
      <3>1. io_locked' = io_locked /\ \A j \in Ios : io'[j] = "locked" <=> io[j] = "locked"
        BY <1>1, <1>2, <2>2 DEF bdev_io_submit
      <3> QED
        BY <3>1 DEF IndInv, QueueOK
    <2> QED
      BY <2>1, <2>2
  <1>5. CopyT' /\ LockT' /\ PendingOK' /\ ListDisjoint' /\ Covered' /\ Behind'
    BY <1>1 DEF IndInv, CopyT, LockT, PendingOK, ListDisjoint, Covered, Behind
  <1>6. Cleared'
    BY <1>1, <1>2 DEF IndInv, Cleared, Held
  <1>7. OwnIo'
    BY <1>1, <1>2 DEF IndInv, OwnIo
  <1>8. HeldBackByRange'
    BY <1>1, <1>2 DEF IndInv, HeldBackByRange, Held
  <1>w. WaitsCopied'
    BY <1>1 DEF IndInv, WaitsCopied
  <1> QED
    BY <1>w, <1>3, <1>4, <1>5, <1>6, <1>7, <1>8 DEF IndInv

(* Unlock, whatever I/O has just become idle. *)
LEMMA UnlockInv ==
  ASSUME IndInv, NEW l \in Locks, lock[l] = "held", Unlock(l),
         UNCHANGED <<chan, user, io_locked, ch_ranges, pending_locked_ranges, waits, nomem>>,
         io' \in [Ios -> {"idle", "submitted", "locked"}],
         \A i \in Ios : io'[i] # io[i] => io[i] = "submitted" /\ io'[i] = "idle",
         \A i \in Ios : IoLock[i] = l => io'[i] = "idle"
  PROVE  IndInv'
  <1>0. chan \subseteq Threads /\ lock \in [Locks -> LockState] /\ at \in [Locks -> Threads \cup {Done}]
    BY DEF IndInv, IoT, LockT
  <1>1. /\ locked_ranges' = locked_ranges \ {l}
        /\ lock' = [lock EXCEPT ![l] = "unlocking"]
        /\ at' = [at EXCEPT ![l] = NextChannel(0)]
    BY DEF Unlock, StartWalk
  <1>2. /\ NextChannel(0) \in Threads \cup {Done}
        /\ \A u \in chan : NextChannel(0) <= u
    BY <1>0, NThreadsAssumption, NextChannelFacts DEF Threads
  <1>3. /\ lock' \in [Locks -> LockState] /\ at' \in [Locks -> Threads \cup {Done}]
        /\ lock'[l] = "unlocking" /\ at'[l] = NextChannel(0)
        /\ \A k \in Locks : k # l => lock'[k] = lock[k] /\ at'[k] = at[k]
    BY <1>0, <1>1, <1>2 DEF LockState
  <1>4. IoT'
    BY DEF IndInv, IoT
  <1>5. QueueOK'
    <2>1. \A i \in Ios : io'[i] = "locked" <=> io[i] = "locked"
      OBVIOUS
    <2> QED
      BY <2>1 DEF IndInv, QueueOK
  <1>6. CopyT'
    BY DEF IndInv, CopyT
  <1>7. LockT'
    <2>1. locked_ranges' = {k \in Locks : lock'[k] \in Listed}
      BY <1>1, <1>3 DEF IndInv, LockT, Listed
    <2> QED
      BY <1>3, <2>1 DEF IndInv, LockT
  <1>8. PendingOK'
    <2>1. \A k \in Locks : lock'[k] = "pending" <=> lock[k] = "pending"
      BY <1>3
    <2> QED
      BY <2>1 DEF IndInv, PendingOK
  <1>9. ListDisjoint'
    BY <1>1 DEF IndInv, ListDisjoint
  <1>10. Covered'
    BY <1>3 DEF IndInv, Covered
  <1>11. Cleared'
    <2>1. l \notin waits
      BY DEF IndInv, LockT
    <2>2. \A k \in waits : k \in Locks /\ at'[k] = at[k]
      BY <1>3, <2>1 DEF IndInv, LockT
    <2> QED
      BY <2>2 DEF IndInv, Cleared
  <1>12. Behind'
    <2> SUFFICES ASSUME NEW t \in Threads, NEW r \in ch_ranges[t]
                 PROVE  r.lock \in locked_ranges' \/ (lock'[r.lock] = "unlocking" /\ at'[r.lock] <= t)
      BY DEF Behind
    <2>1. r.lock \in Locks /\ t \in chan
      BY DEF IndInv, CopyT, Copy
    <2>2. r.lock \in locked_ranges \/ (lock[r.lock] = "unlocking" /\ at[r.lock] <= t)
      BY DEF IndInv, Behind
    <2> QED
      BY <1>1, <1>2, <1>3, <2>1, <2>2
  <1>13. OwnIo'
    <2> SUFFICES ASSUME NEW i \in Ios, IoLock[i] # NoLock, io'[i] # "idle"
                 PROVE  lock'[IoLock[i]] = "held"
      BY DEF OwnIo
    <2>1. IoLock[i] \in Locks /\ IoLock[i] # l
      BY IosAssumption
    <2> QED
      BY <1>3, <2>1 DEF IndInv, OwnIo
  <1>14. HeldBackByRange'
    BY DEF IndInv, HeldBackByRange, Held
  <1>w. WaitsCopied'
    BY <1>3 DEF IndInv, WaitsCopied, LockT
  <1> QED
    BY <1>w, <1>4, <1>5, <1>6, <1>7, <1>8, <1>9, <1>10, <1>11, <1>12, <1>13, <1>14 DEF IndInv

(* bdev_io_complete. *)
LEMMA CompleteInv ==
  ASSUME IndInv, NEW i \in Ios, bdev_io_complete(i)
  PROVE  IndInv'
  <1>1. /\ io[i] = "submitted" /\ io' = [io EXCEPT ![i] = "idle"]
        /\ UNCHANGED <<chan, user, io_locked, ch_ranges, pending_locked_ranges, waits, nomem>>
    BY DEF bdev_io_complete
  <1>2. io' \in [Ios -> {"idle", "submitted", "locked"}] /\ io'[i] = "idle"
        /\ \A j \in Ios : j # i => io'[j] = io[j]
    BY <1>1 DEF IndInv, IoT
  <1>3. CASE IoLock[i] # NoLock
    <2>1. IoLock[i] \in Locks /\ lock[IoLock[i]] = "held"
      BY <1>1, <1>3, IosAssumption DEF IndInv, OwnIo
    <2>2. \A j \in Ios : IoLock[j] = IoLock[i] => io'[j] = "idle"
      BY <1>2, <1>3, IosAssumption
    <2>3. Unlock(IoLock[i])
      BY <1>3 DEF bdev_io_complete
    <2> QED
      BY <1>1, <1>2, <2>1, <2>2, <2>3, UnlockInv
  <1>4. CASE IoLock[i] = NoLock
    <2>1. UNCHANGED <<locked_ranges, lock, at>>
      BY <1>4 DEF bdev_io_complete
    <2>2. IoT'
      BY <1>1, <1>2 DEF IndInv, IoT
    <2>3. QueueOK'
      <3>1. \A j \in Ios : io'[j] = "locked" <=> io[j] = "locked"
        BY <1>1, <1>2
      <3> QED
        BY <1>1, <3>1 DEF IndInv, QueueOK
    <2>4. CopyT' /\ LockT' /\ PendingOK' /\ ListDisjoint' /\ Covered' /\ Behind'
      BY <1>1, <2>1 DEF IndInv, CopyT, LockT, PendingOK, ListDisjoint, Covered, Behind
    <2>5. Cleared' /\ OwnIo'
      BY <1>1, <1>2, <2>1 DEF IndInv, Cleared, OwnIo
    <2>6. HeldBackByRange'
      BY <1>1, <1>2 DEF IndInv, HeldBackByRange, Held
    <2>w. WaitsCopied'
      BY <1>1, <2>1 DEF IndInv, WaitsCopied
    <2> QED
      BY <2>w, <2>2, <2>3, <2>4, <2>5, <2>6 DEF IndInv
  <1> QED
    BY <1>3, <1>4

(* _bdev_unlock_lba_range. *)
LEMMA UnlockCallInv ==
  ASSUME IndInv, NEW l \in Locks, _bdev_unlock_lba_range(l)
  PROVE  IndInv'
  <1>1. /\ lock[l] = "held" /\ Unlock(l) /\ \A i \in Ios : IoLock[i] = l => io[i] = "idle"
        /\ UNCHANGED <<chan, user, io, io_locked, ch_ranges, pending_locked_ranges, waits, nomem>>
    BY DEF _bdev_unlock_lba_range
  <1>2. io \in [Ios -> {"idle", "submitted", "locked"}]
    BY DEF IndInv, IoT
  <1> QED
    BY <1>1, <1>2, UnlockInv

(* bdev_channel_create: a channel takes over what the bdev lists, and has no I/O yet. *)
LEMMA CreateInv ==
  ASSUME IndInv, NEW t \in Threads, bdev_channel_create(t)
  PROVE  IndInv'
  <1> DEFINE new == [lock : locked_ranges, quiesce : {FALSE}, owner : {FALSE}]
  <1>1. /\ t \notin user /\ user' = user \cup {t} /\ chan' = chan \cup {t}
        /\ UNCHANGED <<io, io_locked, locked_ranges, pending_locked_ranges, lock, at, waits, nomem>>
    BY DEF bdev_channel_create
  <1>2. \A i \in Ios : IoThread[i] = t => io[i] = "idle"
    BY <1>1 DEF IndInv, IoT
  <1>3. ch_ranges \in [Threads -> SUBSET Copy]
    BY DEF IndInv, CopyT
  <1>4. /\ ch_ranges' \in [Threads -> SUBSET Copy]
        /\ ch_ranges'[t] = IF t \in chan THEN ch_ranges[t] ELSE new
        /\ \A u \in Threads : u # t => ch_ranges'[u] = ch_ranges[u]
    <2>1. new \in SUBSET Copy
      BY DEF Copy, IndInv, LockT
    <2> HIDE DEF new
    <2>2. ch_ranges' = IF t \in chan THEN ch_ranges ELSE [ch_ranges EXCEPT ![t] = new]
      BY DEF bdev_channel_create, new
    <2> QED
      BY <1>3, <2>1, <2>2
  <1>5. \A r \in new : r.lock \in locked_ranges /\ ~r.quiesce /\ ~r.owner
    OBVIOUS
  <1>6. \A l \in locked_ranges : \E r \in new : r.lock = l
    <2> SUFFICES ASSUME NEW l \in locked_ranges PROVE \E r \in new : r.lock = l
      OBVIOUS
    <2>1. [lock |-> l, quiesce |-> FALSE, owner |-> FALSE] \in new
      OBVIOUS
    <2> QED
      BY <2>1
  <1> HIDE DEF new
  <1>7. IoT'
    BY <1>1 DEF IndInv, IoT
  <1>8. QueueOK' /\ LockT' /\ PendingOK' /\ ListDisjoint' /\ OwnIo'
    BY <1>1 DEF IndInv, QueueOK, LockT, PendingOK, ListDisjoint, OwnIo
  <1>9. CopyT'
    BY <1>1, <1>4, <1>5 DEF IndInv, CopyT
  <1>10. Covered'
    <2> SUFFICES ASSUME NEW l \in Locks, NEW u \in chan', lock[l] \in {"locking", "held"}, u < at[l]
                 PROVE  \E r \in ch_ranges'[u] : r.lock = l
      BY <1>1 DEF Covered
    <2>1. l \in locked_ranges
      BY DEF IndInv, LockT, Listed
    <2>2. CASE u \in chan
      BY <1>4, <2>2 DEF IndInv, Covered, IoT
    <2>3. CASE u \notin chan
      BY <1>1, <1>4, <1>6, <2>1, <2>3
    <2> QED
      BY <2>2, <2>3
  <1>11. Cleared'
    <2> SUFFICES ASSUME NEW i \in Ios, NEW r \in ch_ranges'[IoThread[i]],
                        io[i] = "submitted", bdev_io_range_is_locked(i, r)
                 PROVE  r.lock \in waits /\ at[r.lock] = IoThread[i]
      BY <1>1 DEF Cleared
    <2>1. IoThread[i] # t /\ IoThread[i] \in Threads
      BY <1>2, IosAssumption
    <2> QED
      BY <1>4, <2>1 DEF IndInv, Cleared
  <1>12. Behind'
    BY <1>1, <1>4, <1>5 DEF IndInv, Behind
  <1>13. HeldBackByRange'
    <2> SUFFICES ASSUME NEW i \in Ios, IoThread[i] \in Threads, io[i] = "locked"
                 PROVE  Held(i, ch_ranges'[IoThread[i]])
      BY <1>1 DEF HeldBackByRange, Held
    <2>1. ch_ranges'[IoThread[i]] = ch_ranges[IoThread[i]]
      BY <1>2, <1>4
    <2> QED
      BY <2>1 DEF IndInv, HeldBackByRange
  <1>w. WaitsCopied'
    BY <1>1, <1>4 DEF IndInv, WaitsCopied, LockT, IoT
  <1> QED
    BY <1>w, <1>7, <1>8, <1>9, <1>10, <1>11, <1>12, <1>13 DEF IndInv

(* spdk_put_io_channel and bdev_channel_destroy. *)
LEMMA PutInv ==
  ASSUME IndInv, NEW t \in Threads, spdk_put_io_channel(t)
  PROVE  IndInv'
  <1>1. /\ \A i \in Ios : IoThread[i] = t => io[i] = "idle"
        /\ user' = user \ {t}
        /\ UNCHANGED <<chan, io, io_locked, ch_ranges, locked_ranges, pending_locked_ranges,
                       lock, at, waits, nomem>>
    BY DEF spdk_put_io_channel
  <1>2. IoT'
    BY <1>1 DEF IndInv, IoT
  <1>3. QueueOK' /\ CopyT' /\ LockT' /\ PendingOK' /\ ListDisjoint' /\ Covered' /\ Cleared'
    BY <1>1 DEF IndInv, QueueOK, CopyT, LockT, PendingOK, ListDisjoint, Covered, Cleared
  <1>4. Behind' /\ OwnIo' /\ HeldBackByRange'
    BY <1>1 DEF IndInv, Behind, OwnIo, HeldBackByRange, Held
  <1>w. WaitsCopied'
    BY <1>1 DEF IndInv, WaitsCopied
  <1> QED
    BY <1>w, <1>2, <1>3, <1>4 DEF IndInv

(* A channel goes only when nobody uses it or waits on it. *)
LEMMA DestroyInv ==
  ASSUME IndInv, NEW t \in Threads, bdev_channel_destroy(t)
  PROVE  IndInv'
  <1>1. /\ t \in chan /\ t \notin user /\ \A l \in waits : at[l] # t
        /\ chan' = chan \ {t} /\ ch_ranges' = [ch_ranges EXCEPT ![t] = {}]
        /\ UNCHANGED <<user, io, io_locked, locked_ranges, pending_locked_ranges, lock, at, waits, nomem>>
    BY DEF bdev_channel_destroy
  <1>2. ch_ranges \in [Threads -> SUBSET Copy]
    BY DEF IndInv, CopyT
  <1>3. /\ ch_ranges' \in [Threads -> SUBSET Copy] /\ ch_ranges'[t] = {}
        /\ \A u \in Threads : u # t => ch_ranges'[u] = ch_ranges[u]
    BY <1>1, <1>2
  <1>4. \A i \in Ios : IoThread[i] = t => io[i] = "idle"
    BY <1>1 DEF IndInv, IoT
  <1>5. IoT'
    BY <1>1 DEF IndInv, IoT
  <1>6. QueueOK' /\ LockT' /\ PendingOK' /\ ListDisjoint' /\ OwnIo'
    BY <1>1 DEF IndInv, QueueOK, LockT, PendingOK, ListDisjoint, OwnIo
  <1>7. CopyT' /\ Behind'
    BY <1>1, <1>3 DEF IndInv, CopyT, Behind
  <1>8. Covered'
    BY <1>1, <1>3 DEF IndInv, Covered, IoT
  <1>9. Cleared'
    BY <1>1, <1>3, <1>4, IosAssumption DEF IndInv, Cleared
  <1>10. HeldBackByRange'
    <2> SUFFICES ASSUME NEW i \in Ios, IoThread[i] \in Threads, io[i] = "locked"
                 PROVE  Held(i, ch_ranges'[IoThread[i]])
      BY <1>1 DEF HeldBackByRange, Held
    <2>1. ch_ranges'[IoThread[i]] = ch_ranges[IoThread[i]]
      BY <1>3, <1>4
    <2> QED
      BY <2>1 DEF IndInv, HeldBackByRange
  <1>w. WaitsCopied'
    BY <1>1, <1>3 DEF IndInv, WaitsCopied, LockT, IoT
  <1> QED
    BY <1>w, <1>5, <1>6, <1>7, <1>8, <1>9, <1>10 DEF IndInv

(* The walk of a lock starts, in a state in which the bdev lists it. *)
LEMMA StartWalkInv ==
  ASSUME IndInv, NEW l \in Locks, NEW s \in {"locking", "cleanup"}, StartWalk(l, s),
         lock[l] \in {"idle", "msg", "locking"}, l \notin waits,
         locked_ranges' = locked_ranges \cup {l},
         \A k \in locked_ranges : k # l => ~bdev_lba_range_overlapped(l, k),
         UNCHANGED <<chan, user, io, io_locked, ch_ranges, pending_locked_ranges, waits>>,
         nomem' \in 0 .. MaxNoMem
  PROVE  IndInv'
  <1>0. chan \subseteq Threads /\ lock \in [Locks -> LockState] /\ at \in [Locks -> Threads \cup {Done}]
    BY DEF IndInv, IoT, LockT
  <1>1. /\ lock' = [lock EXCEPT ![l] = s]
        /\ at' = [at EXCEPT ![l] = NextChannel(0)]
    BY DEF StartWalk
  <1>2. /\ NextChannel(0) \in Threads \cup {Done}
        /\ \A u \in chan : NextChannel(0) <= u
    BY <1>0, NThreadsAssumption, NextChannelFacts DEF Threads
  <1>3. /\ lock' \in [Locks -> LockState] /\ at' \in [Locks -> Threads \cup {Done}]
        /\ lock'[l] = s /\ at'[l] = NextChannel(0)
        /\ \A k \in Locks : k # l => lock'[k] = lock[k] /\ at'[k] = at[k]
    BY <1>0, <1>1, <1>2 DEF LockState
  <1>4. IoT' /\ QueueOK' /\ CopyT' /\ HeldBackByRange'
    BY DEF IndInv, IoT, QueueOK, CopyT, HeldBackByRange, Held
  <1>5. LockT'
    <2>1. locked_ranges' = {k \in Locks : lock'[k] \in Listed}
      BY <1>1, <1>3 DEF IndInv, LockT, Listed
    <2>2. \A k \in waits : lock'[k] = "locking" /\ at'[k] \in chan'
      BY <1>3 DEF IndInv, LockT
    <2>3. \A k \in Locks : lock'[k] = "held" => at'[k] = Done
      BY <1>3 DEF IndInv, LockT
    <2>4. waits' \subseteq Locks
      BY DEF IndInv, LockT
    <2> QED
      BY <1>3, <2>1, <2>2, <2>3, <2>4 DEF LockT
  <1>6. PendingOK'
    <2>1. \A k \in Locks : lock'[k] = "pending" <=> lock[k] = "pending"
      BY <1>3
    <2> QED
      BY <2>1 DEF IndInv, PendingOK
  <1>7. ListDisjoint'
    <2> SUFFICES ASSUME NEW j \in locked_ranges', NEW k \in locked_ranges', j # k,
                        bdev_lba_range_overlapped(j, k)
                 PROVE  FALSE
      BY DEF ListDisjoint
    <2>1. j \in Locks /\ k \in Locks
      BY DEF IndInv, LockT
    <2>2. bdev_lba_range_overlapped(k, j)
      BY <2>1, OverlapSymmetric
    <2> QED
      BY <2>2 DEF IndInv, ListDisjoint
  <1>8. Covered'
    <2> SUFFICES ASSUME NEW k \in Locks, NEW u \in chan, lock'[k] \in {"locking", "held"}, u < at'[k]
                 PROVE  \E r \in ch_ranges[u] : r.lock = k
      BY DEF Covered
    <2>1. k # l
      <3>1. u \in Nat /\ NextChannel(0) \in Nat
        BY <1>0, <1>2, NThreadsAssumption DEF Threads, Done
      <3> QED
        BY <1>2, <1>3, <3>1
    <2> QED
      BY <1>3, <2>1 DEF IndInv, Covered
  <1>9. Cleared'
    BY <1>3 DEF IndInv, Cleared, LockT
  <1>10. Behind'
    <2> SUFFICES ASSUME NEW t \in Threads, NEW r \in ch_ranges[t]
                 PROVE  r.lock \in locked_ranges' \/ (lock'[r.lock] = "unlocking" /\ at'[r.lock] <= t)
      BY DEF Behind
    <2>1. r.lock \in Locks
      BY DEF IndInv, CopyT, Copy
    <2> QED
      BY <1>3, <2>1 DEF IndInv, Behind
  <1>11. OwnIo'
    BY <1>3, IosAssumption DEF IndInv, OwnIo
  <1>w. WaitsCopied'
    BY <1>3 DEF IndInv, WaitsCopied, LockT
  <1> QED
    BY <1>w, <1>4, <1>5, <1>6, <1>7, <1>8, <1>9, <1>10, <1>11 DEF IndInv

(* _bdev_lock_lba_range: the walk starts, or the lock waits for another. *)
LEMMA LockInv ==
  ASSUME IndInv, NEW l \in Locks, _bdev_lock_lba_range(l)
  PROVE  IndInv'
  <1>1. lock[l] = "idle" /\ UNCHANGED <<chan, user, io, io_locked, ch_ranges, waits, nomem>>
    BY DEF _bdev_lock_lba_range
  <1>2. l \notin waits /\ l \notin locked_ranges /\ nomem \in 0 .. MaxNoMem
    BY <1>1 DEF IndInv, LockT, IoT, Listed
  <1>3. CASE Free(l)
    <2>1. /\ locked_ranges' = locked_ranges \cup {l}
          /\ StartWalk(l, "locking") /\ UNCHANGED pending_locked_ranges
      BY <1>3 DEF _bdev_lock_lba_range
    <2>2. \A k \in locked_ranges : k # l => ~bdev_lba_range_overlapped(l, k)
      BY <1>3 DEF Free
    <2> QED
      BY <1>1, <1>2, <2>1, <2>2, StartWalkInv
  <1>4. CASE ~Free(l)
    <2>1. /\ pending_locked_ranges' = Append(pending_locked_ranges, l)
          /\ lock' = [lock EXCEPT ![l] = "pending"]
          /\ UNCHANGED <<locked_ranges, at>>
      BY <1>4 DEF _bdev_lock_lba_range
    <2>2. /\ lock' \in [Locks -> LockState] /\ lock'[l] = "pending"
          /\ \A k \in Locks : k # l => lock'[k] = lock[k]
      BY <2>1 DEF IndInv, LockT, LockState
    <2>3. IoT' /\ QueueOK' /\ CopyT' /\ HeldBackByRange' /\ Cleared' /\ ListDisjoint'
      BY <1>1, <2>1 DEF IndInv, IoT, QueueOK, CopyT, HeldBackByRange, Held, Cleared, ListDisjoint
    <2>4. LockT'
      <3>1. locked_ranges' = {k \in Locks : lock'[k] \in Listed}
        BY <1>1, <2>1, <2>2 DEF IndInv, LockT, Listed
      <3>2. \A k \in waits : lock'[k] = "locking" /\ at'[k] \in chan'
        BY <1>1, <1>2, <2>1, <2>2 DEF IndInv, LockT
      <3>3. \A k \in Locks : lock'[k] = "held" => at'[k] = Done
        BY <2>1, <2>2 DEF IndInv, LockT
      <3> QED
        BY <1>1, <2>1, <2>2, <3>1, <3>2, <3>3 DEF IndInv, LockT
    <2>5. PendingOK'
      <3>1. /\ pending_locked_ranges \in Seq(Locks) /\ IsInjective(pending_locked_ranges)
            /\ Range(pending_locked_ranges) = {k \in Locks : lock[k] = "pending"}
        BY DEF IndInv, PendingOK
      <3>2. l \notin Range(pending_locked_ranges)
        BY <1>1, <3>1
      <3>3. /\ pending_locked_ranges' \in Seq(Locks) /\ IsInjective(pending_locked_ranges')
            /\ Range(pending_locked_ranges') = Range(pending_locked_ranges) \cup {l}
        BY <2>1, <3>1, <3>2, AppendFacts
      <3>4. Range(pending_locked_ranges') = {k \in Locks : lock'[k] = "pending"}
        BY <2>2, <3>1, <3>3
      <3> QED
        BY <3>3, <3>4 DEF PendingOK
    <2>6. Covered'
      BY <1>1, <2>1, <2>2 DEF IndInv, Covered
    <2>7. Behind'
      BY <1>1, <1>2, <2>1, <2>2 DEF IndInv, Behind, CopyT, Copy
    <2>8. OwnIo'
      BY <1>1, <2>2, IosAssumption DEF IndInv, OwnIo
    <2>w. WaitsCopied'
      BY <1>1, <2>1 DEF IndInv, WaitsCopied
    <2> QED
      BY <2>w, <2>3, <2>4, <2>5, <2>6, <2>7, <2>8 DEF IndInv
  <1> QED
    BY <1>3, <1>4

(* bdev_lock_lba_range_ctx_msg and LockAllocationFails start a walk. *)
LEMMA CtxMsgInv ==
  ASSUME IndInv, NEW l \in Locks, bdev_lock_lba_range_ctx_msg(l)
  PROVE  IndInv'
  <1>1. /\ lock[l] = "msg" /\ StartWalk(l, "locking")
        /\ UNCHANGED <<chan, user, io, io_locked, ch_ranges, locked_ranges, pending_locked_ranges,
                       waits, nomem>>
    BY DEF bdev_lock_lba_range_ctx_msg
  <1>2. l \in locked_ranges /\ l \notin waits /\ nomem \in 0 .. MaxNoMem
    BY <1>1 DEF IndInv, LockT, IoT, Listed
  <1>3. locked_ranges' = locked_ranges \cup {l}
    BY <1>1, <1>2
  <1>4. \A k \in locked_ranges : k # l => ~bdev_lba_range_overlapped(l, k)
    BY <1>2 DEF IndInv, ListDisjoint
  <1>5. nomem' \in 0 .. MaxNoMem
    BY <1>1, <1>2
  <1> QED
    BY <1>1, <1>2, <1>3, <1>4, <1>5, StartWalkInv

(* The allocation fails, and the walk that cleans up starts. *)
LEMMA NoMemInv ==
  ASSUME IndInv, NEW l \in Locks, LockAllocationFails(l)
  PROVE  IndInv'
  <1>1. /\ lock[l] = "locking" /\ StartWalk(l, "cleanup") /\ l \notin waits
        /\ nomem < MaxNoMem /\ nomem' = nomem + 1
        /\ UNCHANGED <<chan, user, io, io_locked, ch_ranges, locked_ranges, pending_locked_ranges, waits>>
    BY DEF LockAllocationFails
  <1>2. l \in locked_ranges /\ nomem \in 0 .. MaxNoMem
    BY <1>1 DEF IndInv, LockT, IoT, Listed
  <1>3. locked_ranges' = locked_ranges \cup {l}
    BY <1>1, <1>2
  <1>4. \A k \in locked_ranges : k # l => ~bdev_lba_range_overlapped(l, k)
    BY <1>2 DEF IndInv, ListDisjoint
  <1>5. nomem' \in 0 .. MaxNoMem
    BY <1>1, <1>2, NThreadsAssumption
  <1> QED
    BY <1>1, <1>3, <1>4, <1>5, StartWalkInv

-----------------------------------------------------------------------------
(* Steps of a walk. *)

(* A walk goes on: it skips no channel. *)
LEMMA AdvanceFacts ==
  ASSUME IndInv, NEW l \in Locks, at[l] \in Threads,
         at' = [at EXCEPT ![l] = NextChannel(at[l])]
  PROVE  /\ at' \in [Locks -> Threads \cup {Done}]
         /\ at[l] < at'[l]
         /\ \A u \in chan : u < at'[l] => u < at[l] \/ u = at[l]
         /\ \A u \in chan : u > at[l] => at'[l] <= u
         /\ \A k \in Locks : k # l => at'[k] = at[k]
  <1>1. chan \subseteq Threads /\ at \in [Locks -> Threads \cup {Done}]
    BY DEF IndInv, IoT, LockT
  <1>2. PICK t \in Threads : t = at[l]
    OBVIOUS
  <1>3. t \in Nat /\ t <= NThreads /\ Threads \subseteq Nat /\ Done \in Nat
    BY NThreadsAssumption DEF Threads, Done
  <1>4. PICK n : n = NextChannel(t)
    OBVIOUS
  <1>5. n \in Threads \cup {Done} /\ n > t /\ \A u \in chan : u > t => n <= u
    BY <1>1, <1>3, <1>4, NextChannelFacts
  <1>6. at' = [at EXCEPT ![l] = n]
    BY <1>2, <1>4
  <1>7. at' \in [Locks -> Threads \cup {Done}] /\ at'[l] = n /\ \A k \in Locks : k # l => at'[k] = at[k]
    BY <1>1, <1>5, <1>6
  <1>8. \A u \in chan : u < n => u < t \/ u = t
    BY <1>1, <1>3, <1>5
  <1> QED
    BY <1>2, <1>5, <1>7, <1>8

(* bdev_lock_lba_range_get_channel. *)
LEMMA LockChannelInv ==
  ASSUME IndInv, NEW l \in Locks, bdev_lock_lba_range_get_channel(l)
  PROVE  IndInv'
  <1> DEFINE t == at[l]
             c == CopyOf(l)
  <1>1. /\ lock[l] = "locking" /\ t \in chan /\ l \notin waits
        /\ UNCHANGED <<chan, user, io, io_locked, locked_ranges, pending_locked_ranges, lock, nomem>>
    BY DEF bdev_lock_lba_range_get_channel
  <1>2. t \in Threads /\ l \in locked_ranges
    BY <1>1 DEF IndInv, IoT, LockT, Listed
  <1>3. IoT' /\ PendingOK' /\ QueueOK' /\ ListDisjoint' /\ OwnIo'
    BY <1>1 DEF IndInv, IoT, PendingOK, QueueOK, ListDisjoint, OwnIo
  <1>4. CASE \E r \in ch_ranges[t] : r.lock = l
    <2>1. at' = [at EXCEPT ![l] = NextChannel(at[l])] /\ UNCHANGED <<ch_ranges, waits>>
      BY <1>4 DEF bdev_lock_lba_range_get_channel
    <2>2. /\ at' \in [Locks -> Threads \cup {Done}]
          /\ \A u \in chan : u < at'[l] => u < t \/ u = t
          /\ \A k \in Locks : k # l => at'[k] = at[k]
      BY <1>2, <2>1, AdvanceFacts
    <2>3. CopyT' /\ HeldBackByRange'
      BY <1>1, <2>1 DEF IndInv, CopyT, HeldBackByRange, Held
    <2>4. LockT'
      BY <1>1, <2>1, <2>2 DEF IndInv, LockT
    <2>5. Covered'
      BY <1>1, <1>4, <2>1, <2>2 DEF IndInv, Covered
    <2>6. Cleared'
      BY <1>1, <2>1, <2>2 DEF IndInv, Cleared, LockT
    <2>7. Behind'
      BY <1>1, <1>2, <2>1, <2>2 DEF IndInv, Behind, CopyT, Copy
    <2>w. WaitsCopied'
      BY <1>1, <2>1, <2>2 DEF IndInv, WaitsCopied, LockT
    <2> QED
      BY <2>w, <1>3, <2>3, <2>4, <2>5, <2>6, <2>7 DEF IndInv
  <1>5. CASE \A r \in ch_ranges[t] : r.lock # l
    <2>1. ch_ranges' = [ch_ranges EXCEPT ![t] = ch_ranges[t] \cup {c}]
      BY <1>5 DEF bdev_lock_lba_range_get_channel
    <2>2. c \in Copy /\ c.lock = l /\ (c.quiesce => c.lock \in Quiesces) /\ ~c.owner
      <3>1. (l \in Quiesces) \in BOOLEAN
        OBVIOUS
      <3>2. c.lock = l /\ (c.quiesce => l \in Quiesces) /\ ~c.owner
        BY DEF CopyOf
      <3>3. c \in Copy
        BY <3>1 DEF CopyOf, Copy
      <3> QED
        BY <3>2, <3>3
    <2> HIDE DEF c
    <2>3. /\ ch_ranges' \in [Threads -> SUBSET Copy] /\ ch_ranges'[t] = ch_ranges[t] \cup {c}
          /\ \A u \in Threads : u # t => ch_ranges'[u] = ch_ranges[u]
      BY <1>2, <2>1, <2>2 DEF IndInv, CopyT
    <2>4. CopyT'
      BY <1>1, <1>2, <2>2, <2>3 DEF IndInv, CopyT
    <2>5. HeldBackByRange'
      <3> SUFFICES ASSUME NEW i \in Ios, IoThread[i] \in Threads, io[i] = "locked"
                   PROVE  Held(i, ch_ranges'[IoThread[i]])
        BY <1>1 DEF HeldBackByRange, Held
      <3>1. Held(i, ch_ranges[IoThread[i]]) /\ ch_ranges[IoThread[i]] \subseteq ch_ranges'[IoThread[i]]
        BY <2>3 DEF IndInv, HeldBackByRange
      <3> QED
        BY <3>1 DEF Held
    <2>6. CASE Blocking(l, t, c) = {}
      <3>1. at' = [at EXCEPT ![l] = NextChannel(at[l])] /\ UNCHANGED waits
        BY <1>5, <2>6 DEF bdev_lock_lba_range_get_channel, c
      <3>2. /\ at' \in [Locks -> Threads \cup {Done}]
            /\ \A u \in chan : u < at'[l] => u < t \/ u = t
            /\ \A k \in Locks : k # l => at'[k] = at[k]
        BY <1>2, <3>1, AdvanceFacts
      <3>3. LockT'
        BY <1>1, <3>1, <3>2 DEF IndInv, LockT
      <3>4. Covered'
        <4> SUFFICES ASSUME NEW k \in Locks, NEW u \in chan, lock[k] \in {"locking", "held"}, u < at'[k]
                     PROVE  \E r \in ch_ranges'[u] : r.lock = k
          BY <1>1 DEF Covered
        <4>1. u \in Threads /\ ch_ranges[u] \subseteq ch_ranges'[u]
          BY <2>3 DEF IndInv, IoT
        <4>2. CASE k = l /\ u = t
          BY <2>2, <2>3, <4>2
        <4>3. CASE ~ (k = l /\ u = t)
          BY <3>2, <4>1, <4>3 DEF IndInv, Covered
        <4> QED
          BY <4>2, <4>3
      <3>5. Cleared'
        <4> SUFFICES ASSUME NEW i \in Ios, NEW r \in ch_ranges'[IoThread[i]],
                            io[i] = "submitted", bdev_io_range_is_locked(i, r)
                     PROVE  r.lock \in waits /\ at'[r.lock] = IoThread[i]
          BY <1>1, <3>1 DEF Cleared
        <4>1. IoThread[i] \in Threads
          BY IosAssumption
        <4>2. ~ (r = c /\ IoThread[i] = t)
          BY <2>6 DEF Blocking
        <4>3. r \in ch_ranges[IoThread[i]]
          BY <2>3, <4>1, <4>2
        <4>4. r.lock \in waits /\ at[r.lock] = IoThread[i]
          BY <4>3 DEF IndInv, Cleared
        <4> QED
          BY <1>1, <3>2, <4>4 DEF IndInv, LockT
      <3>6. Behind'
        <4> SUFFICES ASSUME NEW u \in Threads, NEW r \in ch_ranges'[u]
                     PROVE  r.lock \in locked_ranges \/ (lock[r.lock] = "unlocking" /\ at'[r.lock] <= u)
          BY <1>1 DEF Behind
        <4>1. CASE r.lock = l
          BY <1>2, <4>1
        <4>2. CASE r.lock # l
          <5>1. r \in ch_ranges[u]
            BY <2>2, <2>3, <4>2
          <5>2. r.lock \in Locks
            BY <5>1 DEF IndInv, CopyT, Copy
          <5> QED
            BY <3>2, <4>2, <5>1, <5>2 DEF IndInv, Behind
        <4> QED
          BY <4>1, <4>2
      <3>w. WaitsCopied'
        BY <1>1, <2>3, <3>1, <3>2 DEF IndInv, WaitsCopied, LockT, IoT
      <3> QED
        BY <3>w, <1>3, <2>4, <2>5, <3>3, <3>4, <3>5, <3>6 DEF IndInv
    <2>7. CASE Blocking(l, t, c) # {}
      <3>1. waits' = waits \cup {l} /\ UNCHANGED at
        BY <1>5, <2>7 DEF bdev_lock_lba_range_get_channel, c
      <3>2. LockT'
        BY <1>1, <3>1 DEF IndInv, LockT
      <3>3. \A u \in chan : u \in Threads /\ ch_ranges[u] \subseteq ch_ranges'[u]
        BY <2>3 DEF IndInv, IoT
      <3>4. Covered'
        BY <1>1, <3>1, <3>3 DEF IndInv, Covered
      <3>5. Cleared'
        <4> SUFFICES ASSUME NEW i \in Ios, NEW r \in ch_ranges'[IoThread[i]],
                            io[i] = "submitted", bdev_io_range_is_locked(i, r)
                     PROVE  r.lock \in waits' /\ at[r.lock] = IoThread[i]
          BY <1>1, <3>1 DEF Cleared
        <4>1. IoThread[i] \in Threads
          BY IosAssumption
        <4>2. CASE r \in ch_ranges[IoThread[i]]
          BY <3>1, <4>2 DEF IndInv, Cleared
        <4>3. CASE r \notin ch_ranges[IoThread[i]]
          BY <2>2, <2>3, <3>1, <4>1, <4>3
        <4> QED
          BY <4>2, <4>3
      <3>6. Behind'
        BY <1>1, <1>2, <2>2, <2>3, <3>1 DEF IndInv, Behind
      <3>w. WaitsCopied'
        BY <1>2, <2>2, <2>3, <3>1 DEF IndInv, WaitsCopied, LockT, IoT
      <3> QED
        BY <3>w, <1>3, <2>4, <2>5, <3>2, <3>4, <3>5, <3>6 DEF IndInv
    <2> QED
      BY <2>6, <2>7
  <1> QED
    BY <1>4, <1>5

(* Nothing in flight on a channel with the lock's copy is in its way any more. *)
LEMMA CheckIoInv ==
  ASSUME IndInv, NEW l \in Locks, bdev_lock_lba_range_check_io(l)
  PROVE  IndInv'
  <1> DEFINE t == at[l]
  <1>1. /\ l \in waits /\ Blocking(l, t, CopyOf(l)) = {} /\ waits' = waits \ {l}
        /\ at' = [at EXCEPT ![l] = NextChannel(t)]
        /\ UNCHANGED <<chan, user, io, io_locked, ch_ranges, locked_ranges, pending_locked_ranges,
                       lock, nomem>>
    BY DEF bdev_lock_lba_range_check_io
  <1>2. t \in Threads /\ t \in chan /\ lock[l] = "locking" /\ l \in locked_ranges
    BY <1>1 DEF IndInv, IoT, LockT, Listed
  <1>3. /\ at' \in [Locks -> Threads \cup {Done}]
        /\ \A u \in chan : u < at'[l] => u < t \/ u = t
        /\ \A k \in Locks : k # l => at'[k] = at[k]
    BY <1>1, <1>2, AdvanceFacts
  <1>4. IoT' /\ PendingOK' /\ QueueOK' /\ ListDisjoint' /\ OwnIo'
    BY <1>1 DEF IndInv, IoT, PendingOK, QueueOK, ListDisjoint, OwnIo
  <1>5. CopyT' /\ HeldBackByRange'
    BY <1>1 DEF IndInv, CopyT, HeldBackByRange, Held
  <1>6. LockT'
    BY <1>1, <1>2, <1>3 DEF IndInv, LockT
  <1>7. Covered'
    BY <1>1, <1>3 DEF IndInv, Covered, WaitsCopied
  <1>8. Cleared'
    <2> SUFFICES ASSUME NEW i \in Ios, NEW r \in ch_ranges[IoThread[i]],
                        io[i] = "submitted", bdev_io_range_is_locked(i, r)
                 PROVE  r.lock \in waits' /\ at'[r.lock] = IoThread[i]
      BY <1>1 DEF Cleared
    <2>1. IoThread[i] \in Threads
      BY IosAssumption
    <2>2. r.lock \in waits /\ at[r.lock] = IoThread[i]
      BY DEF IndInv, Cleared
    <2>3. r \in Copy /\ (r.quiesce => r.lock \in Quiesces)
      BY <2>1 DEF IndInv, CopyT
    <2>4. bdev_io_range_is_locked(i, CopyOf(r.lock))
      BY <2>3, CopyOfStrictest
    <2>5. r.lock # l
      BY <1>1, <2>2, <2>4 DEF Blocking
    <2> QED
      BY <1>1, <1>3, <2>2, <2>5 DEF IndInv, LockT
  <1>9. Behind'
    BY <1>1, <1>2, <1>3 DEF IndInv, Behind, CopyT, Copy
  <1>w. WaitsCopied'
    BY <1>1, <1>3 DEF IndInv, WaitsCopied, LockT
  <1> QED
    BY <1>w, <1>4, <1>5, <1>6, <1>7, <1>8, <1>9 DEF IndInv

(* PassOver: a thread without a channel has no copy and no I/O. *)
LEMMA PassOverInv ==
  ASSUME IndInv, NEW l \in Locks, PassOver(l)
  PROVE  IndInv'
  <1> DEFINE t == at[l]
  <1>1. /\ t \in Threads /\ t \notin chan /\ at' = [at EXCEPT ![l] = NextChannel(t)]
        /\ lock[l] \in {"locking", "unlocking", "cleanup"}
        /\ UNCHANGED <<chan, user, io, io_locked, ch_ranges, locked_ranges, pending_locked_ranges,
                       lock, waits, nomem>>
    BY DEF PassOver
  <1>2. /\ at' \in [Locks -> Threads \cup {Done}]
        /\ \A u \in chan : u < at'[l] => u < t \/ u = t
        /\ \A u \in chan : u > t => at'[l] <= u
        /\ \A k \in Locks : k # l => at'[k] = at[k]
    BY <1>1, AdvanceFacts
  <1>3. l \notin waits
    BY <1>1 DEF IndInv, LockT
  <1>4. IoT' /\ PendingOK' /\ QueueOK' /\ ListDisjoint' /\ OwnIo'
    BY <1>1 DEF IndInv, IoT, PendingOK, QueueOK, ListDisjoint, OwnIo
  <1>5. CopyT' /\ HeldBackByRange'
    BY <1>1 DEF IndInv, CopyT, HeldBackByRange, Held
  <1>6. LockT'
    BY <1>1, <1>2, <1>3 DEF IndInv, LockT
  <1>7. Covered'
    BY <1>1, <1>2 DEF IndInv, Covered
  <1>8. Cleared'
    BY <1>1, <1>2, <1>3 DEF IndInv, Cleared, LockT
  <1>9. Behind'
    <2> SUFFICES ASSUME NEW u \in Threads, NEW r \in ch_ranges[u]
                 PROVE  r.lock \in locked_ranges \/ (lock[r.lock] = "unlocking" /\ at'[r.lock] <= u)
      BY <1>1 DEF Behind
    <2>1. r.lock \in Locks /\ u \in chan
      BY DEF IndInv, CopyT, Copy
    <2>2. r.lock \in locked_ranges \/ (lock[r.lock] = "unlocking" /\ at[r.lock] <= u)
      BY DEF IndInv, Behind
    <2>3. t \in Nat /\ u \in Nat
      BY <1>1, NThreadsAssumption DEF Threads
    <2>4. u # t
      BY <1>1, <2>1
    <2> QED
      BY <1>2, <2>1, <2>2, <2>3, <2>4
  <1>w. WaitsCopied'
    BY <1>1, <1>2, <1>3 DEF IndInv, WaitsCopied, LockT
  <1> QED
    BY <1>w, <1>4, <1>5, <1>6, <1>7, <1>8, <1>9 DEF IndInv

(* bdev_lock_lba_range_cb: the lock is held, and its owner known. *)
LEMMA LockedInv ==
  ASSUME IndInv, NEW l \in Locks, bdev_lock_lba_range_cb(l)
  PROVE  IndInv'
  <1> DEFINE t == LockThread[l]
             Own(r) == [r EXCEPT !.owner = r.owner \/ r.lock = l]
  <1>1. /\ lock[l] = "locking" /\ at[l] = Done /\ lock' = [lock EXCEPT ![l] = "held"]
        /\ UNCHANGED <<chan, user, io, io_locked, locked_ranges, pending_locked_ranges, at, waits, nomem>>
    BY DEF bdev_lock_lba_range_cb
  <1>2. ch_ranges' = IF l \in Quiesces THEN ch_ranges
                     ELSE [ch_ranges EXCEPT ![t] = {Own(r) : r \in ch_ranges[t]}]
    BY DEF bdev_lock_lba_range_cb
  <1>3. t \in Threads /\ lock \in [Locks -> LockState] /\ ch_ranges \in [Threads -> SUBSET Copy]
    BY LocksAssumption DEF IndInv, LockT, CopyT
  <1>4. /\ lock' \in [Locks -> LockState] /\ lock'[l] = "held"
        /\ \A k \in Locks : k # l => lock'[k] = lock[k]
    BY <1>1, <1>3 DEF LockState
  <1>5. \A r \in Copy : /\ Own(r) \in Copy /\ Own(r).lock = r.lock /\ Own(r).quiesce = r.quiesce
                        /\ Own(r).owner => r.owner \/ r.lock = l
    BY DEF Copy
  <1>6. ASSUME NEW r \in Copy, NEW i \in Ios, bdev_io_range_is_locked(i, Own(r))
        PROVE  bdev_io_range_is_locked(i, r)
    <2>1. (r.lock = l) \in BOOLEAN
      OBVIOUS
    <2> QED
      BY <1>6, <2>1, OwnerHoldsNoMore
  <1>7. ASSUME NEW r \in Copy, NEW i \in Ios, io[i] # "idle", bdev_io_range_is_locked(i, r)
        PROVE  bdev_io_range_is_locked(i, Own(r))
    <2>1. IoLock[i] # l
      BY <1>1, <1>7, LocksAssumption DEF IndInv, OwnIo
    <2>2. CASE r.lock = l
      <3>1. (r.owner \/ r.lock = l) \in BOOLEAN
        BY DEF Copy
      <3> QED
        BY <1>7, <2>1, <2>2, <3>1, OwnerLetsPass
    <2>3. CASE r.lock # l
      <3>1. Own(r) = r
        BY <2>3 DEF Copy
      <3> QED
        BY <1>7, <3>1
    <2> QED
      BY <2>2, <2>3
  <1> HIDE DEF Own
  <1>8. ASSUME NEW u \in Threads
        PROVE  \/ ch_ranges'[u] = ch_ranges[u]
               \/ l \notin Quiesces /\ ch_ranges'[u] = {Own(r) : r \in ch_ranges[u]}
    BY <1>2, <1>3
  <1>9. ch_ranges' \in [Threads -> SUBSET Copy]
    BY <1>2, <1>3, <1>5
  <1>10. IoT' /\ QueueOK' /\ ListDisjoint'
    BY <1>1 DEF IndInv, IoT, QueueOK, ListDisjoint
  <1>11. LockT'
    <2>1. l \notin waits
      BY <1>1, NThreadsAssumption DEF IndInv, LockT, IoT, Threads, Done
    <2>2. locked_ranges' = {k \in Locks : lock'[k] \in Listed}
      BY <1>1, <1>4 DEF IndInv, LockT, Listed
    <2> QED
      BY <1>1, <1>4, <2>1, <2>2 DEF IndInv, LockT
  <1>12. PendingOK'
    <2>1. \A k \in Locks : lock'[k] = "pending" <=> lock[k] = "pending"
      BY <1>1, <1>4
    <2> QED
      BY <1>1, <2>1 DEF IndInv, PendingOK
  <1>13. CopyT'
    <2>1. \A u \in Threads \ chan : ch_ranges'[u] = {}
      BY <1>8 DEF IndInv, CopyT
    <2>2. ASSUME NEW u \in Threads, NEW r \in ch_ranges'[u]
          PROVE  (r.quiesce => r.lock \in Quiesces) /\ (r.owner => r.lock \notin Quiesces)
      <3>1. CASE ch_ranges'[u] = ch_ranges[u]
        BY <3>1 DEF IndInv, CopyT
      <3>2. CASE l \notin Quiesces /\ ch_ranges'[u] = {Own(q) : q \in ch_ranges[u]}
        <4>1. PICK q \in ch_ranges[u] : r = Own(q)
          BY <3>2
        <4>2. q \in Copy /\ (q.quiesce => q.lock \in Quiesces) /\ (q.owner => q.lock \notin Quiesces)
          BY DEF IndInv, CopyT
        <4> QED
          BY <1>5, <3>2, <4>1, <4>2
      <3> QED
        BY <1>8, <3>1, <3>2
    <2> QED
      BY <1>1, <1>9, <2>1, <2>2 DEF CopyT
  <1>14. Covered'
    <2> SUFFICES ASSUME NEW k \in Locks, NEW u \in chan, lock'[k] \in {"locking", "held"}, u < at[k]
                 PROVE  \E r \in ch_ranges'[u] : r.lock = k
      BY <1>1 DEF Covered
    <2>1. u \in Threads
      BY DEF IndInv, IoT
    <2>2. PICK r \in ch_ranges[u] : r.lock = k
      BY <1>1, <1>4 DEF IndInv, Covered
    <2>3. r \in Copy /\ Own(r).lock = k
      BY <1>3, <1>5, <2>1, <2>2
    <2> QED
      BY <1>8, <2>1, <2>2, <2>3
  <1>15. Cleared'
    <2> SUFFICES ASSUME NEW i \in Ios, NEW r \in ch_ranges'[IoThread[i]],
                        io[i] = "submitted", bdev_io_range_is_locked(i, r)
                 PROVE  r.lock \in waits /\ at[r.lock] = IoThread[i]
      BY <1>1 DEF Cleared
    <2>1. IoThread[i] \in Threads
      BY IosAssumption
    <2>2. PICK q \in ch_ranges[IoThread[i]] : r = q \/ r = Own(q)
      BY <1>8, <2>1
    <2>3. q \in Copy
      BY <1>3, <2>1
    <2>4. q.lock = r.lock /\ bdev_io_range_is_locked(i, q)
      BY <1>5, <1>6, <2>2, <2>3
    <2> QED
      BY <2>4 DEF IndInv, Cleared
  <1>16. Behind'
    <2> SUFFICES ASSUME NEW u \in Threads, NEW r \in ch_ranges'[u]
                 PROVE  r.lock \in locked_ranges \/ (lock'[r.lock] = "unlocking" /\ at[r.lock] <= u)
      BY <1>1 DEF Behind
    <2>1. PICK q \in ch_ranges[u] : r = q \/ r = Own(q)
      BY <1>8
    <2>2. q \in Copy /\ q.lock = r.lock /\ q.lock \in Locks
      BY <1>3, <1>5, <2>1 DEF Copy
    <2> QED
      BY <1>1, <1>4, <2>2 DEF IndInv, Behind
  <1>17. OwnIo'
    BY <1>1, <1>4, IosAssumption DEF IndInv, OwnIo
  <1>18. HeldBackByRange'
    <2> SUFFICES ASSUME NEW i \in Ios, IoThread[i] \in Threads, io[i] = "locked"
                 PROVE  Held(i, ch_ranges'[IoThread[i]])
      BY <1>1 DEF HeldBackByRange, Held
    <2>1. PICK r \in ch_ranges[IoThread[i]] : bdev_io_range_is_locked(i, r)
      BY DEF IndInv, HeldBackByRange, Held
    <2>2. r \in Copy
      BY <1>3
    <2>3. bdev_io_range_is_locked(i, Own(r))
      BY <1>7, <2>1, <2>2
    <2> QED
      BY <1>8, <2>1, <2>3 DEF Held
  <1>w. WaitsCopied'
    <2> SUFFICES ASSUME NEW k \in waits PROVE \E r \in ch_ranges'[at[k]] : r.lock = k
      BY <1>1 DEF WaitsCopied
    <2>1. at[k] \in Threads
      BY DEF IndInv, IoT, LockT
    <2>2. PICK r \in ch_ranges[at[k]] : r.lock = k
      BY DEF IndInv, WaitsCopied
    <2>3. r \in Copy /\ Own(r).lock = k
      BY <1>3, <1>5, <2>1, <2>2
    <2> QED
      BY <1>8, <2>1, <2>2, <2>3
  <1> QED
    BY <1>w, <1>10, <1>11, <1>12, <1>13, <1>14, <1>15, <1>16, <1>17, <1>18 DEF IndInv

(* bdev_lock_error_cleanup_cb: the range stays in the bdev's list. *)
LEMMA CleanupInv ==
  ASSUME IndInv, NEW l \in Locks, bdev_lock_error_cleanup_cb(l)
  PROVE  IndInv'
  <1>1. /\ lock[l] = "cleanup" /\ lock' = [lock EXCEPT ![l] = "failed"]
        /\ UNCHANGED <<chan, user, io, io_locked, ch_ranges, locked_ranges, pending_locked_ranges,
                       at, waits, nomem>>
    BY DEF bdev_lock_error_cleanup_cb
  <1>2. /\ lock' \in [Locks -> LockState] /\ lock'[l] = "failed"
        /\ \A k \in Locks : k # l => lock'[k] = lock[k]
    BY <1>1 DEF IndInv, LockT, LockState
  <1>3. l \notin waits
    BY <1>1 DEF IndInv, LockT
  <1>4. IoT' /\ QueueOK' /\ CopyT' /\ HeldBackByRange' /\ Cleared' /\ ListDisjoint' /\ WaitsCopied'
    BY <1>1 DEF IndInv, IoT, QueueOK, CopyT, HeldBackByRange, Held, Cleared, ListDisjoint, WaitsCopied
  <1>5. LockT'
    <2>1. locked_ranges' = {k \in Locks : lock'[k] \in Listed}
      BY <1>1, <1>2 DEF IndInv, LockT, Listed
    <2> QED
      BY <1>1, <1>2, <1>3, <2>1 DEF IndInv, LockT
  <1>6. PendingOK'
    <2>1. \A k \in Locks : lock'[k] = "pending" <=> lock[k] = "pending"
      BY <1>1, <1>2
    <2> QED
      BY <1>1, <2>1 DEF IndInv, PendingOK
  <1>7. Covered' /\ OwnIo'
    BY <1>1, <1>2, IosAssumption DEF IndInv, Covered, OwnIo
  <1>8. Behind'
    BY <1>1, <1>2 DEF IndInv, Behind, CopyT, Copy
  <1> QED
    BY <1>4, <1>5, <1>6, <1>7, <1>8 DEF IndInv

(* bdev_unlock_lba_range_get_channel: what nothing holds back any more is submitted. *)
LEMMA UnlockChannelInv ==
  ASSUME IndInv, NEW l \in Locks, bdev_unlock_lba_range_get_channel(l)
  PROVE  IndInv'
  <1> DEFINE t == at[l]
             ranges == {r \in ch_ranges[t] : r.lock # l}
             held == {i \in Ios : io[i] = "locked" /\ Held(i, ranges)}
  <1>1. /\ lock[l] \in {"unlocking", "cleanup"} /\ t \in chan
        /\ ch_ranges' = [ch_ranges EXCEPT ![t] = ranges]
        /\ io_locked' = [io_locked EXCEPT ![t] = Keep(io_locked[t], held)]
        /\ io' = [i \in Ios |-> IF IoThread[i] = t /\ io[i] = "locked" /\ ~Held(i, ranges)
                                THEN "submitted" ELSE io[i]]
        /\ at' = [at EXCEPT ![l] = NextChannel(at[l])]
        /\ UNCHANGED <<chan, user, locked_ranges, pending_locked_ranges, lock, waits, nomem>>
    BY DEF bdev_unlock_lba_range_get_channel
  <1>2. t \in Threads /\ l \notin waits
    BY <1>1 DEF IndInv, IoT, LockT
  <1>3. /\ at' \in [Locks -> Threads \cup {Done}]
        /\ \A u \in chan : u > t => at'[l] <= u
        /\ \A k \in Locks : k # l => at'[k] = at[k]
    BY <1>1, <1>2, AdvanceFacts
  <1>4. \A r \in ranges : r \in ch_ranges[t] /\ r.lock # l
    OBVIOUS
  <1>5. \A r \in ch_ranges[t] : r.lock # l => r \in ranges
    OBVIOUS
  <1> HIDE DEF ranges
  <1>6. /\ ch_ranges' \in [Threads -> SUBSET Copy] /\ ch_ranges'[t] = ranges
        /\ \A u \in Threads : u # t => ch_ranges'[u] = ch_ranges[u]
    BY <1>1, <1>2, <1>4 DEF IndInv, CopyT
  <1>7. \A u \in Threads : ch_ranges'[u] \subseteq ch_ranges[u]
    BY <1>4, <1>6
  <1>8. /\ io' \in [Ios -> {"idle", "submitted", "locked"}]
        /\ \A i \in Ios : IoThread[i] # t => io'[i] = io[i]
        /\ \A i \in Ios : io'[i] = "locked" <=>
             io[i] = "locked" /\ (IoThread[i] = t => Held(i, ranges))
        /\ \A i \in Ios : io'[i] = "submitted" =>
             io[i] = "submitted" \/ (IoThread[i] = t /\ ~Held(i, ranges))
        /\ \A i \in Ios : io'[i] # "idle" <=> io[i] # "idle"
    BY <1>1 DEF IndInv, IoT
  <1>9. IoT'
    BY <1>1, <1>8 DEF IndInv, IoT
  <1>10. QueueOK'
    <2>1. io_locked \in [Threads -> Seq(Ios)]
      BY DEF IndInv, QueueOK
    <2>2. io_locked[t] \in Seq(Ios) /\ IsInjective(io_locked[t])
      BY <1>2 DEF IndInv, QueueOK
    <2>3. \A i \in Ios : i \in held <=> io[i] = "locked" /\ Held(i, ranges)
      OBVIOUS
    <2> HIDE DEF held
    <2>4. PICK q : q = Keep(io_locked[t], held)
      OBVIOUS
    <2>5. q \in Seq(Ios) /\ Range(q) = Range(io_locked[t]) \cap held /\ IsInjective(q)
      BY <2>2, <2>4, KeepFacts
    <2>6. /\ io_locked' \in [Threads -> Seq(Ios)] /\ io_locked'[t] = q
          /\ \A u \in Threads : u # t => io_locked'[u] = io_locked[u]
      BY <1>1, <1>2, <2>1, <2>4, <2>5
    <2>7. ASSUME NEW u \in Threads
          PROVE  /\ Range(io_locked'[u]) = {i \in Ios : IoThread[i] = u /\ io'[i] = "locked"}
                 /\ IsInjective(io_locked'[u])
      <3>1. /\ Range(io_locked[u]) = {i \in Ios : IoThread[i] = u /\ io[i] = "locked"}
            /\ IsInjective(io_locked[u])
        BY DEF IndInv, QueueOK
      <3>2. CASE u = t
        BY <1>8, <2>3, <2>5, <2>6, <3>1, <3>2
      <3>3. CASE u # t
        BY <1>8, <2>6, <3>1, <3>3
      <3> QED
        BY <3>2, <3>3
    <2> QED
      BY <2>6, <2>7 DEF QueueOK
  <1>11. CopyT'
    BY <1>1, <1>6, <1>7 DEF IndInv, CopyT
  <1>12. LockT'
    BY <1>1, <1>2, <1>3 DEF IndInv, LockT
  <1>13. PendingOK' /\ ListDisjoint'
    BY <1>1 DEF IndInv, PendingOK, ListDisjoint
  <1>14. Covered'
    <2> SUFFICES ASSUME NEW k \in Locks, NEW u \in chan, lock[k] \in {"locking", "held"}, u < at'[k]
                 PROVE  \E r \in ch_ranges'[u] : r.lock = k
      BY <1>1 DEF Covered
    <2>1. k # l /\ at'[k] = at[k] /\ u \in Threads
      BY <1>1, <1>3 DEF IndInv, IoT
    <2>2. PICK r \in ch_ranges[u] : r.lock = k
      BY <2>1 DEF IndInv, Covered
    <2> QED
      BY <1>5, <1>6, <2>1, <2>2
  <1>15. WaitsCopied'
    <2> SUFFICES ASSUME NEW k \in waits PROVE \E r \in ch_ranges'[at'[k]] : r.lock = k
      BY <1>1 DEF WaitsCopied
    <2>1. k # l /\ k \in Locks /\ at'[k] = at[k] /\ at[k] \in Threads
      BY <1>2, <1>3 DEF IndInv, IoT, LockT
    <2>2. PICK r \in ch_ranges[at[k]] : r.lock = k
      BY DEF IndInv, WaitsCopied
    <2> QED
      BY <1>5, <1>6, <2>1, <2>2
  <1>16. Cleared'
    <2> SUFFICES ASSUME NEW i \in Ios, NEW r \in ch_ranges'[IoThread[i]],
                        io'[i] = "submitted", bdev_io_range_is_locked(i, r)
                 PROVE  r.lock \in waits /\ at'[r.lock] = IoThread[i]
      BY <1>1 DEF Cleared
    <2>1. IoThread[i] \in Threads /\ r \in ch_ranges[IoThread[i]]
      BY <1>7, IosAssumption
    <2>2. ~ (IoThread[i] = t /\ ~Held(i, ranges))
      BY <1>6 DEF Held
    <2>3. io[i] = "submitted"
      BY <1>8, <2>2
    <2>4. r.lock \in waits /\ at[r.lock] = IoThread[i]
      BY <2>1, <2>3 DEF IndInv, Cleared
    <2> QED
      BY <1>2, <1>3, <2>4 DEF IndInv, LockT
  <1>17. Behind'
    <2> SUFFICES ASSUME NEW u \in Threads, NEW r \in ch_ranges'[u]
                 PROVE  r.lock \in locked_ranges \/ (lock[r.lock] = "unlocking" /\ at'[r.lock] <= u)
      BY <1>1 DEF Behind
    <2>1. r \in ch_ranges[u] /\ r.lock \in Locks /\ u \in chan
      BY <1>7 DEF IndInv, CopyT, Copy
    <2>2. r.lock \in locked_ranges \/ (lock[r.lock] = "unlocking" /\ at[r.lock] <= u)
      BY <2>1 DEF IndInv, Behind
    <2>3. t \in Nat /\ u \in Nat
      BY <1>2, NThreadsAssumption DEF Threads
    <2>4. CASE r.lock = l
      <3>1. u # t
        BY <1>4, <1>6, <2>4
      <3> QED
        BY <1>3, <2>1, <2>2, <2>3, <2>4, <3>1
    <2>5. CASE r.lock # l
      BY <1>3, <2>1, <2>2, <2>5
    <2> QED
      BY <2>4, <2>5
  <1>18. OwnIo'
    BY <1>1, <1>8 DEF IndInv, OwnIo
  <1>19. HeldBackByRange'
    <2> SUFFICES ASSUME NEW i \in Ios, IoThread[i] \in Threads, io'[i] = "locked"
                 PROVE  Held(i, ch_ranges'[IoThread[i]])
      BY DEF HeldBackByRange, Held
    <2>1. CASE IoThread[i] = t
      BY <1>6, <1>8, <2>1
    <2>2. CASE IoThread[i] # t
      BY <1>6, <1>8, <2>2 DEF IndInv, HeldBackByRange
    <2> QED
      BY <2>1, <2>2
  <1> QED
    BY <1>9, <1>10, <1>11, <1>12, <1>13, <1>14, <1>15, <1>16, <1>17, <1>18, <1>19 DEF IndInv

(* bdev_unlock_lba_range_cb: the locks that start overlap nothing that is listed, nor
   each other. *)
LEMMA UnlockedInv ==
  ASSUME IndInv, NEW l \in Locks, bdev_unlock_lba_range_cb(l)
  PROVE  IndInv'
  <1> DEFINE P == pending_locked_ranges
  <1>1. /\ lock[l] = "unlocking" /\ at[l] = Done
        /\ UNCHANGED <<chan, user, io, io_locked, ch_ranges, at, waits, nomem>>
    BY DEF bdev_unlock_lba_range_cb
  <1>2. PICK started \in SUBSET Range(P) :
          /\ StartPending(l, started)
          /\ locked_ranges' = locked_ranges \cup started
          /\ pending_locked_ranges' = Keep(P, Locks \ started)
          /\ lock' = [k \in Locks |-> IF k = l THEN "unlocked"
                                      ELSE IF k \in started THEN "msg" ELSE lock[k]]
    BY DEF bdev_unlock_lba_range_cb
  <1>3. /\ P \in Seq(Locks) /\ IsInjective(P)
        /\ Range(P) = {k \in Locks : lock[k] = "pending"}
    BY DEF IndInv, PendingOK
  <1>4. /\ lock \in [Locks -> LockState] /\ \A k \in started : k \in Locks /\ lock[k] = "pending"
        /\ locked_ranges = {k \in Locks : lock[k] \in Listed}
    BY <1>3 DEF IndInv, LockT
  <1>5. /\ lock' \in [Locks -> LockState] /\ lock'[l] = "unlocked"
        /\ \A k \in started : lock'[k] = "msg"
        /\ \A k \in Locks : k # l /\ k \notin started => lock'[k] = lock[k]
    BY <1>1, <1>2, <1>4 DEF LockState
  <1>6. IoT' /\ QueueOK' /\ CopyT' /\ HeldBackByRange' /\ Cleared' /\ WaitsCopied'
    BY <1>1 DEF IndInv, IoT, QueueOK, CopyT, HeldBackByRange, Held, Cleared, WaitsCopied
  <1>7. LockT'
    <2>1. locked_ranges' = {k \in Locks : lock'[k] \in Listed}
      BY <1>1, <1>2, <1>4, <1>5 DEF Listed
    <2>2. \A k \in waits : lock'[k] = "locking" /\ at'[k] \in chan'
      BY <1>1, <1>4, <1>5 DEF IndInv, LockT
    <2>3. \A k \in Locks : lock'[k] = "held" => at'[k] = Done
      BY <1>1, <1>4, <1>5 DEF IndInv, LockT
    <2> QED
      BY <1>1, <1>5, <2>1, <2>2, <2>3 DEF IndInv, LockT
  <1>8. PendingOK'
    <2>1. /\ pending_locked_ranges' \in Seq(Locks) /\ IsInjective(pending_locked_ranges')
          /\ Range(pending_locked_ranges') = Range(P) \cap (Locks \ started)
      BY <1>2, <1>3, KeepFacts
    <2>2. Range(pending_locked_ranges') = {k \in Locks : lock'[k] = "pending"}
      BY <1>1, <1>3, <1>4, <1>5, <2>1
    <2> QED
      BY <2>1, <2>2 DEF PendingOK
  <1>9. ListDisjoint'
    <2>1. ASSUME NEW n \in DOMAIN P, P[n] \in started
          PROVE  /\ \A j \in locked_ranges : ~bdev_lba_range_overlapped(P[n], j)
                 /\ \A m \in 1 .. n - 1 : P[m] \in started => ~bdev_lba_range_overlapped(P[n], P[m])
      BY <1>2, <2>1 DEF StartPending
    <2>2. Len(P) \in Nat /\ DOMAIN P = 1 .. Len(P)
      BY <1>3, LenProperties
    <2>3. ASSUME NEW j \in started, NEW k \in locked_ranges
          PROVE  ~bdev_lba_range_overlapped(j, k)
      <3>1. PICK n \in DOMAIN P : j = P[n]
        BY <1>2 DEF Range
      <3> QED
        BY <2>1, <3>1
    <2>4. ASSUME NEW j \in started, NEW k \in started, j # k
          PROVE  ~bdev_lba_range_overlapped(j, k)
      <3>1. PICK n \in DOMAIN P : j = P[n]
        BY <1>2 DEF Range
      <3>2. PICK m \in DOMAIN P : k = P[m]
        BY <1>2 DEF Range
      <3>3. m \in 1 .. n - 1 \/ n \in 1 .. m - 1
        BY <2>2, <2>4, <3>1, <3>2
      <3>4. ~bdev_lba_range_overlapped(j, k) \/ ~bdev_lba_range_overlapped(k, j)
        BY <2>1, <3>1, <3>2, <3>3
      <3> QED
        BY <1>4, <3>4, OverlapSymmetric
    <2> SUFFICES ASSUME NEW j \in locked_ranges \cup started, NEW k \in locked_ranges \cup started,
                        j # k, bdev_lba_range_overlapped(j, k)
                 PROVE  FALSE
      BY <1>2 DEF ListDisjoint
    <2>5. bdev_lba_range_overlapped(k, j)
      BY <1>4, OverlapSymmetric
    <2> QED
      BY <2>3, <2>4, <2>5 DEF IndInv, ListDisjoint
  <1>10. Covered'
    BY <1>1, <1>4, <1>5 DEF IndInv, Covered
  <1>11. Behind'
    <2> SUFFICES ASSUME NEW t \in Threads, NEW r \in ch_ranges[t]
                 PROVE  r.lock \in locked_ranges' \/ (lock'[r.lock] = "unlocking" /\ at[r.lock] <= t)
      BY <1>1 DEF Behind
    <2>1. r.lock \in Locks
      BY DEF IndInv, CopyT, Copy
    <2>2. r.lock \in locked_ranges \/ (lock[r.lock] = "unlocking" /\ at[r.lock] <= t)
      BY DEF IndInv, Behind
    <2>3. r.lock # l
      BY <1>1, <1>4, <2>2, NThreadsAssumption DEF Done, Threads, Listed
    <2> QED
      BY <1>2, <1>4, <1>5, <2>1, <2>2, <2>3
  <1>12. OwnIo'
    <2> SUFFICES ASSUME NEW i \in Ios, IoLock[i] # NoLock, io[i] # "idle"
                 PROVE  lock'[IoLock[i]] = "held"
      BY <1>1 DEF OwnIo
    <2>1. IoLock[i] \in Locks /\ lock[IoLock[i]] = "held"
      BY IosAssumption DEF IndInv, OwnIo
    <2> QED
      BY <1>1, <1>4, <1>5, <2>1
  <1> QED
    BY <1>6, <1>7, <1>8, <1>9, <1>10, <1>11, <1>12 DEF IndInv

-----------------------------------------------------------------------------
(* IndInv is inductive. *)
LEMMA NextInv == IndInv /\ [Next]_vars => IndInv'
  <1> SUFFICES ASSUME IndInv, [Next]_vars PROVE IndInv'
    OBVIOUS
  <1>1. CASE UNCHANGED vars
    <2>1. IoT' /\ QueueOK' /\ CopyT' /\ LockT' /\ PendingOK'
      BY <1>1 DEF IndInv, vars, IoT, QueueOK, CopyT, LockT, PendingOK
    <2>2. ListDisjoint' /\ Covered' /\ WaitsCopied' /\ Cleared' /\ Behind' /\ OwnIo' /\ HeldBackByRange'
      BY <1>1 DEF IndInv, vars, ListDisjoint, Covered, WaitsCopied, Cleared, Behind, OwnIo,
                  HeldBackByRange, Held
    <2> QED
      BY <2>1, <2>2 DEF IndInv
  <1>2. CASE Next
    <2>1. ASSUME NEW i \in Ios, bdev_io_submit(i) \/ bdev_io_complete(i)
          PROVE  IndInv'
      BY <2>1, SubmitInv, CompleteInv
    <2>2. ASSUME NEW t \in Threads,
                 bdev_channel_create(t) \/ spdk_put_io_channel(t) \/ bdev_channel_destroy(t)
          PROVE  IndInv'
      BY <2>2, CreateInv, PutInv, DestroyInv
    <2>3. ASSUME NEW l \in Locks,
                 _bdev_lock_lba_range(l) \/ LockAllocationFails(l) \/ _bdev_unlock_lba_range(l)
          PROVE  IndInv'
      BY <2>3, LockInv, NoMemInv, UnlockCallInv
    <2>4. ASSUME NEW l \in Locks, LockStep(l)
          PROVE  IndInv'
      BY <2>4, CtxMsgInv, LockChannelInv, CheckIoInv, PassOverInv, LockedInv, CleanupInv,
         UnlockChannelInv, UnlockedInv DEF LockStep
    <2> QED
      BY <1>2, <2>1, <2>2, <2>3, <2>4 DEF Next
  <1> QED
    BY <1>1, <1>2

(* IndInv holds in every reachable state. *)
LEMMA Inductive == Spec => []IndInv
  BY InitInv, NextInv, PTL DEF Spec

(* The invariant implies that a held lock excludes other writes: its copy is on every
   channel, and what is in flight passes the copy. *)
LEMMA HeldExcludes == IndInv => RangesExclude
  <1> SUFFICES ASSUME IndInv PROVE RangesExclude
    OBVIOUS
  <1>1. ASSUME NEW l \in Locks, NEW i \in Ios, lock[l] = "held", io[i] = "submitted"
        PROVE  \E r \in ch_ranges[IoThread[i]] :
                 /\ r.lock = l /\ r \in Copy /\ ~bdev_io_range_is_locked(i, r)
                 /\ r.owner => r.lock \notin Quiesces
    <2>1. IoThread[i] \in chan /\ IoThread[i] \in Threads /\ at[l] = Done /\ l \notin waits
      BY <1>1 DEF IndInv, IoT, LockT
    <2>2. IoThread[i] < at[l]
      BY <2>1, NThreadsAssumption DEF Threads, Done
    <2>3. PICK r \in ch_ranges[IoThread[i]] : r.lock = l
      BY <1>1, <2>1, <2>2 DEF IndInv, Covered
    <2>4. ~bdev_io_range_is_locked(i, r)
      BY <1>1, <2>1, <2>3 DEF IndInv, Cleared
    <2> QED
      BY <2>1, <2>3, <2>4 DEF IndInv, CopyT
  <1>2. WritesExcluded
    <2> SUFFICES ASSUME NEW l \in Locks, NEW i \in Ios, lock[l] = "held", io[i] = "submitted",
                        IoType[i] \in {"write", "nvme"}, IoLock[i] # l
                 PROVE  IoType[i] = "write" /\ ~bdev_lba_range_overlapped(i, l)
      BY DEF WritesExcluded
    <2> QED
      BY <1>1 DEF bdev_io_range_is_locked
  <1>3. ReadsQuiesced
    <2> SUFFICES ASSUME NEW l \in Quiesces, NEW i \in Ios, lock[l] = "held", io[i] = "submitted",
                        IoType[i] = "read", bdev_lba_range_overlapped(i, l)
                 PROVE  [lock |-> l, quiesce |-> FALSE, owner |-> FALSE] \in ch_ranges[IoThread[i]]
      BY DEF ReadsQuiesced
    <2>1. l \in Locks
      BY LocksAssumption
    <2>2. PICK r \in ch_ranges[IoThread[i]] :
            /\ r.lock = l /\ r \in Copy /\ ~bdev_io_range_is_locked(i, r)
            /\ r.owner => r.lock \notin Quiesces
      BY <1>1, <2>1
    <2>3. ~r.owner /\ ~r.quiesce
      BY <2>2 DEF bdev_io_range_is_locked
    <2>4. r = [lock |-> l, quiesce |-> FALSE, owner |-> FALSE]
      BY <2>2, <2>3 DEF Copy
    <2> QED
      BY <2>2, <2>4
  <1>4. LockedDisjoint
    BY DEF IndInv, LockT, ListDisjoint, LockedDisjoint, Listed
  <1> QED
    BY <1>2, <1>3, <1>4 DEF RangesExclude

(* A held lock of a range is exclusive: no write that overlaps it is in flight on any
   channel but the owner's own, a quiesced range sees no read but on a channel created
   meanwhile, and overlapping locks are never held together; for any number of threads,
   locks and I/Os, whatever the order in which channels come and go, allocations fail,
   and locks are taken, granted and dropped. *)
THEOREM RangesExcludeAlways == Spec => []RangesExclude
  BY Inductive, HeldExcludes, PTL

(* The queues and the copies follow the bdev's list: an I/O is held back only by a range
   of its own channel, and a copy the bdev no longer lists is about to be dropped. *)
THEOREM RangesFollowedAlways == Spec => []RangesFollowed
  <1>1. IndInv => RangesFollowed
    <2> SUFFICES ASSUME IndInv PROVE RangesFollowed
      OBVIOUS
    <2>1. \A t \in Threads : ch_ranges[t] \subseteq Copy
      BY DEF IndInv, CopyT
    <2>2. TypeOK
      BY <2>1 DEF IndInv, IoT, QueueOK, CopyT, LockT, PendingOK, TypeOK, Copy
    <2>3. NoRangeLeftBehind
      BY DEF IndInv, Behind, NoRangeLeftBehind
    <2>4. HeldBackByRange
      BY DEF IndInv
    <2> QED
      BY <2>2, <2>3, <2>4 DEF RangesFollowed
  <1> QED
    BY <1>1, Inductive, PTL
=============================================================================
