---------------------------- MODULE IobufProofs -----------------------------
(***************************************************************************)
(* Proofs about Iobuf, for any number of threads, channels, entries and    *)
(* buffers, and any cache and batch sizes.                                 *)
(***************************************************************************)
EXTENDS Iobuf, FiniteSetTheorems, SequenceTheorems, TLAPS

-----------------------------------------------------------------------------
(* The inductive invariant. *)

Basic ==
  /\ pool \subseteq Buffers
  /\ channels \in [Threads -> SUBSET Channels]
  /\ cache \in [Channels -> SUBSET Buffers]
  /\ cache_count \in [Channels -> Nat]
  /\ queue \in [Threads -> Seq(Entries)]
  /\ module \in [Entries -> Channels]
  /\ held \in [Channels -> SUBSET Buffers]
  /\ at \in [Threads -> Point]

(* The ring, the caches and what users hold are disjoint, and make up all buffers. *)
Disjoint ==
  /\ \A c \in Channels : pool \cap cache[c] = {} /\ pool \cap held[c] = {}
  /\ \A c, d \in Channels :
       /\ cache[c] \cap held[d] = {}
       /\ c # d => cache[c] \cap cache[d] = {} /\ held[c] \cap held[d] = {}
  /\ \A b \in Buffers : b \in pool \/ \E c \in Channels : b \in cache[c] \/ b \in held[c]

Counted == \A c \in Channels : cache_count[c] = Cardinality(cache[c])

Slots == \A t \in Threads : Cardinality(channels[t]) <= MaxChannels

(* A thread works on its own channels only, which alone have buffers; one that
   is being populated has not more than it is to get. *)
OwnChannels ==
  /\ \A t \in Threads :
       /\ \A c \in channels[t] : ThreadOf[c] = t
       /\ at[t].pt \in {"populate", "fini"} => at[t].ch \in channels[t] /\ held[at[t].ch] = {}
       /\ at[t].pt = "populate" => cache_count[at[t].ch] <= CacheSize[at[t].ch]
  /\ \A c \in Channels : c \notin channels[ThreadOf[c]] => cache[c] = {} /\ held[c] = {}

(* The channel that entry e asked is one that thread t has and is not changing. *)
Asked(t, e) ==
  /\ module[e] \in channels[t]
  /\ at[t].pt \in {"populate", "fini"} => module[e] # at[t].ch

(* An entry waits on the thread of the channel it asked. *)
OwnQueue == \A t \in Threads : \A k \in DOMAIN queue[t] : Asked(t, queue[t][k])

IndInv ==
  /\ Basic /\ Disjoint /\ Counted /\ Slots /\ OwnChannels /\ OwnQueue
  /\ CacheBounded /\ ShareKept

-----------------------------------------------------------------------------
(* The operators. *)

(* The buffers of a set that a call takes are at most as many as it asks for. *)
LEMMA SomeAre ==
  ASSUME NEW S, IsFiniteSet(S), NEW n \in Nat, NEW B \in Some(S, n)
  PROVE  /\ B \subseteq S /\ IsFiniteSet(B) /\ Cardinality(B) \in Nat /\ Cardinality(S) \in Nat
         /\ Cardinality(B) = LeastOf(n, Cardinality(S))
         /\ Cardinality(B) <= n /\ Cardinality(B) <= Cardinality(S)
  <1>1. B \subseteq S /\ Cardinality(B) = LeastOf(n, Cardinality(S))
    BY DEF Some
  <1>2. IsFiniteSet(B) /\ Cardinality(B) \in Nat /\ Cardinality(S) \in Nat
    BY <1>1, FS_Subset, FS_CardinalityType
  <1> QED
    BY <1>1, <1>2 DEF LeastOf

(* A set without elements is empty. *)
LEMMA NoneLeft ==
  ASSUME NEW S, IsFiniteSet(S)
  PROVE  Cardinality(S) = 0 <=> S = {}
  BY FS_EmptySet

(* One element less. *)
LEMMA OneLess ==
  ASSUME NEW S, IsFiniteSet(S), NEW x \in S
  PROVE  /\ IsFiniteSet(S \ {x}) /\ Cardinality(S) \in Nat
         /\ Cardinality(S \ {x}) = Cardinality(S) - 1 /\ Cardinality(S \ {x}) \in Nat
  BY FS_RemoveElement, FS_CardinalityType

(* The same with one element more. *)
LEMMA OneMore ==
  ASSUME NEW S, IsFiniteSet(S), NEW x, x \notin S
  PROVE  /\ IsFiniteSet(S \cup {x}) /\ Cardinality(S) \in Nat
         /\ Cardinality(S \cup {x}) = Cardinality(S) + 1
  BY FS_AddElement, FS_CardinalityType

(* A channel without a cache takes one buffer at a time. *)
LEMMA MaxWithOne ==
  ASSUME NEW n \in Nat
  PROVE  Max({n, 1}) = IF n = 0 THEN 1 ELSE n
  <1> DEFINE m == IF n = 0 THEN 1 ELSE n
  <1>1. m \in {n, 1} /\ \A y \in {n, 1} : m >= y
    OBVIOUS
  <1>2. \A x \in {n, 1} : (\A y \in {n, 1} : x >= y) => x = m
    OBVIOUS
  <1> QED
    BY <1>1, <1>2 DEF Max

(* What was added is taken away again. *)
LEMMA BackAgain ==
  ASSUME NEW m \in Nat, NEW n \in Nat, NEW x, x = m + n, NEW y, y = x - n
  PROVE  y = m
  OBVIOUS

(* Sets of buffers are finite. *)
LEMMA BuffersFinite ==
  ASSUME NEW S \in SUBSET Buffers
  PROVE  IsFiniteSet(S) /\ Cardinality(S) \in Nat /\ Cardinality(S) <= Cardinality(Buffers)
  BY FiniteAssumption, FS_Subset, FS_CardinalityType

(* Where a call is, as a record. *)
LEMMA PointHas ==
  ASSUME NEW p \in Point
  PROVE  /\ p.pt \in {"populate", "fini"} => p.ch \in Channels
         /\ p.pt = "cb_fn" => p.entry \in Entries
  BY DEF Point, Idle

(* What a point says of the thread that is there. *)
LEMMA PointsAre ==
  /\ Idle \in Point /\ Idle.pt = "idle"
  /\ \A c \in Channels :
       /\ [pt |-> "populate", ch |-> c] \in Point /\ [pt |-> "fini", ch |-> c] \in Point
       /\ [pt |-> "populate", ch |-> c].pt = "populate" /\ [pt |-> "fini", ch |-> c].pt = "fini"
       /\ [pt |-> "populate", ch |-> c].ch = c /\ [pt |-> "fini", ch |-> c].ch = c
  /\ \A e \in Entries :
       [pt |-> "cb_fn", entry |-> e] \in Point /\ [pt |-> "cb_fn", entry |-> e].pt = "cb_fn"
  BY DEF Point, Idle

-----------------------------------------------------------------------------
(* Buffers that move between the ring, one cache and the users of its channel. *)

Kept(c) == cache[c] \cup held[c] \cup pool
Share(c) == Cardinality(cache[c]) + Cardinality(held[c])

(* Only c and the ring change, and together they have what they had. *)
MovesWithin(c) ==
  /\ pool' \subseteq Buffers
  /\ cache' \in [Channels -> SUBSET Buffers] /\ held' \in [Channels -> SUBSET Buffers]
  /\ cache_count' \in [Channels -> Nat]
  /\ \A d \in Channels \ {c} : /\ cache'[d] = cache[d] /\ held'[d] = held[d]
                               /\ cache_count'[d] = cache_count[d]
  /\ pool' \cap cache'[c] = {} /\ pool' \cap held'[c] = {} /\ cache'[c] \cap held'[c] = {}
  /\ Kept(c)' = Kept(c)
  /\ cache_count'[c] = Cardinality(cache'[c])

(* No buffer is lost, or in two places, after such a move. *)
LEMMA MoveKeepsDisjoint ==
  ASSUME IndInv, NEW c \in Channels, MovesWithin(c)
  PROVE  Disjoint' /\ Counted'
  <1>1. /\ \A d \in Channels : pool \cap cache[d] = {} /\ pool \cap held[d] = {}
        /\ \A d, f \in Channels :
             /\ cache[d] \cap held[f] = {}
             /\ d # f => cache[d] \cap cache[f] = {} /\ held[d] \cap held[f] = {}
        /\ \A b \in Buffers : b \in pool \/ \E d \in Channels : b \in cache[d] \/ b \in held[d]
    BY DEF IndInv, Disjoint
  <1>2. \A d \in Channels \ {c} : Kept(c) \cap cache[d] = {} /\ Kept(c) \cap held[d] = {}
    BY <1>1 DEF Kept
  <1>3. Kept(c) = cache'[c] \cup held'[c] \cup pool'
    BY DEF MovesWithin, Kept
  <1>4. \A d \in Channels : pool' \cap cache'[d] = {} /\ pool' \cap held'[d] = {}
    BY <1>2, <1>3 DEF MovesWithin
  <1>5. ASSUME NEW d \in Channels, NEW f \in Channels
        PROVE  /\ cache'[d] \cap held'[f] = {}
               /\ d # f => cache'[d] \cap cache'[f] = {} /\ held'[d] \cap held'[f] = {}
    <2>1. CASE d = c /\ f = c
      BY <2>1 DEF MovesWithin
    <2>2. CASE d = c /\ f # c
      BY <1>2, <1>3, <2>2 DEF MovesWithin
    <2>3. CASE d # c /\ f = c
      BY <1>2, <1>3, <2>3 DEF MovesWithin
    <2>4. CASE d # c /\ f # c
      BY <1>1, <2>4 DEF MovesWithin
    <2> QED
      BY <2>1, <2>2, <2>3, <2>4
  <1>6. ASSUME NEW b \in Buffers
        PROVE  b \in pool' \/ \E d \in Channels : b \in cache'[d] \/ b \in held'[d]
    <2>1. CASE b \in Kept(c)
      BY <1>3, <2>1
    <2>2. CASE b \notin Kept(c)
      <3>1. PICK d \in Channels : b \in cache[d] \/ b \in held[d]
        BY <1>1, <2>2 DEF Kept
      <3>2. d # c
        BY <2>2, <3>1 DEF Kept
      <3> QED
        BY <3>1, <3>2 DEF MovesWithin
    <2> QED
      BY <2>1, <2>2
  <1>7. Counted'
    BY DEF IndInv, Counted, MovesWithin
  <1> QED
    BY <1>4, <1>5, <1>6, <1>7 DEF Disjoint

(* The bound on the cache of one channel, and its share of the buffers. *)
Bounded(c) ==
  /\ CacheSize[c] = 0 => cache[c] = {}
  /\ CacheSize[c] > 0 => Cardinality(cache[c]) < CacheSize[c] + LeastOf(BatchSize, CacheSize[c])

(* The users of a channel get or put buffers. *)
LEMMA UserMoveInd ==
  ASSUME IndInv, NEW c \in Channels, MovesWithin(c), UNCHANGED <<channels, at>>,
         c \in channels[ThreadOf[c]], at[ThreadOf[c]].pt \notin {"populate", "fini"},
         Bounded(c)', Share(c) >= CacheSize[c] => Share(c)' >= CacheSize[c],
         queue' \in [Threads -> Seq(Entries)], module' \in [Entries -> Channels], OwnQueue'
  PROVE  IndInv'
  <1>1. Basic' /\ Slots'
    BY DEF IndInv, Basic, MovesWithin, Slots
  <1>2. Disjoint' /\ Counted'
    BY MoveKeepsDisjoint
  <1>3. OwnChannels'
    <2>1. \A t \in Threads : at[t].pt = "populate" => at[t].ch \in Channels \ {c}
      BY ThreadOfAssumption DEF IndInv, Basic, OwnChannels
    <2>2. \A t \in Threads : at[t].pt = "populate" => cache_count'[at[t].ch] = cache_count[at[t].ch]
      BY <2>1 DEF MovesWithin
    <2>3. \A d \in Channels : d \notin channels[ThreadOf[d]] => cache'[d] = {} /\ held'[d] = {}
      BY DEF IndInv, OwnChannels, MovesWithin
    <2>4. \A t \in Threads : at[t].pt \in {"populate", "fini"} => at[t].ch \in Channels \ {c}
      BY ThreadOfAssumption DEF IndInv, Basic, OwnChannels
    <2>5. \A t \in Threads : at[t].pt \in {"populate", "fini"} => held'[at[t].ch] = held[at[t].ch]
      BY <2>4 DEF MovesWithin
    <2> QED
      BY <2>2, <2>3, <2>5 DEF IndInv, OwnChannels
  <1>4. CacheBounded'
    BY DEF IndInv, CacheBounded, Bounded, MovesWithin
  <1>5. ShareKept'
    BY DEF IndInv, ShareKept, Share, MovesWithin
  <1> QED
    BY <1>1, <1>2, <1>3, <1>4, <1>5 DEF IndInv

(* A channel whose thread runs its users is in its slot and not being changed. *)
LEMMA UsersChannel ==
  ASSUME IndInv, NEW c \in Channels
  PROVE  /\ ThreadOf[c] \in Threads
         /\ At(ThreadOf[c], "idle") \/ At(ThreadOf[c], "cb_fn") =>
              at[ThreadOf[c]].pt \notin {"populate", "fini"}
         /\ cache[c] \subseteq Buffers /\ held[c] \subseteq Buffers /\ pool \subseteq Buffers
         /\ IsFiniteSet(cache[c]) /\ IsFiniteSet(held[c]) /\ IsFiniteSet(pool)
         /\ cache_count[c] = Cardinality(cache[c]) /\ cache_count[c] \in Nat
         /\ Cardinality(held[c]) \in Nat /\ Cardinality(pool) \in Nat
         /\ pool \cap cache[c] = {} /\ pool \cap held[c] = {} /\ cache[c] \cap held[c] = {}
         /\ CacheSize[c] \in Nat /\ BatchSize \in Nat \ {0} /\ PopulateSize \in Nat \ {0}
         /\ Bounded(c)
  <1>1. ThreadOf[c] \in Threads /\ CacheSize[c] \in Nat /\ BatchSize \in Nat \ {0}
        /\ PopulateSize \in Nat \ {0}
    BY ThreadOfAssumption, CacheSizeAssumption, SizesAssumption
  <1>2. cache[c] \subseteq Buffers /\ held[c] \subseteq Buffers /\ pool \subseteq Buffers
        /\ cache_count[c] \in Nat
    BY DEF IndInv, Basic
  <1>3. pool \cap cache[c] = {} /\ pool \cap held[c] = {} /\ cache[c] \cap held[c] = {}
    BY DEF IndInv, Disjoint
  <1>4. cache_count[c] = Cardinality(cache[c]) /\ Bounded(c)
    BY DEF IndInv, Counted, CacheBounded, Bounded
  <1> QED
    BY <1>1, <1>2, <1>3, <1>4, BuffersFinite DEF At

(* A cached buffer is taken. *)
LEMMA TakeCachedInd ==
  ASSUME IndInv, NEW c \in Channels, TakeCached(c), UNCHANGED <<channels, at>>,
         UserRuns(ThreadOf[c]), c \in channels[ThreadOf[c]]
  PROVE  IndInv'
  <1>1. PICK b \in cache[c] : /\ cache' = [cache EXCEPT ![c] = @ \ {b}]
                             /\ cache_count' = [cache_count EXCEPT ![c] = @ - 1]
                             /\ held' = [held EXCEPT ![c] = @ \cup {b}]
                             /\ UNCHANGED <<pool, queue, module>>
    BY DEF TakeCached
  <1>2. /\ cache'[c] = cache[c] \ {b} /\ held'[c] = held[c] \cup {b}
        /\ cache_count'[c] = cache_count[c] - 1 /\ pool' = pool
        /\ \A d \in Channels \ {c} : cache'[d] = cache[d] /\ held'[d] = held[d]
                                     /\ cache_count'[d] = cache_count[d]
    BY <1>1 DEF IndInv, Basic
  <1>3. /\ Cardinality(cache'[c]) = Cardinality(cache[c]) - 1
        /\ Cardinality(held'[c]) = Cardinality(held[c]) + 1
        /\ Cardinality(cache'[c]) \in Nat
    <2>1. b \notin held[c] /\ IsFiniteSet(cache[c]) /\ IsFiniteSet(held[c])
      BY UsersChannel
    <2> QED
      BY <1>2, <2>1, OneLess, OneMore
  <1>4. MovesWithin(c)
    BY <1>1, <1>2, <1>3, UsersChannel DEF MovesWithin, Kept, IndInv, Basic
  <1>5. Bounded(c)'
    BY <1>2, <1>3, UsersChannel DEF Bounded, LeastOf
  <1>6. Share(c)' = Share(c)
    BY <1>3, UsersChannel DEF Share
  <1>7. queue' \in [Threads -> Seq(Entries)] /\ module' \in [Entries -> Channels] /\ OwnQueue'
    BY <1>1 DEF IndInv, Basic, OwnQueue, Asked
  <1> QED
    BY <1>4, <1>5, <1>6, <1>7, UserMoveInd, UsersChannel DEF UserRuns

(* A batch is taken from the ring. *)
LEMMA TakeBatchInd ==
  ASSUME IndInv, NEW c \in Channels, TakeBatch(c), UNCHANGED <<channels, at>>,
         UserRuns(ThreadOf[c]), c \in channels[ThreadOf[c]]
  PROVE  IndInv'
  <1> DEFINE n == LeastOf(BatchSize, Max({CacheSize[c], 1}))
  <1>1. PICK B \in Some(pool, n) : \E b \in B :
          /\ pool' = pool \ B
          /\ cache' = [cache EXCEPT ![c] = B \ {b}]
          /\ cache_count' = [cache_count EXCEPT ![c] = @ + Cardinality(B) - 1]
          /\ held' = [held EXCEPT ![c] = @ \cup {b}]
    BY DEF TakeBatch
  <1>2. PICK b \in B : /\ pool' = pool \ B
                      /\ cache' = [cache EXCEPT ![c] = B \ {b}]
                      /\ cache_count' = [cache_count EXCEPT ![c] = @ + Cardinality(B) - 1]
                      /\ held' = [held EXCEPT ![c] = @ \cup {b}]
    BY <1>1
  <1>3. /\ n \in Nat /\ (CacheSize[c] = 0 => n = 1) /\ (CacheSize[c] > 0 => n <= CacheSize[c])
    BY UsersChannel, MaxWithOne DEF LeastOf
  <1>4. /\ B \subseteq pool /\ IsFiniteSet(B) /\ Cardinality(B) \in Nat /\ Cardinality(B) <= n
    BY <1>3, SomeAre, UsersChannel
  <1>5. /\ cache'[c] = B \ {b} /\ held'[c] = held[c] \cup {b} /\ cache[c] = {}
        /\ cache_count'[c] = cache_count[c] + Cardinality(B) - 1
        /\ \A d \in Channels \ {c} : cache'[d] = cache[d] /\ held'[d] = held[d]
                                     /\ cache_count'[d] = cache_count[d]
    BY <1>2 DEF IndInv, Basic, TakeBatch
  <1>6. /\ Cardinality(cache'[c]) = Cardinality(B) - 1 /\ IsFiniteSet(cache'[c])
        /\ Cardinality(cache'[c]) \in Nat
        /\ Cardinality(held'[c]) = Cardinality(held[c]) + 1
        /\ Cardinality(cache[c]) = 0
    <2>1. b \notin held[c] /\ IsFiniteSet(held[c])
      BY <1>4, UsersChannel
    <2>2. /\ Cardinality(B \ {b}) = Cardinality(B) - 1 /\ IsFiniteSet(B \ {b})
          /\ Cardinality(B \ {b}) \in Nat
      BY <1>4, OneLess
    <2>3. Cardinality(held[c] \cup {b}) = Cardinality(held[c]) + 1
      BY <2>1, OneMore
    <2> QED
      BY <1>5, <2>2, <2>3, FS_EmptySet
  <1>7. MovesWithin(c)
    <2>0. cache_count[c] = 0
      BY <1>6, UsersChannel
    <2>1. cache_count'[c] = Cardinality(cache'[c])
      BY <1>4, <1>5, <1>6, <2>0
    <2>2. /\ pool' \subseteq Buffers /\ cache' \in [Channels -> SUBSET Buffers]
          /\ held' \in [Channels -> SUBSET Buffers] /\ cache_count' \in [Channels -> Nat]
      BY <1>2, <1>4, <1>6, <2>1, UsersChannel DEF IndInv, Basic
    <2> QED
      BY <1>2, <1>4, <1>5, <2>1, <2>2, UsersChannel DEF MovesWithin, Kept
  <1>8. Bounded(c)'
    <2>1. CacheSize[c] = 0 => cache'[c] = {}
      BY <1>3, <1>4, <1>6, NoneLeft
    <2>2. CacheSize[c] > 0 => Cardinality(cache'[c]) < CacheSize[c]
      BY <1>3, <1>4, <1>6, UsersChannel
    <2> QED
      BY <1>6, <2>1, <2>2, UsersChannel DEF Bounded, LeastOf
  <1>9. Share(c) >= CacheSize[c] => Share(c)' >= CacheSize[c]
    BY <1>6, UsersChannel DEF Share
  <1>10. queue' \in [Threads -> Seq(Entries)] /\ module' \in [Entries -> Channels] /\ OwnQueue'
    BY DEF IndInv, Basic, OwnQueue, Asked, TakeBatch
  <1> QED
    BY <1>7, <1>8, <1>9, <1>10, UserMoveInd, UsersChannel DEF UserRuns

-----------------------------------------------------------------------------
(* Queues. *)

(* A queue whose entries waited there before is still the thread's own. *)
LEMMA QueueKept ==
  ASSUME IndInv, NEW t \in Threads, NEW q \in Seq(Entries),
         \A j \in DOMAIN q : \E k \in DOMAIN queue[t] : q[j] = queue[t][k],
         queue' = [queue EXCEPT ![t] = q], module' = module, channels' = channels,
         \A u \in Threads : at'[u] = at[u] \/ at'[u].pt \notin {"populate", "fini"}
  PROVE  queue' \in [Threads -> Seq(Entries)] /\ OwnQueue'
  <1>1. /\ queue' \in [Threads -> Seq(Entries)] /\ queue'[t] = q
        /\ \A u \in Threads \ {t} : queue'[u] = queue[u]
    BY DEF IndInv, Basic
  <1>2. \A u \in Threads : \A k \in DOMAIN queue[u] : Asked(u, queue[u][k])
    BY DEF IndInv, OwnQueue
  <1>3. \A u \in Threads : \A k \in DOMAIN queue'[u] : \E j \in DOMAIN queue[u] : queue'[u][k] = queue[u][j]
    BY <1>1
  <1>4. ASSUME NEW u \in Threads, NEW k \in DOMAIN queue'[u]
        PROVE  /\ module'[queue'[u][k]] \in channels'[u]
               /\ at'[u].pt \in {"populate", "fini"} => module'[queue'[u][k]] # at'[u].ch
    BY <1>2, <1>3 DEF Asked
  <1> QED
    BY <1>1, <1>4 DEF OwnQueue, Asked

(* The first entry leaves. *)
LEMMA TailOf ==
  ASSUME NEW S, NEW s \in Seq(S), s # <<>>
  PROVE  /\ Tail(s) \in Seq(S) /\ Head(s) = s[1] /\ 1 \in DOMAIN s /\ Head(s) \in S
         /\ \A j \in DOMAIN Tail(s) : \E k \in DOMAIN s : Tail(s)[j] = s[k]
  <1>1. /\ Tail(s) \in Seq(S) /\ Len(Tail(s)) = Len(s) - 1 /\ Head(s) \in S
        /\ \A j \in 1 .. Len(Tail(s)) : Tail(s)[j] = s[j + 1]
    BY HeadTailProperties
  <1>2. /\ Len(s) \in Nat /\ DOMAIN s = 1 .. Len(s) /\ Len(s) # 0
        /\ DOMAIN Tail(s) = 1 .. Len(Tail(s))
    BY <1>1, LenProperties, EmptySeq
  <1>3. Head(s) = s[1]
    OBVIOUS
  <1> QED
    BY <1>1, <1>2, <1>3

(* The last entry becomes the first. *)
LEMMA LastFirst ==
  ASSUME NEW S, NEW s \in Seq(S), s # <<>>
  PROVE  /\ <<Last(s)>> \o Front(s) \in Seq(S)
         /\ \A j \in DOMAIN (<<Last(s)>> \o Front(s)) :
              \E k \in DOMAIN s : (<<Last(s)>> \o Front(s))[j] = s[k]
  <1> DEFINE f == Front(s)
             q == <<Last(s)>> \o f
  <1>1. /\ Len(s) \in Nat \ {0} /\ DOMAIN s = 1 .. Len(s)
        /\ \A k \in 1 .. Len(s) : s[k] \in S
    BY LenProperties, EmptySeq, ElementOfSeq
  <1>2. /\ f \in Seq(S) /\ Len(f) = Len(s) - 1 /\ \A j \in 1 .. Len(f) : f[j] = s[j]
    BY <1>1, SubSeqProperties DEF Front
  <1>3. <<Last(s)>> \in Seq(S) /\ Len(<<Last(s)>>) = 1 /\ <<Last(s)>>[1] = s[Len(s)]
    BY <1>1 DEF Last
  <1> HIDE DEF f
  <1>4. /\ q \in Seq(S) /\ Len(q) = Len(s)
        /\ \A j \in 1 .. Len(s) : q[j] = IF j <= 1 THEN <<Last(s)>>[j] ELSE f[j - 1]
    <2>1. /\ q \in Seq(S) /\ Len(q) = Len(<<Last(s)>>) + Len(f)
          /\ \A j \in 1 .. Len(<<Last(s)>>) + Len(f) :
               q[j] = IF j <= Len(<<Last(s)>>) THEN <<Last(s)>>[j] ELSE f[j - Len(<<Last(s)>>)]
      BY <1>2, <1>3, ConcatProperties
    <2>2. Len(<<Last(s)>>) + Len(f) = Len(s)
      BY <1>1, <1>2, <1>3
    <2> QED
      BY <1>3, <2>1, <2>2
  <1>5. DOMAIN q = 1 .. Len(s)
    BY <1>4, LenProperties
  <1>6. ASSUME NEW j \in 1 .. Len(s)
        PROVE  \E k \in 1 .. Len(s) : q[j] = s[k]
    <2>1. CASE j = 1
      BY <1>1, <1>3, <1>4, <2>1
    <2>2. CASE j # 1
      <3>1. j - 1 \in 1 .. Len(f) /\ j - 1 \in 1 .. Len(s)
        BY <1>1, <1>2, <2>2
      <3>2. q[j] = f[j - 1]
        BY <1>1, <1>4, <2>2
      <3> QED
        BY <1>2, <3>1, <3>2
    <2> QED
      BY <2>1, <2>2
  <1> QED
    BY <1>1, <1>4, <1>5, <1>6 DEF f

(* One entry is taken out. *)
LEMMA RemoveAtOf ==
  ASSUME NEW S, NEW s \in Seq(S), NEW n \in DOMAIN s
  PROVE  /\ RemoveAt(s, n) \in Seq(S)
         /\ \A j \in DOMAIN RemoveAt(s, n) : \E k \in DOMAIN s : RemoveAt(s, n)[j] = s[k]
  <1> DEFINE f == SubSeq(s, 1, n - 1)
             g == SubSeq(s, n + 1, Len(s))
  <1>1. /\ Len(s) \in Nat /\ DOMAIN s = 1 .. Len(s) /\ n \in 1 .. Len(s)
        /\ \A k \in 1 .. Len(s) : s[k] \in S
    BY LenProperties, ElementOfSeq
  <1>2. /\ f \in Seq(S) /\ Len(f) = n - 1 /\ \A j \in 1 .. Len(f) : f[j] = s[j]
    BY <1>1, SubSeqProperties
  <1>3. /\ g \in Seq(S) /\ Len(g) = Len(s) - n /\ \A j \in 1 .. Len(g) : g[j] = s[n + j]
    BY <1>1, SubSeqProperties
  <1> HIDE DEF f, g
  <1>4. /\ f \o g \in Seq(S) /\ Len(f \o g) = Len(s) - 1
        /\ \A j \in 1 .. Len(s) - 1 : (f \o g)[j] = IF j <= n - 1 THEN f[j] ELSE g[j - (n - 1)]
    <2>1. /\ f \o g \in Seq(S) /\ Len(f \o g) = Len(f) + Len(g)
          /\ \A j \in 1 .. Len(f) + Len(g) :
               (f \o g)[j] = IF j <= Len(f) THEN f[j] ELSE g[j - Len(f)]
      BY <1>2, <1>3, ConcatProperties
    <2>2. Len(f) + Len(g) = Len(s) - 1
      BY <1>1, <1>2, <1>3
    <2> QED
      BY <1>2, <2>1, <2>2
  <1>5. DOMAIN (f \o g) = 1 .. Len(s) - 1
    BY <1>4, LenProperties
  <1>6. ASSUME NEW j \in 1 .. Len(s) - 1
        PROVE  \E k \in 1 .. Len(s) : (f \o g)[j] = s[k]
    <2>1. CASE j <= n - 1
      BY <1>1, <1>2, <1>4, <2>1
    <2>2. CASE ~ (j <= n - 1)
      <3>1. j - (n - 1) \in 1 .. Len(g) /\ n + (j - (n - 1)) \in 1 .. Len(s)
        BY <1>1, <1>3, <2>2
      <3>2. (f \o g)[j] = g[j - (n - 1)]
        BY <1>4, <2>2
      <3> QED
        BY <1>3, <3>1, <3>2
    <2> QED
      BY <2>1, <2>2
  <1> QED
    BY <1>1, <1>4, <1>5, <1>6 DEF RemoveAt, f, g

-----------------------------------------------------------------------------
(* The other actions. *)

(* Steps that move no buffer, and go from user code to user code. *)
LEMMA QueueInd ==
  ASSUME IndInv, UNCHANGED <<pool, channels, cache, cache_count, held>>,
         queue' \in [Threads -> Seq(Entries)], module' \in [Entries -> Channels], OwnQueue',
         at' \in [Threads -> Point],
         \A t \in Threads : at'[t] = at[t] \/ (UserRuns(t) /\ at'[t].pt \in {"idle", "cb_fn"})
  PROVE  IndInv'
  <1>1. Basic' /\ Disjoint' /\ Counted' /\ Slots' /\ CacheBounded'
    BY DEF IndInv, Basic, Disjoint, Counted, Slots, CacheBounded
  <1>2. OwnChannels'
    BY DEF IndInv, OwnChannels
  <1>3. ShareKept'
    BY ThreadOfAssumption DEF IndInv, ShareKept, UserRuns, At
  <1> QED
    BY <1>1, <1>2, <1>3 DEF IndInv

(* An entry waits on the thread of its channel. *)
LEMMA EnqueueInd ==
  ASSUME IndInv, NEW c \in Channels, NEW e \in Entries, Enqueue(c, e), UNCHANGED <<channels, at>>,
         UserRuns(ThreadOf[c]), c \in channels[ThreadOf[c]],
         \A u \in Threads : e \notin Waiting(u)
  PROVE  IndInv'
  <1> DEFINE t == ThreadOf[c]
  <1>1. t \in Threads
    BY ThreadOfAssumption
  <1>2. /\ queue \in [Threads -> Seq(Entries)] /\ module \in [Entries -> Channels]
        /\ queue' = [queue EXCEPT ![t] = Append(queue[t], e)]
        /\ module' = [module EXCEPT ![e] = c]
    BY DEF IndInv, Basic, Enqueue
  <1> HIDE DEF t
  <1>3. /\ Append(queue[t], e) \in Seq(Entries)
        /\ Len(Append(queue[t], e)) = Len(queue[t]) + 1
        /\ \A k \in 1 .. Len(queue[t]) : Append(queue[t], e)[k] = queue[t][k]
        /\ Append(queue[t], e)[Len(queue[t]) + 1] = e
    BY <1>1, <1>2, AppendProperties
  <1>4. /\ DOMAIN Append(queue[t], e) = 1 .. Len(queue[t]) + 1 /\ Len(queue[t]) \in Nat
        /\ DOMAIN queue[t] = 1 .. Len(queue[t])
    BY <1>1, <1>2, <1>3, LenProperties
  <1>5. /\ queue' \in [Threads -> Seq(Entries)] /\ queue'[t] = Append(queue[t], e)
        /\ \A u \in Threads \ {t} : queue'[u] = queue[u]
        /\ module' \in [Entries -> Channels] /\ module'[e] = c
        /\ \A x \in Entries \ {e} : module'[x] = module[x]
    BY <1>1, <1>2, <1>3
  <1>6. \A u \in Threads : \A k \in DOMAIN queue[u] :
          /\ queue[u][k] \in Entries \ {e}
          /\ Asked(u, queue[u][k])
    BY <1>2, ElementOfSeq, LenProperties DEF Waiting, ToSet, IndInv, OwnQueue
  <1>7. OwnQueue'
    <2> SUFFICES ASSUME NEW u \in Threads, NEW k \in DOMAIN queue'[u]
                 PROVE  Asked(u, queue[u][k])'
      BY DEF OwnQueue
    <2>1. CASE u # t \/ k # Len(queue[t]) + 1
      <3>1. k \in DOMAIN queue[u] /\ queue'[u][k] = queue[u][k]
        <4>1. CASE u # t
          BY <1>5, <4>1
        <4>2. CASE u = t
          <5>1. k \in 1 .. Len(queue[t]) + 1
            BY <1>4, <1>5, <4>2
          <5>2. k \in 1 .. Len(queue[t])
            BY <1>4, <2>1, <4>2, <5>1
          <5> QED
            BY <1>3, <1>4, <1>5, <4>2, <5>2
        <4> QED
          BY <4>1, <4>2
      <3> QED
        BY <1>5, <1>6, <3>1 DEF Asked
    <2>2. CASE u = t /\ k = Len(queue[t]) + 1
      BY <1>3, <1>5, <2>2, UsersChannel DEF t, Asked, UserRuns
    <2> QED
      BY <2>1, <2>2
  <1> QED
    BY <1>5, <1>7, QueueInd DEF Enqueue, IndInv, Basic

(* The callback of an entry returns. *)
LEMMA CbReturnsInd ==
  ASSUME IndInv, NEW t \in Threads, CbReturns(t)
  PROVE  IndInv'
  <1>1. /\ queue \in [Threads -> Seq(Entries)] /\ module' = module
        /\ module \in [Entries -> Channels] /\ at \in [Threads -> Point]
        /\ at' = [at EXCEPT ![t] = Idle]
    BY DEF IndInv, Basic, CbReturns, Goto
  <1>2. /\ at' \in [Threads -> Point] /\ at'[t] = Idle
        /\ \A u \in Threads \ {t} : at'[u] = at[u]
        /\ channels' = channels
        /\ \A u \in Threads : at'[u] = at[u] \/ at'[u].pt \notin {"populate", "fini"}
    BY <1>1, PointsAre DEF CbReturns
  <1>3. queue' \in [Threads -> Seq(Entries)] /\ OwnQueue'
    <2>1. CASE queue' = queue
      BY <1>1, <1>2, <2>1 DEF IndInv, OwnQueue, Asked
    <2>2. CASE queue' # queue
      <3>1. queue[t] # <<>> /\ queue' = [queue EXCEPT ![t] = <<Last(queue[t])>> \o Front(queue[t])]
        BY <2>2 DEF CbReturns
      <3> DEFINE q == <<Last(queue[t])>> \o Front(queue[t])
      <3>2. q \in Seq(Entries) /\ \A j \in DOMAIN q : \E k \in DOMAIN queue[t] : q[j] = queue[t][k]
        BY <1>1, <3>1, LastFirst
      <3> HIDE DEF q
      <3>3. queue' = [queue EXCEPT ![t] = q]
        BY <3>1 DEF q
      <3> QED
        <4>1. /\ module' = module /\ channels' = channels
              /\ \A u \in Threads : at'[u] = at[u] \/ at'[u].pt \notin {"populate", "fini"}
          BY <1>1, <1>2
        <4> QED
          BY <3>2, <3>3, <4>1, QueueKept
    <2> QED
      BY <2>1, <2>2
  <1> QED
    BY <1>1, <1>2, <1>3, PointsAre, QueueInd DEF CbReturns, UserRuns

(* A waiting entry is aborted. *)
LEMMA AbortInd ==
  ASSUME IndInv, NEW t \in Threads, NEW e \in Entries, spdk_iobuf_entry_abort(t, e)
  PROVE  IndInv'
  <1>1. PICK k \in DOMAIN queue[t] : queue' = [queue EXCEPT ![t] = RemoveAt(queue[t], k)]
    BY DEF spdk_iobuf_entry_abort
  <1>2. queue[t] \in Seq(Entries) /\ module' = module
    BY DEF IndInv, Basic, spdk_iobuf_entry_abort
  <1>3. queue' \in [Threads -> Seq(Entries)] /\ OwnQueue'
    <2> DEFINE q == RemoveAt(queue[t], k)
    <2>1. q \in Seq(Entries) /\ \A j \in DOMAIN q : \E i \in DOMAIN queue[t] : q[j] = queue[t][i]
      BY <1>2, RemoveAtOf
    <2> HIDE DEF q
    <2>2. queue' = [queue EXCEPT ![t] = q]
      BY <1>1 DEF q
    <2> QED
      BY <1>2, <2>1, <2>2, QueueKept DEF spdk_iobuf_entry_abort
  <1> QED
    BY <1>3, QueueInd DEF spdk_iobuf_entry_abort, IndInv, Basic

(* A buffer is put back, to the ring or to the cache, from which a batch may go on to
   the ring. *)
LEMMA PutFreeInd ==
  ASSUME IndInv, NEW c \in Channels, NEW b \in held[c], PutFree(c, b), At(ThreadOf[c], "idle"),
         c \in channels[ThreadOf[c]], UNCHANGED <<channels, module>>
  PROVE  IndInv'
  <1>1. /\ held'[c] = held[c] \ {b} /\ held' \in [Channels -> SUBSET Buffers]
        /\ \A d \in Channels \ {c} : held'[d] = held[d]
    BY DEF IndInv, Basic, PutFree
  <1>2. /\ b \in Buffers /\ b \notin cache[c] /\ b \notin pool
        /\ IsFiniteSet(cache[c]) /\ IsFiniteSet(held[c])
    BY UsersChannel
  <1>3. /\ Cardinality(held'[c]) = Cardinality(held[c]) - 1 /\ Cardinality(held[c]) \in Nat
        /\ Cardinality(held'[c]) \in Nat
    BY <1>1, <1>2, OneLess
  <1>4. /\ Cardinality(cache[c] \cup {b}) = Cardinality(cache[c]) + 1
        /\ IsFiniteSet(cache[c] \cup {b}) /\ Cardinality(cache[c]) \in Nat
    BY <1>2, OneMore
  <1>5. queue' \in [Threads -> Seq(Entries)] /\ module' \in [Entries -> Channels] /\ OwnQueue'
    BY DEF IndInv, Basic, OwnQueue, Asked, PutFree
  <1>6. MovesWithin(c) /\ Bounded(c)' /\ (Share(c) >= CacheSize[c] => Share(c)' >= CacheSize[c])
    <2>1. CASE CacheSize[c] = 0 /\ pool' = pool \cup {b} /\ UNCHANGED <<cache, cache_count>>
      <3>1. MovesWithin(c)
        BY <1>1, <1>2, <2>1, UsersChannel DEF MovesWithin, Kept, IndInv, Basic
      <3>2. Bounded(c)'
        BY <2>1, UsersChannel DEF Bounded
      <3>3. Share(c)' >= CacheSize[c]
        BY <1>3, <1>4, <2>1 DEF Share
      <3> QED
        BY <3>1, <3>2, <3>3
    <2>2. CASE /\ CacheSize[c] > 0 /\ cache_count[c] + 1 < FlushAt(c)
               /\ cache' = [cache EXCEPT ![c] = @ \cup {b}]
               /\ cache_count' = [cache_count EXCEPT ![c] = @ + 1]
               /\ UNCHANGED pool
      <3>1. /\ cache'[c] = cache[c] \cup {b} /\ cache_count'[c] = cache_count[c] + 1
            /\ \A d \in Channels \ {c} : cache'[d] = cache[d] /\ cache_count'[d] = cache_count[d]
            /\ cache' \in [Channels -> SUBSET Buffers] /\ cache_count' \in [Channels -> Nat]
        BY <1>2, <2>2 DEF IndInv, Basic
      <3>2. cache_count'[c] = Cardinality(cache'[c])
        BY <1>4, <3>1, UsersChannel
      <3>3. MovesWithin(c)
        BY <1>1, <1>2, <2>2, <3>1, <3>2, UsersChannel DEF MovesWithin, Kept
      <3>4. Bounded(c)'
        BY <2>2, <3>1, <3>2, UsersChannel DEF Bounded, FlushAt
      <3>5. Share(c)' = Share(c)
        BY <1>3, <1>4, <3>1 DEF Share
      <3> QED
        BY <3>3, <3>4, <3>5
    <2>3. CASE /\ CacheSize[c] > 0 /\ cache_count[c] + 1 >= FlushAt(c)
               /\ \E B \in Some(cache[c] \cup {b}, LeastOf(BatchSize, CacheSize[c])) :
                    /\ pool' = pool \cup B
                    /\ cache' = [cache EXCEPT ![c] = (@ \cup {b}) \ B]
                    /\ cache_count' = [cache_count EXCEPT ![c] = @ + 1 - Cardinality(B)]
      <3> DEFINE n == LeastOf(BatchSize, CacheSize[c])
                 all == cache[c] \cup {b}
      <3>1. PICK B \in Some(all, n) :
                    /\ pool' = pool \cup B
                    /\ cache' = [cache EXCEPT ![c] = (@ \cup {b}) \ B]
                    /\ cache_count' = [cache_count EXCEPT ![c] = @ + 1 - Cardinality(B)]
        BY <2>3
      <3>2. n \in Nat \ {0} /\ CacheSize[c] \in Nat
            /\ CacheSize[c] < CacheSize[c] + n
        BY <2>3, UsersChannel DEF LeastOf
      <3>3. Cardinality(all) = CacheSize[c] + n
        BY <1>4, <2>3, <3>2, UsersChannel DEF Bounded, FlushAt
      <3>4. B \subseteq all /\ IsFiniteSet(B) /\ Cardinality(B) = n
        BY <1>4, <3>2, <3>3, SomeAre DEF LeastOf
      <3>5. Cardinality(all \ B) = CacheSize[c]
        <4>1. Cardinality(all \ B) = Cardinality(all) - Cardinality(all \cap B)
          BY <1>4, FS_Difference
        <4>2. all \cap B = B
          BY <3>4
        <4> HIDE DEF n, all
        <4> QED
          <5>1. Cardinality(all \ B) = Cardinality(all) - n
            BY <3>4, <4>1, <4>2
          <5> QED
            BY <3>2, <3>3, <5>1, BackAgain
      <3>6. /\ cache'[c] = all \ B
            /\ cache_count'[c] = cache_count[c] + 1 - Cardinality(B)
            /\ \A d \in Channels \ {c} : cache'[d] = cache[d] /\ cache_count'[d] = cache_count[d]
        BY <3>1 DEF IndInv, Basic
      <3>7. cache_count'[c] = CacheSize[c]
        BY <1>4, <3>2, <3>3, <3>4, <3>6, UsersChannel
      <3>8. /\ cache' \in [Channels -> SUBSET Buffers] /\ cache_count' \in [Channels -> Nat]
            /\ pool' \subseteq Buffers
        <4>1. all \subseteq Buffers
          BY <1>2, UsersChannel
        <4>2. cache' \in [Channels -> SUBSET Buffers] /\ pool' \subseteq Buffers
          BY <3>1, <3>4, <4>1, UsersChannel DEF IndInv, Basic
        <4>3. cache_count' = [cache_count EXCEPT ![c] = CacheSize[c]]
          BY <3>1, <3>6, <3>7 DEF IndInv, Basic
        <4> QED
          BY <3>2, <4>2, <4>3 DEF IndInv, Basic
      <3>9. MovesWithin(c)
        <4>1. /\ pool' \cap cache'[c] = {} /\ pool' \cap held'[c] = {} /\ cache'[c] \cap held'[c] = {}
              /\ cache'[c] \cup held'[c] \cup pool' = cache[c] \cup held[c] \cup pool
          BY <1>1, <1>2, <3>1, <3>4, <3>6, UsersChannel
        <4> QED
          BY <1>1, <3>5, <3>6, <3>7, <3>8, <4>1 DEF MovesWithin, Kept
      <3>10. Bounded(c)'
        <4>1. Cardinality(cache'[c]) < CacheSize[c] + n
          BY <3>2, <3>5, <3>6
        <4> QED
          BY <2>3, <4>1 DEF Bounded
      <3>11. Share(c)' >= CacheSize[c]
        BY <1>3, <3>2, <3>5, <3>6 DEF Share
      <3> QED
        BY <3>9, <3>10, <3>11
    <2> QED
      BY <2>1, <2>2, <2>3 DEF PutFree
  <1> QED
    BY <1>5, <1>6, UserMoveInd, UsersChannel DEF PutFree

(* A buffer that is put back goes to the first entry that waits on the thread, perhaps one of
   another channel of that thread. *)
LEMMA PutServesInd ==
  ASSUME IndInv, NEW c \in Channels, NEW b \in held[c], PutServes(c, b), At(ThreadOf[c], "idle"),
         c \in channels[ThreadOf[c]], UNCHANGED <<channels, module>>
  PROVE  IndInv'
  <1> DEFINE t == ThreadOf[c]
             e == Head(queue[t])
             d == module[e]
  <1>1. /\ t \in Threads /\ queue \in [Threads -> Seq(Entries)] /\ queue[t] # <<>>
        /\ queue' = [queue EXCEPT ![t] = Tail(queue[t])]
        /\ at' = [at EXCEPT ![t] = [pt |-> "cb_fn", entry |-> e]]
        /\ at \in [Threads -> Point] /\ module \in [Entries -> Channels]
    BY UsersChannel DEF IndInv, Basic, PutServes, Goto
  <1>2. /\ Tail(queue[t]) \in Seq(Entries) /\ e = queue[t][1] /\ 1 \in DOMAIN queue[t]
        /\ e \in Entries
        /\ \A j \in DOMAIN Tail(queue[t]) : \E k \in DOMAIN queue[t] : Tail(queue[t])[j] = queue[t][k]
    BY <1>1, TailOf
  <1>3. d \in Channels /\ d \in channels[t] /\ ThreadOf[d] = t
    BY <1>1, <1>2 DEF IndInv, OwnQueue, Asked, OwnChannels
  <1>4. held' = [[held EXCEPT ![c] = held[c] \ {b}] EXCEPT ![d] = @ \cup {b}]
    BY DEF PutServes
  <1> HIDE DEF e, d
  <1>5. /\ at' \in [Threads -> Point] /\ at'[t].pt = "cb_fn" /\ at[t].pt = "idle"
        /\ \A u \in Threads \ {t} : at'[u] = at[u]
        /\ \A u \in Threads : at'[u] = at[u] \/ at'[u].pt \notin {"populate", "fini"}
    BY <1>1, <1>2, PointsAre DEF At
  <1>6. queue' \in [Threads -> Seq(Entries)] /\ OwnQueue'
    <2> DEFINE q == Tail(queue[t])
    <2>1. q \in Seq(Entries) /\ \A j \in DOMAIN q : \E k \in DOMAIN queue[t] : q[j] = queue[t][k]
      BY <1>2
    <2> HIDE DEF q
    <2>2. queue' = [queue EXCEPT ![t] = q]
      BY <1>1 DEF q
    <2>3. /\ module' = module /\ channels' = channels /\ t \in Threads
          /\ \A u \in Threads : at'[u] = at[u] \/ at'[u].pt \notin {"populate", "fini"}
      BY <1>1, <1>5
    <2> HIDE DEF t
    <2> QED
      BY <2>1, <2>2, <2>3, QueueKept
  <1>7. /\ held' \in [Channels -> SUBSET Buffers]
        /\ \A f \in Channels : f # d => held'[f] = held[f] \ {b}
        /\ held'[d] = held[d] \cup {b}
    <2>1. \A f \in Channels : f # c => b \notin held[f]
      BY DEF IndInv, Disjoint
    <2>2. held \in [Channels -> SUBSET Buffers] /\ b \in Buffers
      BY DEF IndInv, Basic
    <2>3. CASE c = d
      BY <1>3, <1>4, <2>1, <2>2, <2>3
    <2>4. CASE c # d
      BY <1>3, <1>4, <2>1, <2>2, <2>4
    <2> QED
      BY <2>3, <2>4
  <1>8. Basic'
    BY <1>5, <1>6, <1>7 DEF IndInv, Basic, PutServes
  <1>9. Disjoint'
    <2>1. /\ \A f \in Channels : b \notin cache[f] /\ b \notin pool
          /\ \A f \in Channels : f # c => b \notin held[f]
      BY DEF IndInv, Disjoint
    <2>2. cache' = cache /\ pool' = pool
      BY DEF PutServes
    <2>3. /\ \A f \in Channels : pool \cap cache[f] = {} /\ pool \cap held[f] = {}
          /\ \A f, g \in Channels :
               /\ cache[f] \cap held[g] = {}
               /\ f # g => cache[f] \cap cache[g] = {} /\ held[f] \cap held[g] = {}
          /\ \A x \in Buffers : x \in pool \/ \E f \in Channels : x \in cache[f] \/ x \in held[f]
      BY DEF IndInv, Disjoint
    <2>4. \A f \in Channels : pool' \cap cache'[f] = {} /\ pool' \cap held'[f] = {}
      BY <1>7, <2>1, <2>2, <2>3
    <2>5. ASSUME NEW f \in Channels, NEW g \in Channels
          PROVE  /\ cache'[f] \cap held'[g] = {}
                 /\ f # g => cache'[f] \cap cache'[g] = {} /\ held'[f] \cap held'[g] = {}
      BY <1>7, <2>1, <2>2, <2>3
    <2>6. ASSUME NEW x \in Buffers
          PROVE  x \in pool' \/ \E f \in Channels : x \in cache'[f] \/ x \in held'[f]
      <3>1. CASE x = b
        BY <1>3, <1>7, <3>1
      <3>2. CASE x # b
        BY <1>7, <2>2, <2>3, <3>2
      <3> QED
        BY <3>1, <3>2
    <2> QED
      BY <2>4, <2>5, <2>6 DEF Disjoint
  <1>10. Counted' /\ Slots' /\ CacheBounded'
    BY DEF IndInv, Counted, Slots, CacheBounded, PutServes
  <1>11. OwnChannels'
    <2>1. \A u \in Threads : at'[u].pt \in {"populate", "fini"} =>
            /\ at'[u] = at[u] /\ at[u].ch \in channels[u] /\ held[at[u].ch] = {} /\ u # t
      BY <1>5 DEF IndInv, OwnChannels
    <2>2. \A u \in Threads : at'[u].pt \in {"populate", "fini"} => held'[at'[u].ch] = {}
      <3> SUFFICES ASSUME NEW u \in Threads, at'[u].pt \in {"populate", "fini"}
                   PROVE  held'[at'[u].ch] = {}
        OBVIOUS
      <3>1. at[u].ch \in Channels /\ at[u].ch # d
        BY <1>3, <2>1 DEF IndInv, Basic, OwnChannels
      <3> QED
        BY <1>7, <2>1, <3>1
    <2>3. \A f \in Channels : f \notin channels[ThreadOf[f]] => held'[f] = {}
      BY <1>3, <1>7 DEF IndInv, OwnChannels
    <2>4. cache' = cache /\ cache_count' = cache_count /\ channels' = channels
      BY DEF PutServes
    <2>5. /\ \A u \in Threads : \A f \in channels[u] : ThreadOf[f] = u
          /\ \A u \in Threads : at[u].pt = "populate" => cache_count[at[u].ch] <= CacheSize[at[u].ch]
          /\ \A f \in Channels : f \notin channels[ThreadOf[f]] => cache[f] = {}
      BY DEF IndInv, OwnChannels
    <2>6. ASSUME NEW u \in Threads
          PROVE  /\ \A f \in channels'[u] : ThreadOf[f] = u
                 /\ at'[u].pt \in {"populate", "fini"} =>
                      at'[u].ch \in channels'[u] /\ held'[at'[u].ch] = {}
                 /\ at'[u].pt = "populate" => cache_count'[at'[u].ch] <= CacheSize[at'[u].ch]
      BY <2>1, <2>2, <2>4, <2>5
    <2>7. \A f \in Channels : f \notin channels'[ThreadOf[f]] => cache'[f] = {} /\ held'[f] = {}
      BY <2>3, <2>4, <2>5
    <2> QED
      BY <2>6, <2>7 DEF OwnChannels
  <1>12. ShareKept'
    <2>1. SUFFICES ASSUME NEW f \in Channels, \A g \in Channels : ThreadOf[g] = ThreadOf[f] => g = f,
                          f \in channels[ThreadOf[f]],
                          at'[ThreadOf[f]].pt \notin {"populate", "fini"}
                   PROVE  Cardinality(cache[f]) + Cardinality(held'[f]) >= CacheSize[f]
      BY DEF ShareKept, PutServes
    <2>2. ThreadOf[f] \in Threads
      BY ThreadOfAssumption
    <2>3. held'[f] = held[f]
      <3>1. CASE f = d
        <4>1. c = d
          BY <1>3, <2>1, <3>1 DEF t
        <4> QED
          BY <1>7, <3>1, <4>1
      <3>2. CASE f # d
        <4>1. f # c
          BY <1>3, <2>1, <3>2 DEF t
        <4>2. b \notin held[f]
          BY <4>1 DEF IndInv, Disjoint
        <4> QED
          BY <1>7, <3>2, <4>2
      <3> QED
        BY <3>1, <3>2
    <2>4. at[ThreadOf[f]].pt \notin {"populate", "fini"}
      BY <1>5, <2>1, <2>2
    <2> QED
      BY <2>1, <2>3, <2>4 DEF IndInv, ShareKept
  <1> QED
    BY <1>6, <1>8, <1>9, <1>10, <1>11, <1>12 DEF IndInv

-----------------------------------------------------------------------------
(* Channels come and go. *)

(* A channel takes a slot. *)
LEMMA InitChannelInd ==
  ASSUME IndInv, NEW c \in Channels, spdk_iobuf_channel_init(c)
  PROVE  IndInv'
  <1> DEFINE t == ThreadOf[c]
  <1>1. /\ t \in Threads /\ at[t].pt = "idle" /\ c \notin channels[t]
        /\ channels \in [Threads -> SUBSET Channels] /\ at \in [Threads -> Point]
        /\ channels' = [channels EXCEPT ![t] = channels[t] \cup {c}]
        /\ at' = [at EXCEPT ![t] = [pt |-> "populate", ch |-> c]]
        /\ UNCHANGED <<pool, cache, cache_count, queue, module, held>>
    BY UsersChannel DEF IndInv, Basic, spdk_iobuf_channel_init, Goto, At
  <1>2. /\ at' \in [Threads -> Point] /\ at'[t].pt = "populate" /\ at'[t].ch = c
        /\ \A u \in Threads \ {t} : at'[u] = at[u] /\ channels'[u] = channels[u]
        /\ channels' \in [Threads -> SUBSET Channels] /\ channels'[t] = channels[t] \cup {c}
    BY <1>1, PointsAre
  <1>3. Basic' /\ Disjoint' /\ Counted' /\ CacheBounded'
    BY <1>1, <1>2 DEF IndInv, Basic, Disjoint, Counted, CacheBounded
  <1>4. Slots'
    <2>1. IsFiniteSet(channels[t])
      BY <1>1, FiniteAssumption, FS_Subset
    <2>2. Cardinality(channels[t] \cup {c}) <= MaxChannels
      BY <1>1, <2>1, OneMore, SizesAssumption DEF spdk_iobuf_channel_init
    <2> QED
      BY <1>2, <2>2 DEF IndInv, Slots
  <1>5. cache[c] = {} /\ held[c] = {} /\ cache_count[c] = 0
    <2>1. cache[c] = {} /\ held[c] = {}
      BY <1>1 DEF IndInv, OwnChannels
    <2> QED
      BY <2>1, FS_EmptySet DEF IndInv, Counted
  <1>6. OwnChannels'
    <2>1. \A u \in Threads : \A d \in channels'[u] : ThreadOf[d] = u
      BY <1>2 DEF IndInv, OwnChannels
    <2>2. \A u \in Threads : at'[u].pt \in {"populate", "fini"} =>
                               at'[u].ch \in channels'[u] /\ held'[at'[u].ch] = {}
      BY <1>1, <1>2, <1>5 DEF IndInv, OwnChannels
    <2>3. \A u \in Threads : at'[u].pt = "populate" => cache_count'[at'[u].ch] <= CacheSize[at'[u].ch]
      BY <1>1, <1>2, <1>5, UsersChannel DEF IndInv, OwnChannels
    <2>4. \A d \in Channels : d \notin channels'[ThreadOf[d]] => cache'[d] = {} /\ held'[d] = {}
      BY <1>1, <1>2, ThreadOfAssumption DEF IndInv, OwnChannels
    <2> QED
      BY <2>1, <2>2, <2>3, <2>4 DEF OwnChannels
  <1>7. OwnQueue'
    <2>1. \A u \in Threads : \A k \in DOMAIN queue[u] : Asked(u, queue[u][k])
      BY DEF IndInv, OwnQueue
    <2>2. ASSUME NEW u \in Threads, NEW k \in DOMAIN queue[u]
          PROVE  Asked(u, queue[u][k])'
      <3>1. CASE u = t
        BY <1>1, <1>2, <2>1, <3>1 DEF Asked
      <3>2. CASE u # t
        BY <1>1, <1>2, <2>1, <3>2 DEF Asked
      <3> QED
        BY <3>1, <3>2
    <2> QED
      BY <1>1, <2>2 DEF OwnQueue
  <1>8. ShareKept'
    <2> SUFFICES ASSUME NEW d \in Channels, \A f \in Channels : ThreadOf[f] = ThreadOf[d] => f = d,
                        d \in channels'[ThreadOf[d]],
                        at'[ThreadOf[d]].pt \notin {"populate", "fini"}
                 PROVE  Cardinality(cache[d]) + Cardinality(held[d]) >= CacheSize[d]
      BY <1>1 DEF ShareKept
    <2>1. ThreadOf[d] \in Threads \ {t}
      BY <1>2, ThreadOfAssumption
    <2> QED
      BY <1>2, <2>1 DEF IndInv, ShareKept
  <1> QED
    BY <1>3, <1>4, <1>6, <1>7, <1>8 DEF IndInv

(* Buffers move between the ring and the cache of a channel that is being populated or
   finished. *)
LEMMA CacheMoveInd ==
  ASSUME IndInv, NEW t \in Threads, NEW p \in Point, at[t].pt \in {"populate", "fini"},
         NEW c \in Channels, c = at[t].ch,
         MovesWithin(c), UNCHANGED <<channels, queue, module, held>>,
         at' = [at EXCEPT ![t] = p],
         p.pt \in {"populate", "fini"} => p.ch = c,
         p.pt = "populate" => cache_count'[c] <= CacheSize[c],
         p.pt \notin {"populate", "fini"} => Cardinality(cache'[c]) >= CacheSize[c],
         Bounded(c)'
  PROVE  IndInv'
  <1>1. /\ c \in channels[t] /\ held[c] = {} /\ c \in Channels /\ ThreadOf[c] = t
        /\ at \in [Threads -> Point] /\ channels \in [Threads -> SUBSET Channels]
    BY DEF IndInv, OwnChannels, Basic
  <1>2. /\ at' \in [Threads -> Point] /\ at'[t] = p
        /\ \A u \in Threads \ {t} : at'[u] = at[u]
    BY <1>1
  <1>3. /\ MovesWithin(c) /\ Bounded(c)'
        /\ p.pt \in {"populate", "fini"} => p.ch = c
        /\ p.pt = "populate" => cache_count'[c] <= CacheSize[c]
        /\ p.pt \notin {"populate", "fini"} => Cardinality(cache'[c]) >= CacheSize[c]
    OBVIOUS
  <1>4. \A u \in Threads \ {t} : at[u].pt \in {"populate", "fini"} => at[u].ch \in Channels \ {c}
    BY <1>1 DEF IndInv, OwnChannels
  <1>5. \A u \in Threads : \A k \in DOMAIN queue[u] :
          /\ module[queue[u][k]] \in channels[u]
          /\ at[u].pt \in {"populate", "fini"} => module[queue[u][k]] # at[u].ch
    BY DEF IndInv, OwnQueue, Asked
  <1>6. \A k \in DOMAIN queue[t] : module[queue[t][k]] # c
    BY <1>5
  <1>7. Basic' /\ Slots'
    BY <1>2, <1>3 DEF IndInv, Basic, MovesWithin, Slots
  <1>8. Disjoint' /\ Counted'
    BY <1>1, <1>3, MoveKeepsDisjoint
  <1>9. OwnChannels'
    <2>1. ASSUME NEW u \in Threads
          PROVE  /\ at'[u].pt \in {"populate", "fini"} => at'[u].ch \in channels[u] /\ held[at'[u].ch] = {}
                 /\ at'[u].pt = "populate" => cache_count'[at'[u].ch] <= CacheSize[at'[u].ch]
      <3>1. CASE u = t
        BY <1>1, <1>2, <1>3, <3>1
      <3>2. CASE u # t
        BY <1>2, <1>3, <1>4, <3>2 DEF IndInv, OwnChannels, MovesWithin
      <3> QED
        BY <3>1, <3>2
    <2>2. \A d \in Channels : d \notin channels[ThreadOf[d]] => cache'[d] = {} /\ held[d] = {}
      BY <1>1, <1>3 DEF IndInv, OwnChannels, MovesWithin
    <2>3. \A u \in Threads : \A d \in channels[u] : ThreadOf[d] = u
      BY DEF IndInv, OwnChannels
    <2> QED
      BY <2>1, <2>2, <2>3 DEF OwnChannels
  <1>10. OwnQueue'
    <2>1. ASSUME NEW u \in Threads, NEW k \in DOMAIN queue[u]
          PROVE  /\ module[queue[u][k]] \in channels[u]
                 /\ at'[u].pt \in {"populate", "fini"} => module[queue[u][k]] # at'[u].ch
      BY <1>2, <1>3, <1>5, <1>6
    <2> QED
      BY <2>1 DEF OwnQueue, Asked
  <1>11. CacheBounded'
    BY <1>3 DEF IndInv, CacheBounded, Bounded, MovesWithin
  <1>12. ShareKept'
    <2> SUFFICES ASSUME NEW f \in Channels, \A g \in Channels : ThreadOf[g] = ThreadOf[f] => g = f,
                        f \in channels[ThreadOf[f]],
                        at'[ThreadOf[f]].pt \notin {"populate", "fini"}
                 PROVE  Cardinality(cache'[f]) + Cardinality(held[f]) >= CacheSize[f]
      BY DEF ShareKept
    <2>1. ThreadOf[f] \in Threads
      BY ThreadOfAssumption
    <2>2. CASE f = c
      <3>1. Cardinality(cache'[c]) >= CacheSize[c] /\ Cardinality(cache'[c]) \in Nat
        BY <1>1, <1>2, <1>3, <2>2, BuffersFinite DEF MovesWithin
      <3>2. Cardinality(held[c]) = 0 /\ CacheSize[c] \in Nat
        BY <1>1, FS_EmptySet, CacheSizeAssumption
      <3> QED
        BY <2>2, <3>1, <3>2
    <2>3. CASE f # c
      <3>1. cache'[f] = cache[f] /\ ThreadOf[f] # t
        BY <1>1, <1>3, <2>3 DEF MovesWithin
      <3> QED
        BY <1>2, <2>1, <3>1 DEF IndInv, ShareKept
    <2> QED
      BY <2>2, <2>3
  <1> QED
    BY <1>7, <1>8, <1>9, <1>10, <1>11, <1>12 DEF IndInv

(* A thread that works on a channel has it. *)
LEMMA WorksOn ==
  ASSUME IndInv, NEW t \in Threads, at[t].pt \in {"populate", "fini"}
  PROVE  at[t].ch \in Channels /\ at[t].ch \in channels[t] /\ held[at[t].ch] = {} /\ at[t] \in Point
  BY DEF IndInv, OwnChannels, Basic

(* One batch of what a cache still has room for. *)
LEMMA PopulateInd ==
  ASSUME IndInv, NEW t \in Threads, iobuf_channel_node_populate(t)
  PROVE  IndInv'
  <1>1. at[t].pt = "populate"
    BY DEF iobuf_channel_node_populate, At
  <1>0. PICK c \in Channels : c = at[t].ch
    BY <1>1, WorksOn
  <1> DEFINE count == LeastOf(CacheSize[c] - cache_count[c], PopulateSize)
  <1>2. /\ c \in Channels /\ held[c] = {} /\ at[t] \in Point
        /\ cache_count[c] <= CacheSize[c]
    BY <1>0, <1>1, WorksOn DEF IndInv, OwnChannels
  <1>3. PICK B \in Some(pool, count) :
          /\ pool' = pool \ B
          /\ cache' = [cache EXCEPT ![c] = @ \cup B]
          /\ cache_count' = [cache_count EXCEPT ![c] = @ + Cardinality(B)]
          /\ Goto(t, IF Cardinality(B) < count THEN [pt |-> "fini", ch |-> c]
                     ELSE IF cache_count[c] + count = CacheSize[c] THEN Idle ELSE at[t])
    BY <1>0 DEF iobuf_channel_node_populate
  <1>4. count \in Nat /\ cache_count[c] + count <= CacheSize[c]
    BY <1>2, UsersChannel DEF LeastOf
  <1>5. B \subseteq pool /\ IsFiniteSet(B) /\ Cardinality(B) \in Nat /\ Cardinality(B) <= count
    BY <1>2, <1>4, SomeAre, UsersChannel
  <1> DEFINE p == IF Cardinality(B) < count THEN [pt |-> "fini", ch |-> c]
                  ELSE IF cache_count[c] + count = CacheSize[c] THEN Idle ELSE at[t]
  <1>6. at' = [at EXCEPT ![t] = p] /\ p \in Point
    BY <1>2, <1>3, PointsAre DEF Goto
  <1>7. /\ p.pt \in {"populate", "fini"} => p.ch = c
        /\ p.pt \notin {"populate", "fini"} => /\ ~ (Cardinality(B) < count)
                                               /\ cache_count[c] + count = CacheSize[c]
    BY <1>0, <1>1, <1>2, PointsAre
  <1> HIDE DEF p, count
  <1>8. /\ cache'[c] = cache[c] \cup B /\ cache_count'[c] = cache_count[c] + Cardinality(B)
        /\ \A d \in Channels \ {c} : cache'[d] = cache[d] /\ cache_count'[d] = cache_count[d]
        /\ held' = held
    BY <1>2, <1>3 DEF IndInv, Basic, iobuf_channel_node_populate
  <1>9. /\ Cardinality(cache'[c]) = Cardinality(cache[c]) + Cardinality(B)
        /\ Cardinality(cache'[c]) \in Nat /\ IsFiniteSet(cache'[c])
    <2>1. IsFiniteSet(cache[c]) /\ cache[c] \cap B = {} /\ Cardinality(cache[c]) \in Nat
      BY <1>2, <1>5, UsersChannel
    <2>2. Cardinality(cache[c] \cup B) = Cardinality(cache[c]) + Cardinality(B) - Cardinality({})
      BY <1>5, <2>1, FS_Union
    <2> QED
      BY <1>5, <1>8, <2>1, <2>2, FS_EmptySet, FS_Union
  <1>10. cache_count'[c] = Cardinality(cache'[c]) /\ cache_count'[c] <= CacheSize[c]
    BY <1>2, <1>4, <1>5, <1>8, <1>9, UsersChannel
  <1>11. MovesWithin(c)
    <2>1. /\ pool' \subseteq Buffers /\ cache' \in [Channels -> SUBSET Buffers]
          /\ held' \in [Channels -> SUBSET Buffers]
      BY <1>2, <1>3, <1>5, <1>8 DEF IndInv, Basic
    <2>2. cache_count' \in [Channels -> Nat]
      BY <1>2, <1>3, <1>5 DEF IndInv, Basic
    <2>3. /\ pool' \cap cache'[c] = {} /\ pool' \cap held'[c] = {} /\ cache'[c] \cap held'[c] = {}
          /\ cache'[c] \cup held'[c] \cup pool' = cache[c] \cup held[c] \cup pool
      BY <1>2, <1>3, <1>5, <1>8, UsersChannel
    <2> QED
      BY <1>8, <1>10, <2>1, <2>2, <2>3 DEF MovesWithin, Kept
  <1>12. Bounded(c)'
    <2>1. CacheSize[c] = 0 => cache'[c] = {}
      BY <1>9, <1>10, NoneLeft
    <2>2. CacheSize[c] > 0 => CacheSize[c] < CacheSize[c] + LeastOf(BatchSize, CacheSize[c])
      BY <1>2, UsersChannel DEF LeastOf
    <2>3. CacheSize[c] > 0 => Cardinality(cache'[c]) < CacheSize[c] + LeastOf(BatchSize, CacheSize[c])
      BY <1>2, <1>9, <1>10, <2>2, UsersChannel DEF LeastOf
    <2> QED
      BY <2>1, <2>3 DEF Bounded
  <1>13. p.pt \notin {"populate", "fini"} => Cardinality(cache'[c]) >= CacheSize[c]
    BY <1>2, <1>4, <1>5, <1>7, <1>8, <1>10, UsersChannel
  <1> QED
    BY <1>0, <1>1, <1>6, <1>7, <1>10, <1>11, <1>12, <1>13, CacheMoveInd DEF iobuf_channel_node_populate

(* A channel nobody uses is to be finished. *)
LEMMA FiniInd ==
  ASSUME IndInv, NEW c \in Channels, spdk_iobuf_channel_fini(c)
  PROVE  IndInv'
  <1> DEFINE t == ThreadOf[c]
  <1>1. /\ t \in Threads /\ at[t].pt = "idle" /\ c \in channels[t] /\ held[c] = {}
        /\ at \in [Threads -> Point] /\ queue \in [Threads -> Seq(Entries)]
        /\ at' = [at EXCEPT ![t] = [pt |-> "fini", ch |-> c]]
        /\ UNCHANGED <<pool, channels, cache, cache_count, queue, module, held>>
    BY UsersChannel DEF IndInv, Basic, spdk_iobuf_channel_fini, Goto, At
  <1>2. /\ at' \in [Threads -> Point] /\ at'[t].pt = "fini" /\ at'[t].ch = c
        /\ \A u \in Threads \ {t} : at'[u] = at[u]
    BY <1>1, PointsAre
  <1>3. Basic' /\ Disjoint' /\ Counted' /\ Slots' /\ CacheBounded'
    BY <1>1, <1>2 DEF IndInv, Basic, Disjoint, Counted, Slots, CacheBounded
  <1>4. OwnChannels'
    BY <1>1, <1>2 DEF IndInv, OwnChannels
  <1>5. OwnQueue'
    <2>1. \A k \in DOMAIN queue[t] : module[queue[t][k]] # c
      BY DEF spdk_iobuf_channel_fini, Waiting, ToSet
    <2>2. \A u \in Threads : \A k \in DOMAIN queue[u] : Asked(u, queue[u][k])
      BY DEF IndInv, OwnQueue
    <2>3. ASSUME NEW u \in Threads, NEW k \in DOMAIN queue[u]
          PROVE  /\ module[queue[u][k]] \in channels[u]
                 /\ at'[u].pt \in {"populate", "fini"} => module[queue[u][k]] # at'[u].ch
      <3>1. CASE u = t
        BY <1>2, <2>1, <2>2, <3>1 DEF Asked
      <3>2. CASE u # t
        BY <1>2, <2>2, <3>2 DEF Asked
      <3> QED
        BY <3>1, <3>2
    <2> QED
      BY <1>1, <2>3 DEF OwnQueue, Asked
  <1>6. ShareKept'
    <2> SUFFICES ASSUME NEW d \in Channels, \A f \in Channels : ThreadOf[f] = ThreadOf[d] => f = d,
                        d \in channels[ThreadOf[d]],
                        at'[ThreadOf[d]].pt \notin {"populate", "fini"}
                 PROVE  Cardinality(cache[d]) + Cardinality(held[d]) >= CacheSize[d]
      BY <1>1 DEF ShareKept
    <2>1. ThreadOf[d] \in Threads \ {t}
      BY <1>2, ThreadOfAssumption
    <2> QED
      BY <1>2, <2>1 DEF IndInv, ShareKept
  <1> QED
    BY <1>3, <1>4, <1>5, <1>6 DEF IndInv

(* A cached buffer of a channel that is being finished goes back, or the slot is free. *)
LEMMA NodeFiniInd ==
  ASSUME IndInv, NEW t \in Threads, iobuf_channel_node_fini(t)
  PROVE  IndInv'
  <1>1. at[t].pt = "fini"
    BY DEF iobuf_channel_node_fini, At
  <1>2. PICK c \in Channels : c = at[t].ch
    BY <1>1, WorksOn
  <1>3. /\ c \in channels[t] /\ held[c] = {} /\ at[t] \in Point /\ ThreadOf[c] = t
        /\ UNCHANGED <<queue, module, held>>
    BY <1>1, <1>2, WorksOn DEF IndInv, OwnChannels, iobuf_channel_node_fini
  <1>4. CASE \E b \in cache[c] : /\ pool' = pool \cup {b}
                                 /\ cache' = [cache EXCEPT ![c] = @ \ {b}]
                                 /\ cache_count' = [cache_count EXCEPT ![c] = @ - 1]
                                 /\ UNCHANGED <<channels, at>>
    <2>1. PICK b \in cache[c] : /\ pool' = pool \cup {b}
                                /\ cache' = [cache EXCEPT ![c] = @ \ {b}]
                                /\ cache_count' = [cache_count EXCEPT ![c] = @ - 1]
                                /\ UNCHANGED <<channels, at>>
      BY <1>4
    <2>2. /\ cache'[c] = cache[c] \ {b} /\ cache_count'[c] = cache_count[c] - 1
          /\ \A d \in Channels \ {c} : cache'[d] = cache[d] /\ cache_count'[d] = cache_count[d]
          /\ cache' \in [Channels -> SUBSET Buffers] /\ pool' \subseteq Buffers
          /\ held' \in [Channels -> SUBSET Buffers]
      BY <1>3, <2>1 DEF IndInv, Basic
    <2>3. /\ Cardinality(cache'[c]) = Cardinality(cache[c]) - 1 /\ Cardinality(cache'[c]) \in Nat
          /\ Cardinality(cache[c]) \in Nat
      BY <2>2, OneLess, UsersChannel
    <2>4. cache_count'[c] = Cardinality(cache'[c])
      BY <2>2, <2>3, UsersChannel
    <2>5. cache_count' \in [Channels -> Nat]
      BY <2>1, <2>3, <2>4 DEF IndInv, Basic
    <2>6. MovesWithin(c)
      <3>1. /\ pool' \cap cache'[c] = {} /\ pool' \cap held'[c] = {} /\ cache'[c] \cap held'[c] = {}
            /\ cache'[c] \cup held'[c] \cup pool' = cache[c] \cup held[c] \cup pool
        BY <1>3, <2>1, <2>2, UsersChannel
      <3> QED
        BY <1>3, <2>2, <2>4, <2>5, <3>1 DEF MovesWithin, Kept
    <2>7. Bounded(c)'
      BY <2>2, <2>3, UsersChannel DEF Bounded, LeastOf
    <2>8. at' = [at EXCEPT ![t] = at[t]]
      BY <2>1 DEF IndInv, Basic
    <2> QED
      BY <1>1, <1>2, <1>3, <2>1, <2>6, <2>7, <2>8, CacheMoveInd
  <1>5. CASE /\ cache[c] = {}
             /\ channels' = [channels EXCEPT ![t] = @ \ {c}]
             /\ Goto(t, Idle)
             /\ UNCHANGED <<pool, cache, cache_count>>
    <2>1. /\ channels' \in [Threads -> SUBSET Channels] /\ channels'[t] = channels[t] \ {c}
          /\ at' \in [Threads -> Point] /\ at'[t].pt = "idle"
          /\ \A u \in Threads \ {t} : channels'[u] = channels[u] /\ at'[u] = at[u]
      BY <1>5, PointsAre DEF IndInv, Basic, Goto
    <2>2. Basic' /\ Disjoint' /\ Counted' /\ CacheBounded'
      BY <1>3, <1>5, <2>1 DEF IndInv, Basic, Disjoint, Counted, CacheBounded
    <2>3. Slots'
      <3>1. IsFiniteSet(channels[t]) /\ Cardinality(channels[t]) <= MaxChannels
        BY FiniteAssumption, FS_Subset DEF IndInv, Basic, Slots
      <3>2. Cardinality(channels[t] \ {c}) <= MaxChannels
        BY <1>3, <3>1, OneLess, SizesAssumption
      <3> QED
        BY <2>1, <3>2 DEF IndInv, Slots
    <2>4. OwnChannels'
      <3>1. ASSUME NEW u \in Threads
            PROVE  /\ \A d \in channels'[u] : ThreadOf[d] = u
                   /\ at'[u].pt \in {"populate", "fini"} =>
                        at'[u].ch \in channels'[u] /\ held'[at'[u].ch] = {}
                   /\ at'[u].pt = "populate" => cache_count'[at'[u].ch] <= CacheSize[at'[u].ch]
        <4>1. CASE u = t
          BY <2>1, <4>1 DEF IndInv, OwnChannels
        <4>2. CASE u # t
          BY <1>3, <1>5, <2>1, <4>2 DEF IndInv, OwnChannels
        <4> QED
          BY <4>1, <4>2
      <3>2. \A d \in Channels : d \notin channels'[ThreadOf[d]] => cache'[d] = {} /\ held'[d] = {}
        BY <1>3, <1>5, <2>1, ThreadOfAssumption DEF IndInv, OwnChannels
      <3> QED
        BY <3>1, <3>2 DEF OwnChannels
    <2>5. OwnQueue'
      <3>1. \A u \in Threads : \A k \in DOMAIN queue[u] : Asked(u, queue[u][k])
        BY DEF IndInv, OwnQueue
      <3>2. ASSUME NEW u \in Threads, NEW k \in DOMAIN queue[u]
            PROVE  /\ module[queue[u][k]] \in channels'[u]
                   /\ at'[u].pt \in {"populate", "fini"} => module[queue[u][k]] # at'[u].ch
        <4>1. CASE u = t
          BY <1>1, <1>2, <2>1, <3>1, <4>1 DEF Asked
        <4>2. CASE u # t
          BY <2>1, <3>1, <4>2 DEF Asked
        <4> QED
          BY <4>1, <4>2
      <3> QED
        BY <1>3, <3>2 DEF OwnQueue, Asked
    <2>6. ShareKept'
      <3> SUFFICES ASSUME NEW d \in Channels, \A f \in Channels : ThreadOf[f] = ThreadOf[d] => f = d,
                          d \in channels'[ThreadOf[d]],
                          at'[ThreadOf[d]].pt \notin {"populate", "fini"}
                   PROVE  Cardinality(cache[d]) + Cardinality(held[d]) >= CacheSize[d]
        BY <1>3, <1>5 DEF ShareKept
      <3>1. ThreadOf[d] \in Threads \ {t}
        BY <1>3, <2>1, ThreadOfAssumption
      <3> QED
        BY <2>1, <3>1 DEF IndInv, ShareKept
    <2> QED
      BY <2>2, <2>3, <2>4, <2>5, <2>6 DEF IndInv
  <1> QED
    BY <1>2, <1>4, <1>5 DEF iobuf_channel_node_fini

-----------------------------------------------------------------------------
(* The invariant holds. *)

(* Initially all buffers are in the pool. *)
LEMMA InitInd == Init => IndInv
  <1> SUFFICES ASSUME Init PROVE IndInv
    OBVIOUS
  <1>1. Cardinality({}) = 0
    BY FS_EmptySet
  <1>2. Basic
    BY ThreadOfAssumption, PointsAre DEF Init, Basic
  <1>3. Disjoint
    BY DEF Init, Disjoint
  <1>4. Counted /\ Slots
    BY <1>1, SizesAssumption DEF Init, Counted, Slots
  <1>5. OwnChannels /\ OwnQueue
    BY ThreadOfAssumption, PointsAre DEF Init, OwnChannels, OwnQueue
  <1>6. CacheBounded
    BY <1>1, CacheSizeAssumption, SizesAssumption DEF Init, CacheBounded, LeastOf
  <1>7. ShareKept
    BY ThreadOfAssumption DEF Init, ShareKept
  <1> QED
    BY <1>2, <1>3, <1>4, <1>5, <1>6, <1>7 DEF IndInv

(* spdk_iobuf_get keeps the invariant. *)
LEMMA GetInd ==
  ASSUME IndInv, NEW c \in Channels, NEW e \in Entries, spdk_iobuf_get(c, e)
  PROVE  IndInv'
  <1>1. /\ UserRuns(ThreadOf[c]) /\ c \in channels[ThreadOf[c]] /\ UNCHANGED <<channels, at>>
        /\ \A u \in Threads : e \notin Waiting(u)
        /\ TakeCached(c) \/ TakeBatch(c) \/ Enqueue(c, e)
    BY DEF spdk_iobuf_get
  <1> QED
    BY <1>1, TakeCachedInd, TakeBatchInd, EnqueueInd

(* spdk_iobuf_put keeps the invariant. *)
LEMMA PutInd ==
  ASSUME IndInv, NEW c \in Channels, NEW b \in Buffers, spdk_iobuf_put(c, b)
  PROVE  IndInv'
  <1>1. /\ At(ThreadOf[c], "idle") /\ b \in held[c] /\ UNCHANGED <<channels, module>>
        /\ PutFree(c, b) \/ PutServes(c, b)
    BY DEF spdk_iobuf_put
  <1>2. c \in channels[ThreadOf[c]]
    BY <1>1 DEF IndInv, OwnChannels
  <1> QED
    BY <1>1, <1>2, PutFreeInd, PutServesInd

(* Every step keeps the invariant. *)
LEMMA NextInd == IndInv /\ [Next]_vars => IndInv'
  <1> SUFFICES ASSUME IndInv, [Next]_vars PROVE IndInv'
    OBVIOUS
  <1>1. CASE \E c \in Channels : spdk_iobuf_channel_init(c) \/ spdk_iobuf_channel_fini(c)
    BY <1>1, InitChannelInd, FiniInd
  <1>2. CASE \E c \in Channels, e \in Entries : spdk_iobuf_get(c, e)
    BY <1>2, GetInd
  <1>3. CASE \E c \in Channels, b \in Buffers : spdk_iobuf_put(c, b)
    BY <1>3, PutInd
  <1>4. CASE \E t \in Threads : iobuf_channel_node_populate(t) \/ iobuf_channel_node_fini(t)
    BY <1>4, PopulateInd, NodeFiniInd
  <1>5. CASE \E t \in Threads : CbReturns(t) \/ \E e \in Entries : spdk_iobuf_entry_abort(t, e)
    BY <1>5, CbReturnsInd, AbortInd
  <1>6. CASE UNCHANGED vars
    BY <1>6 DEF vars, IndInv, Basic, Disjoint, Counted, Slots, OwnChannels, OwnQueue, Asked,
                CacheBounded, ShareKept
  <1> QED
    BY <1>1, <1>2, <1>3, <1>4, <1>5, <1>6 DEF Next

(* The sets that a buffer is in are one. *)
LEMMA InOnePlace ==
  ASSUME IndInv, NEW b \in Buffers
  PROVE  Cardinality({c \in Channels : b \in cache[c]})
           + Cardinality({c \in Channels : b \in held[c]})
           + (IF b \in pool THEN 1 ELSE 0) = 1
  <1> DEFINE C == {c \in Channels : b \in cache[c]}
             H == {c \in Channels : b \in held[c]}
  <1>1. \A x : Cardinality({x}) = 1
    BY FS_Singleton
  <1>2. Cardinality({}) = 0
    BY FS_EmptySet
  <1>3. \/ b \in pool /\ C = {} /\ H = {}
        \/ b \notin pool /\ (\E c \in Channels : C = {c}) /\ H = {}
        \/ b \notin pool /\ C = {} /\ \E c \in Channels : H = {c}
    <2>1. CASE b \in pool
      BY <2>1 DEF IndInv, Disjoint
    <2>2. CASE \E c \in Channels : b \in cache[c]
      <3>1. PICK c \in Channels : b \in cache[c]
        BY <2>2
      <3>2. b \notin pool /\ C = {c} /\ H = {}
        BY <3>1 DEF IndInv, Disjoint
      <3> QED
        BY <3>2
    <2>3. CASE \E c \in Channels : b \in held[c]
      <3>1. PICK c \in Channels : b \in held[c]
        BY <2>3
      <3>2. b \notin pool /\ C = {} /\ H = {c}
        BY <3>1 DEF IndInv, Disjoint
      <3> QED
        BY <3>2
    <2> QED
      BY <2>1, <2>2, <2>3 DEF IndInv, Disjoint
  <1> HIDE DEF C, H
  <1>4. Cardinality(C) + Cardinality(H) + (IF b \in pool THEN 1 ELSE 0) = 1
    <2>1. \/ b \in pool /\ Cardinality(C) = 0 /\ Cardinality(H) = 0
          \/ b \notin pool /\ Cardinality(C) = 1 /\ Cardinality(H) = 0
          \/ b \notin pool /\ Cardinality(C) = 0 /\ Cardinality(H) = 1
      BY <1>1, <1>2, <1>3, Zenon
    <2> QED
      BY <2>1
  <1> QED
    BY <1>4 DEF C, H

(* The invariant implies the two properties. *)
LEMMA IndImplies == IndInv => BuffersAccounted /\ CachesKept
  <1> SUFFICES ASSUME IndInv PROVE BuffersAccounted /\ CachesKept
    OBVIOUS
  <1>1. TypeOK
    <2>1. \A c \in Channels : cache_count[c] \in 0 .. Cardinality(Buffers)
      BY BuffersFinite, FiniteAssumption, FS_CardinalityType DEF IndInv, Basic, Counted
    <2> QED
      BY <2>1 DEF IndInv, Basic, Slots, TypeOK
  <1>2. BuffersConserved
    BY InOnePlace DEF IndInv, Counted, BuffersConserved
  <1> QED
    BY <1>1, <1>2 DEF BuffersAccounted, CachesKept, IndInv

(* However many threads, channels and buffers there are, and whatever the batch sizes: every
   buffer is in the ring, in one cache or with one user, and the caches count theirs, while
   channels are set up and finished, inits fail, and waiting entries are served. *)
THEOREM BuffersCorrect == Spec => []BuffersAccounted
  <1>1. Spec => []IndInv
    BY InitInd, NextInd, PTL DEF Spec
  <1> QED
    BY <1>1, IndImplies, PTL

(* No cache grows by a batch or more beyond its size, and a channel that is alone on its
   thread has its share, whatever the channels of other threads take from the ring. *)
THEOREM CachesCorrect == Spec => []CachesKept
  <1>1. Spec => []IndInv
    BY InitInd, NextInd, PTL DEF Spec
  <1> QED
    BY <1>1, IndImplies, PTL
====
