------------------------------- MODULE Iobuf --------------------------------
(***************************************************************************)
(* The buffer pool of lib/thread/iobuf.c: one ring that all threads share, *)
(* a cache per iobuf channel, and one wait queue per thread for all the    *)
(* channels on it.  The small and the large pool, and the pools of several *)
(* NUMA nodes, are copies of the one modelled here.                        *)
(*                                                                         *)
(* A step is one ring operation, or the call of an entry's callback, with  *)
(* what a thread does to its own state around it.  Which of several equal  *)
(* buffers a list or the ring gives out is left open.                      *)
(*                                                                         *)
(* Users put a buffer back on the channel that gave it to them, wait with  *)
(* an entry once, and give back and abort everything before they finish a  *)
(* channel; a callback may ask for further buffers but puts none.          *)
(***************************************************************************)
EXTENDS Integers, Sequences, FiniteSets, SequencesExt

CONSTANTS
  Threads, Buffers, Entries,
  Channels,        \* struct spdk_iobuf_channel, each of a module of its own
  ThreadOf,        \* the thread of each channel
  CacheSize,       \* the cache_size of each channel
  BatchSize,       \* IOBUF_BATCH_SIZE
  PopulateSize,    \* IOBUF_POPULATE_BATCH_SIZE
  MaxChannels      \* IOBUF_MAX_CHANNELS, per thread

ASSUME ThreadOfAssumption == Channels # {} /\ ThreadOf \in [Channels -> Threads]
ASSUME CacheSizeAssumption == CacheSize \in [Channels -> Nat]
ASSUME SizesAssumption ==
  BatchSize \in Nat \ {0} /\ PopulateSize \in Nat \ {0} /\ MaxChannels \in Nat
ASSUME FiniteAssumption == IsFiniteSet(Buffers) /\ IsFiniteSet(Channels)

VARIABLES
  pool,            \* node->small_pool: what is in the ring
  channels,        \* iobuf_channel.channels of each thread
  cache, cache_count,
  queue,           \* each thread's entries that wait for a buffer
  module,          \* entry->module, as the channel that asked
  held,            \* what the users of each channel have got
  at               \* where inside a call each thread is

vars == <<pool, channels, cache, cache_count, queue, module, held, at>>

Idle == [pt |-> "idle"]
Point == {Idle}
         \cup [pt : {"populate", "fini"}, ch : Channels]
         \cup [pt : {"cb_fn"}, entry : Entries]

TypeOK ==
  /\ pool \subseteq Buffers
  /\ channels \in [Threads -> SUBSET Channels]
  /\ \A t \in Threads : Cardinality(channels[t]) <= MaxChannels
  /\ cache \in [Channels -> SUBSET Buffers]
  /\ cache_count \in [Channels -> 0 .. Cardinality(Buffers)]
  /\ queue \in [Threads -> Seq(Entries)]
  /\ module \in [Entries -> Channels]
  /\ held \in [Channels -> SUBSET Buffers]
  /\ at \in [Threads -> Point]

Init ==
  /\ pool = Buffers
  /\ channels = [t \in Threads |-> {}]
  /\ cache = [c \in Channels |-> {}] /\ cache_count = [c \in Channels |-> 0]
  /\ queue = [t \in Threads |-> <<>>]
  /\ module = [e \in Entries |-> CHOOSE c \in Channels : TRUE]
  /\ held = [c \in Channels |-> {}]
  /\ at = [t \in Threads |-> Idle]

-----------------------------------------------------------------------------
At(t, pt) == at[t].pt = pt
Goto(t, p) == at' = [at EXCEPT ![t] = p]

(* User code runs: between calls, or in the callback of an entry. *)
UserRuns(t) == At(t, "idle") \/ At(t, "cb_fn")

Waiting(t) == ToSet(queue[t])
LeastOf(m, n) == IF m < n THEN m ELSE n

(* Any n buffers of S, or all of them if there are not so many. *)
Some(S, n) == {B \in SUBSET S : Cardinality(B) = LeastOf(n, Cardinality(S))}

-----------------------------------------------------------------------------
(* Channels. *)

(* Users stay within the slots of a thread: with none left the error path
   would finish a channel that has neither its parent nor its lists yet. *)
spdk_iobuf_channel_init(c) ==
  LET t == ThreadOf[c] IN
  /\ At(t, "idle")
  /\ c \notin channels[t]
  /\ Cardinality(channels[t]) < MaxChannels
  /\ channels' = [channels EXCEPT ![t] = @ \cup {c}]
  /\ Goto(t, [pt |-> "populate", ch |-> c])
  /\ UNCHANGED <<pool, cache, cache_count, queue, module, held>>

(* One batch for the cache; a ring that has not enough makes the init fail, and
   the channel is finished. *)
iobuf_channel_node_populate(t) ==
  /\ At(t, "populate")
  /\ LET c == at[t].ch
         count == LeastOf(CacheSize[c] - cache_count[c], PopulateSize)
     IN \E B \in Some(pool, count) :
          /\ pool' = pool \ B
          /\ cache' = [cache EXCEPT ![c] = @ \cup B]
          /\ cache_count' = [cache_count EXCEPT ![c] = @ + Cardinality(B)]
          /\ Goto(t, IF Cardinality(B) < count THEN [pt |-> "fini", ch |-> c]
                     ELSE IF cache_count[c] + count = CacheSize[c] THEN Idle ELSE at[t])
  /\ UNCHANGED <<channels, queue, module, held>>

spdk_iobuf_channel_fini(c) ==
  LET t == ThreadOf[c] IN
  /\ At(t, "idle")
  /\ c \in channels[t]
  /\ held[c] = {} /\ \A e \in Waiting(t) : module[e] # c
  /\ Goto(t, [pt |-> "fini", ch |-> c])
  /\ UNCHANGED <<pool, channels, cache, cache_count, queue, module, held>>

iobuf_channel_node_fini_keeps(t) ==   \* mutant: the cached buffers are not given back
  /\ At(t, "fini")
  /\ LET c == at[t].ch IN
     /\ channels' = [channels EXCEPT ![t] = @ \ {c}]
     /\ cache_count' = [cache_count EXCEPT ![c] = 0]
     /\ Goto(t, Idle)
  /\ UNCHANGED <<pool, cache, queue, module, held>>

(* The cached buffers go back to the ring one by one, then the slot is free. *)
iobuf_channel_node_fini(t) ==
  /\ At(t, "fini")
  /\ LET c == at[t].ch IN
     \/ \E b \in cache[c] :
          /\ pool' = pool \cup {b}
          /\ cache' = [cache EXCEPT ![c] = @ \ {b}]
          /\ cache_count' = [cache_count EXCEPT ![c] = @ - 1]
          /\ UNCHANGED <<channels, at>>
     \/ /\ cache[c] = {}
        /\ channels' = [channels EXCEPT ![t] = @ \ {c}]
        /\ Goto(t, Idle)
        /\ UNCHANGED <<pool, cache, cache_count>>
  /\ UNCHANGED <<queue, module, held>>

-----------------------------------------------------------------------------
(* Buffers. *)

TakeCached(c) ==
  \E b \in cache[c] :
    /\ cache' = [cache EXCEPT ![c] = @ \ {b}]
    /\ cache_count' = [cache_count EXCEPT ![c] = @ - 1]
    /\ held' = [held EXCEPT ![c] = @ \cup {b}]
    /\ UNCHANGED <<pool, queue, module>>

(* A batch from the ring: one for the user, the rest for the cache. *)
TakeBatch(c) ==
  /\ cache[c] = {} /\ pool # {}
  /\ \E B \in Some(pool, LeastOf(BatchSize, Max({CacheSize[c], 1}))) : \E b \in B :
       /\ pool' = pool \ B
       /\ cache' = [cache EXCEPT ![c] = B \ {b}]
       /\ cache_count' = [cache_count EXCEPT ![c] = @ + Cardinality(B) - 1]
       /\ held' = [held EXCEPT ![c] = @ \cup {b}]
  /\ UNCHANGED <<queue, module>>

(* Nothing there: the entry waits on the thread's queue. *)
Enqueue(c, e) ==
  /\ cache[c] = {} /\ pool = {}
  /\ queue' = [queue EXCEPT ![ThreadOf[c]] = Append(@, e)]
  /\ module' = [module EXCEPT ![e] = c]
  /\ UNCHANGED <<pool, cache, cache_count, held>>

(* A callback may ask again with the entry it was called for; elsewhere each
   thread uses entries that do not wait. *)
spdk_iobuf_get(c, e) ==
  LET t == ThreadOf[c] IN
  /\ UserRuns(t)
  /\ c \in channels[t]
  /\ \A u \in Threads : e \notin Waiting(u) /\ (at[u] = [pt |-> "cb_fn", entry |-> e] => u = t)
  /\ TakeCached(c) \/ TakeBatch(c) \/ Enqueue(c, e)
  /\ UNCHANGED <<channels, at>>

FlushAtSize(c) == CacheSize[c]               \* mutant: flushed when it is full

(* The number of cached buffers at which some go back to the ring. *)
FlushAt(c) == CacheSize[c] + LeastOf(BatchSize, CacheSize[c])

PutToCacheFirst(c, b) ==   \* mutant: an entry is served only when the cache is full
  /\ queue[ThreadOf[c]] = <<>> \/ cache_count[c] < CacheSize[c]
  /\ cache' = [cache EXCEPT ![c] = @ \cup {b}]
  /\ cache_count' = [cache_count EXCEPT ![c] = @ + 1]
  /\ held' = [held EXCEPT ![c] = @ \ {b}]
  /\ UNCHANGED <<pool, queue, at>>

(* Nobody waits: the buffer goes to the ring, or to the cache, a batch of which
   goes to the ring when it has grown enough. *)
PutFree(c, b) ==
  /\ queue[ThreadOf[c]] = <<>>
  /\ held' = [held EXCEPT ![c] = @ \ {b}]
  /\ \/ /\ CacheSize[c] = 0
        /\ pool' = pool \cup {b}
        /\ UNCHANGED <<cache, cache_count>>
     \/ /\ CacheSize[c] > 0 /\ cache_count[c] + 1 < FlushAt(c)
        /\ cache' = [cache EXCEPT ![c] = @ \cup {b}]
        /\ cache_count' = [cache_count EXCEPT ![c] = @ + 1]
        /\ UNCHANGED pool
     \/ /\ CacheSize[c] > 0 /\ cache_count[c] + 1 >= FlushAt(c)
        /\ \E B \in Some(cache[c] \cup {b}, LeastOf(BatchSize, CacheSize[c])) :
             /\ pool' = pool \cup B
             /\ cache' = [cache EXCEPT ![c] = (@ \cup {b}) \ B]
             /\ cache_count' = [cache_count EXCEPT ![c] = @ + 1 - Cardinality(B)]
  /\ UNCHANGED <<queue, at>>

(* The first entry gets the buffer, and its callback is called. *)
PutServes(c, b) ==
  LET t == ThreadOf[c]
      e == Head(queue[t])
  IN /\ queue[t] # <<>>
     /\ queue' = [queue EXCEPT ![t] = Tail(@)]
     /\ held' = LET kept == [held EXCEPT ![c] = @ \ {b}]
                IN [kept EXCEPT ![module[e]] = @ \cup {b}]
     /\ Goto(t, [pt |-> "cb_fn", entry |-> e])
     /\ UNCHANGED <<pool, cache, cache_count>>

spdk_iobuf_put(c, b) ==
  LET t == ThreadOf[c] IN
  /\ At(t, "idle")
  /\ b \in held[c]
  /\ PutFree(c, b) \/ PutServes(c, b)
  /\ UNCHANGED <<channels, module>>

(* An entry that had to wait again in its callback, and is last, becomes first. *)
CbReturns(t) ==
  /\ At(t, "cb_fn")
  /\ LET e == at[t].entry IN
     queue' = IF queue[t] # <<>> /\ Last(queue[t]) = e
              THEN [queue EXCEPT ![t] = <<e>> \o Front(@)] ELSE queue
  /\ Goto(t, Idle)
  /\ UNCHANGED <<pool, channels, cache, cache_count, module, held>>

spdk_iobuf_entry_abort(t, e) ==
  /\ UserRuns(t)
  /\ \E k \in DOMAIN queue[t] :
       queue[t][k] = e /\ queue' = [queue EXCEPT ![t] = RemoveAt(@, k)]
  /\ UNCHANGED <<pool, channels, cache, cache_count, module, held, at>>

-----------------------------------------------------------------------------
Next ==
  \/ \E c \in Channels :
       \/ spdk_iobuf_channel_init(c)
       \/ spdk_iobuf_channel_fini(c)
       \/ \E e \in Entries : spdk_iobuf_get(c, e)
       \/ \E b \in Buffers : spdk_iobuf_put(c, b)
  \/ \E t \in Threads :
       \/ iobuf_channel_node_populate(t)
       \/ iobuf_channel_node_fini(t)
       \/ CbReturns(t)
       \/ \E e \in Entries : spdk_iobuf_entry_abort(t, e)

Spec == Init /\ [][Next]_vars

(* Its entry does not wait any more when the callback returns. *)
CbDone(t, e) == CbReturns(t) /\ at[t].entry = e /\ e \notin Waiting(t)

(* Calls end, the users of a channel go on giving back buffers while they have
   some, and no entry asks for more in its callback for ever. *)
Fairness ==
  /\ \A t \in Threads :
       WF_vars(iobuf_channel_node_populate(t) \/ iobuf_channel_node_fini(t) \/ CbReturns(t))
  /\ \A e \in Entries : SF_vars(\E t \in Threads : CbDone(t, e))
  /\ \A c \in Channels : SF_vars(\E b \in Buffers : spdk_iobuf_put(c, b))

FairSpec == Spec /\ Fairness

-----------------------------------------------------------------------------
(* Properties. *)

(* Every buffer is in exactly one place, the ring, one cache or one user's
   hands, and cache_count says how many a cache holds: none is lost or given
   out twice by populating, batches, flushes, hand-overs and failed inits. *)
BuffersConserved ==
  /\ \A b \in Buffers :
       Cardinality({c \in Channels : b \in cache[c]})
         + Cardinality({c \in Channels : b \in held[c]})
         + (IF b \in pool THEN 1 ELSE 0) = 1
  /\ \A c \in Channels : cache_count[c] = Cardinality(cache[c])

(* A cache holds less than one batch more than it was configured to, whatever
   the order of gets, puts and callbacks. *)
CacheBounded ==
  \A c \in Channels :
    /\ CacheSize[c] = 0 => cache[c] = {}
    /\ CacheSize[c] > 0 => Cardinality(cache[c]) < CacheSize[c] + LeastOf(BatchSize, CacheSize[c])

(* A channel that is alone on its thread keeps at least the cache_size buffers it
   was populated with, in its cache or with its users: others do not drain it. *)
ShareKept ==
  \A c \in Channels :
    LET t == ThreadOf[c] IN
    /\ \A d \in Channels : ThreadOf[d] = t => d = c
    /\ c \in channels[t] /\ at[t].pt \notin {"populate", "fini"}
    => Cardinality(cache[c]) + Cardinality(held[c]) >= CacheSize[c]

(* The thread has a channel with a cache, and no other channel. *)
OwnShare(t) ==
  \E c \in Channels : CacheSize[c] > 0 /\ {d \in Channels : ThreadOf[d] = t} = {c}

(* An entry is served or aborted in the end if its own thread has a buffer out,
   whatever callbacks ask for, and on a thread with one cached channel even if it
   has none out now: wherever the others' buffers go, its own share comes back to
   its own queue. *)
WaiterServed ==
  \A t \in Threads, e \in Entries :
    (/\ e \in Waiting(t)
     /\ OwnShare(t) \/ \E c \in Channels : ThreadOf[c] = t /\ held[c] # {})
      ~> e \notin Waiting(t)

(* No buffer is lost or given out twice, and the caches count theirs. *)
BuffersAccounted == TypeOK /\ BuffersConserved

(* A cache keeps neither more nor less than it may. *)
CachesKept == CacheBounded /\ ShareKept
=============================================================================
