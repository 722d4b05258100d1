--------------------------- MODULE BlobstoreProofs ---------------------------
(***************************************************************************)
(* Proofs about module Blobstore: its masks, its disk and its erasures are *)
(* sound for any number of pages, clusters, blobs, changes and crashes.    *)
(*                                                                         *)
(* The inductive invariant says, for each blob in memory and each point of *)
(* its persist, how its record relates to the chain on disk (Mem); that no *)
(* page or cluster is had by two blobs (Apart); and that whatever a blob   *)
(* has is in the masks (Claimed, MasksTrue).  The operators that run the   *)
(* code up to the next I/O each get a lemma: from a record that can be     *)
(* persisted, or whose root is written, they lead to one that is good      *)
(* beside others that have pages O and clusters OC.  StepGood, CallGood    *)
(* and WriteGood lift them to the actions.  It follows, too, that          *)
(* Blobstore implements DurableBlobs.                                      *)
(***************************************************************************)
EXTENDS Blobstore, FiniteSetTheorems, SequenceTheorems, WellFoundedInduction, TLAPS

(* The values of the variables. *)
Body == [et : BOOLEAN, cl : Seq(Clusters), ep : Seq(MdPages)]
Page ==
  {ZeroPage}
  \cup [kind : {"root"}, id : MdPages, ver : Nat, next : MdPages \cup {NoPage}, body : Body]
  \cup [kind : {"chain"}, id : MdPages, ver : Nat, body : Body]
  \cup [kind : {"extent"}, id : MdPages, ver : Nat, start : Nat, cl : Seq(Clusters)]
Masks == [md : SUBSET MdPages, ids : SUBSET MdPages, clusters : SUBSET Clusters]
Alive == {"creating", "open", "closing"}
BlobRec ==
  [id : MdPages, st : Alive \cup {"deleting"}, dirty : BOOLEAN, et : BOOLEAN, big : BOOLEAN,
   ver : Nat, num : Nat, cl : Seq(Clusters), nep : Nat, ep : Seq(MdPages),
   pages : SUBSET MdPages, clean_num : Nat, clean_nep : Nat, clean_pages : SUBSET MdPages,
   io : {"idle", "super", "extent", "chain", "root", "zero", "clusters", "extents"},
   left : SUBSET Nat, pend : BOOLEAN, root : Page, chain : Page, extent : Page]

(* Loads, PagesOnDisk and ClustersOnDisk for any pages d, not only those on disk. *)
RootAt(d, b) == d[b].kind = "root" /\ d[b].id = b
LoadsAt(d, b) ==
  /\ RootAt(d, b)
  /\ d[b].next # NoPage => d[d[b].next].kind = "chain" /\ d[d[b].next].id = b
LastAt(d, b) == IF d[b].next = NoPage THEN d[b] ELSE d[d[b].next]
BodyAt(d, b) == LastAt(d, b).body
ChainAt(d, b) == {d[b].next} \ {NoPage}
PagesAt(d, b) == {b} \cup ChainAt(d, b) \cup ToSet(BodyAt(d, b).ep)
ClustersAt(d, b) ==
  ToSet(BodyAt(d, b).cl)
  \cup UNION {ToSet(d[p].cl) : p \in {q \in ToSet(BodyAt(d, b).ep) : d[q].kind = "extent"}}

(* What a blob that is not in memory has. *)
DiskPg(d, b) == IF LoadsAt(d, b) THEN PagesAt(d, b) ELSE IF RootAt(d, b) THEN {b} ELSE {}
DiskCl(d, b) == IF LoadsAt(d, b) THEN ClustersAt(d, b) ELSE {}

(* The extent pages of n clusters; a blob without extent table has none. *)
EpCount(et, n) == IF et THEN ExtentPages(n) ELSE 0

(* Extent page j of blob r is on disk: its part of the clusters of r, or a    *)
(* beginning of it, and none beyond the n-th.                                 *)
Fit(d, b, r, j, n) ==
  LET q == d[r.ep[j]] IN
  /\ q.kind = "extent" /\ q.id = b /\ q.start = (j - 1) * ExtentsPerEp
  /\ Len(q.cl) <= ExtentsPerEp
  /\ \A k \in 1 .. Len(q.cl) :
       (j - 1) * ExtentsPerEp + k <= n /\ q.cl[k] = r.cl[(j - 1) * ExtentsPerEp + k]

(* blob_serialize, for another size. *)
Serial(r, n, ne) ==
  [et |-> r.et, cl |-> IF r.et THEN <<>> ELSE SubSeq(r.cl, 1, n), ep |-> SubSeq(r.ep, 1, ne)]

(* The chain on disk, if it loads, is that of r with n clusters and ne extent pages. *)
OnDisk(d, b, r, n, ne, pages, bound) ==
  /\ n <= Len(r.cl) /\ ne <= Len(r.ep)
  /\ LoadsAt(d, b) => ChainAt(d, b) \subseteq pages /\ BodyAt(d, b) = Serial(r, n, ne)
  /\ \A j \in 1 .. ne : Fit(d, b, r, j, bound)

(* What holds of a blob in memory at any time. *)
Base(b, r) ==
  /\ r \in BlobRec /\ r.id = b
  /\ IsInjective(r.cl) /\ IsInjective(r.ep)
  /\ r.num <= Len(r.cl) /\ r.nep <= Len(r.ep)
  /\ r.nep = EpCount(r.et, r.num) /\ r.clean_nep = EpCount(r.et, r.clean_num)
  /\ r.et \/ r.ep = <<>>
  /\ b \notin ToSet(r.ep)
  /\ (r.pages \cup r.clean_pages) \cap ({b} \cup ToSet(r.ep)) = {} 

(* The chain on disk is the clean state of the blob. *)
Unwritten(d, b, r) ==
  /\ Base(b, r)
  /\ OnDisk(d, b, r, r.clean_num, r.clean_nep, r.clean_pages, Len(r.cl))
  /\ RootAt(d, b) => d[b].ver <= r.ver
  /\ RootAt(d, b) /\ r.st # "deleting" => LoadsAt(d, b)

(* No page of a new chain is allocated. *)
Idle(d, b, r) == Unwritten(d, b, r) /\ r.st \in Alive /\ r.pages = r.clean_pages

(* The extent pages before the i-th are written. *)
Ready(d, b, r, i) == \A j \in 1 .. r.nep : j < i => Fit(d, b, r, j, r.num)

(* What is being written to the i-th extent page. *)
ExtentStaged(b, r, i) ==
  r.extent = ExtentPage(b, r.extent.ver, (i - 1) * ExtentsPerEp,
                   SubSeq(r.cl, (i - 1) * ExtentsPerEp + 1, Min({i * ExtentsPerEp, r.num})))

(* The root that is going to be written, and its chain on a page of its own. *)
Staged(d, b, r) ==
  LET v == r.root.ver IN
  /\ v <= r.ver
  /\ RootAt(d, b) => d[b].ver <= v
  /\ \/ r.pages = {} /\ r.root = RootPage(b, v, NoPage, blob_serialize(r)) /\ r.io = "root"
     \/ \E p \in MdPages :
          /\ r.pages = {p}
          /\ r.root = RootPage(b, v, p, NoBody)
          /\ r.chain = ChainPage(b, v, blob_serialize(r))
          /\ r.io = "root" => d[p] = r.chain

(* The root is written: the chain on disk is what the blob is in memory, and  *)
(* the pages of the clean state are no longer part of it.                     *)
Written(d, b, r) ==
  /\ Base(b, r) /\ r.st \in Alive
  /\ LoadsAt(d, b) /\ d[b].ver = r.root.ver /\ d[b].ver <= r.ver
  /\ OnDisk(d, b, r, r.num, r.nep, r.pages, r.num)

(* A blob in memory, by the I/O of its persist. *)
MemExtent(d, b, r) ==
  /\ Idle(d, b, r)
  /\ \E i \in 1 .. Len(r.ep) : r.left = {i} /\ Ready(d, b, r, i) /\ ExtentStaged(b, r, i)
MemStaged(d, b, r) ==
  /\ Unwritten(d, b, r) /\ r.st \in Alive
  /\ r.pages \cap r.clean_pages = {}
  /\ Ready(d, b, r, r.nep + 1) /\ Staged(d, b, r)
MemZero(d, b, r) ==
  Written(d, b, r) /\ r.pages \cap r.clean_pages = {} /\ r.left \subseteq r.clean_pages
MemDying(d, b, r) ==
  /\ r.st = "deleting" /\ ~r.pend /\ r.num = 0
  /\ Unwritten(d, b, r) /\ r.pages = {}
  /\ r.io = "zero" => r.left \subseteq r.clean_pages \cup {b} /\ (RootAt(d, b) => b \in r.left)

Mem(d, b, r) ==
  \/ r.io \in {"idle", "super"} /\ Idle(d, b, r)
  \/ r.io = "extent" /\ MemExtent(d, b, r)
  \/ r.io \in {"chain", "root"} /\ MemStaged(d, b, r)
  \/ r.io = "zero" /\ MemZero(d, b, r)
  \/ r.io = "clusters" /\ Written(d, b, r)
  \/ r.io = "extents" /\ Written(d, b, r) /\ r.left \subseteq ItemsAfter(r.ep, r.nep)
  \/ r.io \in {"super", "zero"} /\ MemDying(d, b, r)

(* Page q is the i-th extent page of blob b. *)
ExtentOf(q, b, i) ==
  /\ q.kind = "extent" /\ q.id = b /\ q.start = (i - 1) * ExtentsPerEp
  /\ Len(q.cl) <= ExtentsPerEp /\ IsInjective(q.cl)

(* What a chain that loads may name. *)
Sound(d, b, body) ==
  /\ IsInjective(body.cl) /\ IsInjective(body.ep)
  /\ IF body.et THEN body.cl = <<>> ELSE body.ep = <<>>
  /\ b \notin ToSet(body.ep) /\ d[b].next \notin ToSet(body.ep)
  /\ \A i \in DOMAIN body.ep : ExtentOf(d[body.ep[i]], b, i)
  /\ \A i, j \in DOMAIN body.ep :
       i # j => ToSet(d[body.ep[i]].cl) \cap ToSet(d[body.ep[j]].cl) = {}

Closed(d, b) == LoadsAt(d, b) => Sound(d, b, BodyAt(d, b))

(* The version the application knows of is on disk; only a delete leaves a    *)
(* root without its chain.                                                    *)
Ack(d, b, a) ==
  /\ a >= 0 => LoadsAt(d, b) /\ d[b].ver >= a
  /\ RootAt(d, b) => LoadsAt(d, b) \/ a = Doomed

(* A deleted blob whose root is zeroed. *)
DelOK(r) ==
  /\ r \in BlobRec /\ r.st = "deleting" /\ ~r.pend
  /\ r.num = 0 /\ r.nep = 0
  /\ \/ r.io = "clusters"
     \/ r.io = "extents" /\ r.cl = <<>> /\ r.left \subseteq ToSet(r.ep)

(* What a blob in memory has. The old chain is released once it is zeroed. *)
MP(r) == {r.id} \cup ToSet(r.ep) \cup r.pages
         \cup (IF r.io \in {"clusters", "extents"} THEN {} ELSE r.clean_pages)

(* The pages and the clusters of a blob, in memory or on disk. *)
Pg(b) == IF InMemory(b) THEN MP(blob[b]) ELSE DiskPg(disk, b)
Cg(b) == IF InMemory(b) THEN ToSet(blob[b].cl) ELSE DiskCl(disk, b)

(* Loading and unloading. *)
States == {"unloaded", "failed", "loaded", "recover_md", "recover_ids", "recover_clusters",
           "unload_md", "unload_ids", "unload_clusters", "unload_super"}
Running == bs \notin {"unloaded", "failed"}

Types ==
  /\ disk \in [MdPages -> Page]
  /\ super_clean \in BOOLEAN /\ clean \in BOOLEAN /\ bs \in States
  /\ masks \in Masks /\ used \in Masks
  /\ DOMAIN blob = MdPages
  /\ acked \in [MdPages -> Int] /\ \A b \in MdPages : acked[b] \in Doomed .. changes
  /\ changes \in 0 .. MaxChanges /\ crashes \in 0 .. MaxCrashes
  /\ \A b \in MdPages : InMemory(b) => blob[b].ver <= changes
  /\ \A b \in MdPages : RootAt(disk, b) => disk[b].ver <= changes

(* Each blob by itself. *)
Blobs ==
  \A b \in MdPages :
    /\ IF InMemory(b) THEN Mem(disk, b, blob[b]) ELSE Closed(disk, b)
    /\ Ack(disk, b, acked[b])
    /\ RootAt(disk, b) /\ blob[b].st = "deleting" => acked[b] = Doomed

(* Nothing belongs to two blobs, those being cleared after a delete included. *)
Apart ==
  /\ \A b, c \in MdPages : b # c => Pg(b) \cap Pg(c) = {} /\ Cg(b) \cap Cg(c) = {}
  /\ \A b \in MdPages, r \in deleted : Pg(b) \cap ToSet(r.ep) = {} /\ Cg(b) \cap ToSet(r.cl) = {}
  /\ \A r, s \in deleted : r # s =>
       ToSet(r.ep) \cap ToSet(s.ep) = {} /\ ToSet(r.cl) \cap ToSet(s.cl) = {}

(* The masks in memory list what the blobs have. Pages that are listed and    *)
(* that no blob has are lost until a replay, and do no harm.                  *)
Claimed == Running =>
  /\ \A b \in MdPages : Pg(b) \subseteq used.md /\ Cg(b) \subseteq used.clusters
  /\ \A r \in deleted : ToSet(r.ep) \subseteq used.md /\ ToSet(r.cl) \subseteq used.clusters
  /\ \A b \in MdPages : LoadsAt(disk, b) \/ blob[b].st \in Alive =>
       b \in used.ids \/ (InMemory(b) /\ blob[b].st = "deleting")

(* So do the masks on disk, when they are trusted. *)
MasksTrue == super_clean => \A b \in MdPages :
  /\ DiskPg(disk, b) \subseteq masks.md /\ DiskCl(disk, b) \subseteq masks.clusters
  /\ LoadsAt(disk, b) => b \in masks.ids

(* Where the blobstore is: nothing is written before the super block says     *)
(* dirty, and it says clean only when the masks are those in memory.          *)
Modes ==
  /\ bs # "loaded" => deleted = {} /\ \A b \in MdPages : ~InMemory(b)
  /\ \A r \in deleted : DelOK(r)
  /\ ~clean => ~super_clean
  /\ deleted # {} => ~clean
  /\ \A b \in MdPages : InMemory(b) /\ blob[b].io \notin {"idle", "super"} => ~clean
  /\ bs \in {"recover_md", "recover_ids", "recover_clusters"} => ~super_clean
  /\ bs \in {"unload_ids", "unload_clusters", "unload_super"} => masks.md = used.md
  /\ bs \in {"unload_clusters", "unload_super"} => masks.ids = used.ids
  /\ bs = "unload_super" => masks.clusters = used.clusters

(* The inductive invariant. *)
IndInv == Types /\ Blobs /\ Apart /\ Claimed /\ MasksTrue /\ Modes

-----------------------------------------------------------------------------
(* Numbers and sequences. *)

(* The least element of a set of numbers. *)
LEMMA MinIsIn ==
  ASSUME NEW S \in SUBSET Nat, S # {}
  PROVE  Min(S) \in S /\ \A n \in S : Min(S) <= n
  <1>1. PICK x \in S : \A n \in S : ~ (<<n, x>> \in OpToRel(<, Nat))
    BY NatLessThanWellFounded, WFMin
  <1>2. \A n \in S : ~ (n < x)
    BY <1>1 DEF OpToRel
  <1>3. \A n \in S : x <= n
    BY <1>2
  <1> QED
    BY <1>3 DEF Min

(* The elements of a finite set of numbers are ranked from 1 on. *)
LEMMA Ranked ==
  ASSUME NEW K \in SUBSET Nat, IsFiniteSet(K)
  PROVE  /\ Cardinality(K) \in Nat
         /\ \A n \in K : Cardinality({m \in K : m <= n}) \in 1 .. Cardinality(K)
         /\ \A k \in 1 .. Cardinality(K) : \E n \in K : Cardinality({m \in K : m <= n}) = k
         /\ \A a, b \in K :
              Cardinality({m \in K : m <= a}) = Cardinality({m \in K : m <= b}) => a = b
  <1> DEFINE Up(n) == {m \in K : m <= n}
             N == Cardinality(K)
             f == [n \in K |-> Cardinality(Up(n))]
  <1>1. N \in Nat
    BY FS_CardinalityType
  <1>2. ASSUME NEW n \in K
        PROVE  IsFiniteSet(Up(n)) /\ Cardinality(Up(n)) \in 1 .. N
    <2>1. Up(n) \in SUBSET K /\ n \in Up(n)
      OBVIOUS
    <2> HIDE DEF Up
    <2>2. IsFiniteSet(Up(n)) /\ Cardinality(Up(n)) <= N
      BY <2>1, FS_Subset
    <2>3. Cardinality(Up(n)) \in Nat /\ Cardinality(Up(n)) # 0
      BY <2>1, <2>2, FS_CardinalityType, FS_EmptySet
    <2> QED
      BY <1>1, <2>2, <2>3
  <1>3. ASSUME NEW a \in K, NEW b \in K, a < b
        PROVE  Cardinality(Up(a)) # Cardinality(Up(b))
    <2>1. Up(a) \in SUBSET Up(b) /\ b \in Up(b) /\ b \notin Up(a)
      <3>1. a \in Nat /\ b \in Nat /\ \A m \in K : m \in Nat
        OBVIOUS
      <3>2. \A m \in K : m <= a => m <= b
        BY <1>3, <3>1
      <3>3. b <= b /\ ~ (b <= a)
        BY <1>3, <3>1
      <3> QED
        BY <3>2, <3>3
    <2>2. IsFiniteSet(Up(b))
      BY <1>2
    <2> HIDE DEF Up
    <2> QED
      BY <2>1, <2>2, FS_Subset
  <1>4. ASSUME NEW a \in K, NEW b \in K, Cardinality(Up(a)) = Cardinality(Up(b))
        PROVE  a = b
    <2>1. a \in Nat /\ b \in Nat
      OBVIOUS
    <2> HIDE DEF Up
    <2>2. ~ (a < b) /\ ~ (b < a)
      BY <1>3, <1>4
    <2> QED
      BY <2>1, <2>2
  <1> HIDE DEF Up, N
  <1>5. f \in [K -> 1 .. N]
    BY <1>2
  <1>6. f \in Injection(K, 1 .. N)
    BY <1>4, <1>5 DEF Injection, IsInjective
  <1>7. IsFiniteSet(1 .. N) /\ Cardinality(1 .. N) = N
    BY <1>1, FS_Interval
  <1>8. f \in Surjection(K, 1 .. N)
    <2> HIDE DEF f
    <2> QED
      BY <1>6, <1>7, FS_Injection DEF N
  <1>9. \A k \in 1 .. N : \E n \in K : f[n] = k
    <2> HIDE DEF f
    <2> QED
      BY <1>8 DEF Surjection
  <1>10. \A k \in 1 .. N : \E n \in K : Cardinality(Up(n)) = k
    BY <1>9
  <1> QED
    BY <1>1, <1>2, <1>4, <1>10 DEF Up, N


(* FirstFree takes different elements of S. *)
LEMMA FirstFreeFacts ==
  ASSUME NEW S \in SUBSET Nat, IsFiniteSet(S), NEW n \in Nat, n <= Cardinality(S)
  PROVE  /\ FirstFree(S, n) \in Seq(S) /\ Len(FirstFree(S, n)) = n
         /\ IsInjective(FirstFree(S, n))
  <1> DEFINE Rank(x) == Cardinality({y \in S : y <= x})
             q == FirstFree(S, n)
  <1>1. q = [k \in 1 .. n |-> CHOOSE x \in S : Rank(x) = k]
    BY DEF FirstFree
  <1>2. /\ Cardinality(S) \in Nat
        /\ \A k \in 1 .. Cardinality(S) : \E x \in S : Rank(x) = k
    BY Ranked
  <1> HIDE DEF Rank, q
  <1>3. \A k \in 1 .. n : \E x \in S : Rank(x) = k
    BY <1>2
  <1>4. \A k \in 1 .. n : q[k] \in S /\ Rank(q[k]) = k
    BY <1>1, <1>3
  <1>5. q = [k \in 1 .. n |-> q[k]] /\ DOMAIN q = 1 .. n
    BY <1>1
  <1>6. q \in [1 .. n -> S]
    BY <1>4, <1>5
  <1>7. q \in Seq(S) /\ Len(q) = n
    BY <1>6
  <1>8. IsInjective(q)
    BY <1>4, <1>5 DEF IsInjective
  <1> QED
    BY <1>7, <1>8 DEF q

(* What a sequence has. *)
LEMMA ToSetFacts ==
  ASSUME NEW T, NEW s \in Seq(T)
  PROVE  /\ Len(s) \in Nat /\ DOMAIN s = 1 .. Len(s)
         /\ \A i \in 1 .. Len(s) : s[i] \in T /\ s[i] \in ToSet(s)
         /\ \A x \in ToSet(s) : x \in T /\ \E i \in 1 .. Len(s) : s[i] = x
         /\ ToSet(s) \subseteq T
  <1>1. Len(s) \in Nat /\ DOMAIN s = 1 .. Len(s) /\ \A i \in 1 .. Len(s) : s[i] \in T
    BY LenProperties, ElementOfSeq
  <1> QED
    BY <1>1 DEF ToSet

(* The empty sequence is injective and has no items. *)
LEMMA EmptyFacts == ToSet(<<>>) = {} /\ IsInjective(<<>>) /\ Len(<<>>) = 0
  BY DEF ToSet, IsInjective

(* A sequence whose elements differ. *)
LEMMA InjectiveFacts ==
  ASSUME NEW T, NEW s \in Seq(T)
  PROVE  IsInjective(s) <=> \A i, j \in 1 .. Len(s) : s[i] = s[j] => i = j
  BY ToSetFacts DEF IsInjective

(* The first n items of a sequence, and the others. *)
LEMMA PrefixFacts ==
  ASSUME NEW T, NEW s \in Seq(T), NEW n \in Nat, n <= Len(s)
  PROVE  /\ SubSeq(s, 1, n) \in Seq(T) /\ Len(SubSeq(s, 1, n)) = n
         /\ \A i \in 1 .. n : SubSeq(s, 1, n)[i] = s[i]
         /\ ToSet(SubSeq(s, 1, n)) \subseteq ToSet(s)
         /\ ItemsAfter(s, n) \subseteq ToSet(s)
         /\ ItemsAfter(s, n) = {} => n = Len(s)
         /\ n = Len(s) => SubSeq(s, 1, n) = s /\ ItemsAfter(s, n) = {}
         /\ IsInjective(s) => IsInjective(SubSeq(s, 1, n))
         /\ IsInjective(s) => ItemsAfter(s, n) \cap ToSet(SubSeq(s, 1, n)) = {}
         /\ ToSet(s) = ToSet(SubSeq(s, 1, n)) \cup ItemsAfter(s, n)
  <1> DEFINE q == SubSeq(s, 1, n)
  <1>1. Len(s) \in Nat /\ DOMAIN s = 1 .. Len(s) /\ \A i \in 1 .. Len(s) : s[i] \in T
    BY LenProperties, ElementOfSeq
  <1>2. q \in Seq(T) /\ Len(q) = n /\ \A i \in 1 .. n : q[i] = s[i]
    <2>1. \A i \in 1 .. n : s[i] \in T
      BY <1>1
    <2> QED
      BY <2>1, SubSeqProperties
  <1>3. n = Len(s) => q = s
    BY SubSeqFull
  <1> HIDE DEF q
  <1>4. DOMAIN q = 1 .. n
    BY <1>2
  <1>5. ToSet(q) \subseteq ToSet(s)
    BY <1>1, <1>2, <1>4 DEF ToSet
  <1>0. Len(s) \in Nat
    BY <1>1
  <1>6. ItemsAfter(s, n) \subseteq ToSet(s) /\ (n = Len(s) => ItemsAfter(s, n) = {})
    <2>1. \A i \in n + 1 .. Len(s) : i \in DOMAIN s
      <3>1. \A i \in n + 1 .. Len(s) : i \in 1 .. Len(s)
        BY <1>0
      <3> QED
        BY <1>1, <3>1
    <2>2. n = Len(s) => n + 1 .. Len(s) = {}
      BY <1>0
    <2> QED
      BY <2>1, <2>2 DEF ToSet, ItemsAfter
  <1>7. ItemsAfter(s, n) = {} => n = Len(s)
    <2> SUFFICES ASSUME n # Len(s) PROVE ItemsAfter(s, n) # {}
      OBVIOUS
    <2>1. Len(s) \in n + 1 .. Len(s)
      BY <1>0
    <2> QED
      BY <2>1 DEF ItemsAfter
  <1>8. IsInjective(s) => IsInjective(q)
    BY <1>1, <1>2, <1>4 DEF IsInjective
  <1>9. IsInjective(s) => ItemsAfter(s, n) \cap ToSet(q) = {}
    <2> SUFFICES ASSUME IsInjective(s), NEW x \in ItemsAfter(s, n), x \in ToSet(q)
                 PROVE  FALSE
      OBVIOUS
    <2>1. PICK i \in n + 1 .. Len(s) : x = s[i]
      BY DEF ItemsAfter
    <2>2. PICK j \in 1 .. n : x = s[j]
      BY <1>2, <1>4 DEF ToSet
    <2>3. i \in DOMAIN s /\ j \in DOMAIN s /\ i # j
      BY <1>1, <2>1, <2>2
    <2> QED
      BY <2>1, <2>2, <2>3 DEF IsInjective
  <1>10. ToSet(s) = ToSet(q) \cup ItemsAfter(s, n)
    <2> SUFFICES ASSUME NEW x \in ToSet(s) PROVE x \in ToSet(q) \cup ItemsAfter(s, n)
      BY <1>5, <1>6
    <2>1. PICK i \in 1 .. Len(s) : x = s[i]
      BY <1>1 DEF ToSet
    <2>2. CASE i <= n
      BY <1>1, <1>2, <1>4, <2>1, <2>2 DEF ToSet
    <2>3. CASE ~(i <= n)
      <3>1. i \in n + 1 .. Len(s)
        BY <1>1, <2>3
      <3> QED
        BY <2>1, <3>1 DEF ItemsAfter
    <2> QED
      BY <2>2, <2>3
  <1> QED
    BY <1>2, <1>3, <1>5, <1>6, <1>7, <1>8, <1>9, <1>10 DEF q

(* The first items of the first items. *)
LEMMA PrefixOfPrefix ==
  ASSUME NEW T, NEW s \in Seq(T), NEW m \in Nat, m <= Len(s), NEW n \in Nat, n <= m
  PROVE  SubSeq(SubSeq(s, 1, m), 1, n) = SubSeq(s, 1, n)
  <1> DEFINE q == SubSeq(s, 1, m)
  <1>1. q \in Seq(T) /\ Len(q) = m /\ \A i \in 1 .. m : q[i] = s[i]
    BY PrefixFacts
  <1>2. Len(s) \in Nat
    OBVIOUS
  <1> HIDE DEF q
  <1>3. /\ SubSeq(q, 1, n) \in Seq(T) /\ Len(SubSeq(q, 1, n)) = n
        /\ \A i \in 1 .. n : SubSeq(q, 1, n)[i] = q[i]
    BY <1>1, PrefixFacts
  <1>4. /\ SubSeq(s, 1, n) \in Seq(T) /\ Len(SubSeq(s, 1, n)) = n
        /\ \A i \in 1 .. n : SubSeq(s, 1, n)[i] = s[i]
    BY <1>2, PrefixFacts
  <1>5. \A i \in 1 .. n : SubSeq(q, 1, n)[i] = SubSeq(s, 1, n)[i]
    BY <1>1, <1>3, <1>4
  <1>6. SubSeq(q, 1, n) = SubSeq(s, 1, n)
    BY <1>3, <1>4, <1>5, SeqEqual
  <1> QED
    BY <1>6 DEF q

(* Two sequences one after the other. *)
LEMMA ConcatFacts ==
  ASSUME NEW T, NEW s \in Seq(T), NEW t \in Seq(T)
  PROVE  /\ s \o t \in Seq(T) /\ Len(s \o t) = Len(s) + Len(t)
         /\ \A i \in 1 .. Len(s) : (s \o t)[i] = s[i]
         /\ ToSet(s \o t) = ToSet(s) \cup ToSet(t)
         /\ IsInjective(s) /\ IsInjective(t) /\ ToSet(s) \cap ToSet(t) = {} => IsInjective(s \o t)
         /\ \A n \in 0 .. Len(s) : SubSeq(s \o t, 1, n) = SubSeq(s, 1, n)
  <1> DEFINE q == s \o t
  <1>1. Len(s) \in Nat /\ DOMAIN s = 1 .. Len(s) /\ Len(t) \in Nat /\ DOMAIN t = 1 .. Len(t)
    BY LenProperties
  <1>2. /\ q \in Seq(T) /\ Len(q) = Len(s) + Len(t)
        /\ \A i \in 1 .. Len(s) + Len(t) : q[i] = IF i <= Len(s) THEN s[i] ELSE t[i - Len(s)]
    BY ConcatProperties
  <1> HIDE DEF q
  <1>3. DOMAIN q = 1 .. Len(s) + Len(t)
    BY <1>2
  <1>4. \A i \in 1 .. Len(s) : i \in DOMAIN q /\ q[i] = s[i]
    BY <1>1, <1>2, <1>3
  <1>5. \A i \in 1 .. Len(t) : Len(s) + i \in DOMAIN q /\ q[Len(s) + i] = t[i]
    BY <1>1, <1>2, <1>3
  <1>6. \A i \in DOMAIN q : \/ i \in DOMAIN s /\ q[i] = s[i]
                            \/ i > Len(s) /\ i - Len(s) \in DOMAIN t /\ q[i] = t[i - Len(s)]
    BY <1>1, <1>2, <1>3
  <1>7. ToSet(q) = ToSet(s) \cup ToSet(t)
    <2>1. ToSet(q) \subseteq ToSet(s) \cup ToSet(t)
      BY <1>6 DEF ToSet
    <2>2. ToSet(s) \subseteq ToSet(q)
      BY <1>1, <1>4 DEF ToSet
    <2>3. ToSet(t) \subseteq ToSet(q)
      BY <1>1, <1>5 DEF ToSet
    <2> QED
      BY <2>1, <2>2, <2>3
  <1>8. ASSUME IsInjective(s), IsInjective(t), ToSet(s) \cap ToSet(t) = {}
        PROVE  IsInjective(q)
    <2> SUFFICES ASSUME NEW i \in DOMAIN q, NEW j \in DOMAIN q, q[i] = q[j] PROVE i = j
      BY DEF IsInjective
    <2>1. \A x \in DOMAIN s, y \in DOMAIN t : s[x] # t[y]
      BY <1>8 DEF ToSet
    <2>2. i \in Nat /\ j \in Nat
      BY <1>3
    <2> QED
      BY <1>1, <1>6, <1>8, <2>1, <2>2 DEF IsInjective
  <1>9. ASSUME NEW n \in 0 .. Len(s) PROVE SubSeq(q, 1, n) = SubSeq(s, 1, n)
    <2>1. n \in Nat /\ n <= Len(s) /\ n <= Len(q)
      BY <1>1, <1>2
    <2>2. /\ SubSeq(q, 1, n) \in Seq(T) /\ Len(SubSeq(q, 1, n)) = n
          /\ \A i \in 1 .. n : SubSeq(q, 1, n)[i] = q[i]
      BY <1>2, <2>1, PrefixFacts
    <2>3. /\ SubSeq(s, 1, n) \in Seq(T) /\ Len(SubSeq(s, 1, n)) = n
          /\ \A i \in 1 .. n : SubSeq(s, 1, n)[i] = s[i]
      BY <2>1, PrefixFacts
    <2>4. \A i \in 1 .. n : SubSeq(q, 1, n)[i] = SubSeq(s, 1, n)[i]
      BY <1>1, <1>4, <2>1, <2>2, <2>3
    <2> QED
      BY <2>2, <2>3, <2>4, SeqEqual
  <1> QED
    BY <1>2, <1>4, <1>7, <1>8, <1>9 DEF q

-----------------------------------------------------------------------------
(* Extent pages. *)

(* spdk_divide_round_up: the pages for n clusters are full but for the last. *)
LEMMA ExtentPagesFacts ==
  ASSUME NEW n \in Nat
  PROVE  /\ ExtentPages(n) \in Nat /\ n <= ExtentPages(n) * ExtentsPerEp
         /\ n > 0 => ExtentPages(n) > 0 /\ (ExtentPages(n) - 1) * ExtentsPerEp < n
         /\ n = 0 => ExtentPages(n) = 0
  <1>1. ExtentsPerEp \in Nat /\ ExtentsPerEp # 0
    BY SizesAssumption
  <1>2. PICK x \in Nat : x = n + ExtentsPerEp - 1
    BY <1>1
  <1>3. /\ x \div ExtentsPerEp \in Nat /\ (x \div ExtentsPerEp) * ExtentsPerEp <= x
        /\ x < (x \div ExtentsPerEp) * ExtentsPerEp + ExtentsPerEp
    BY <1>1
  <1>4. PICK k \in Nat : k = x \div ExtentsPerEp
    BY <1>3
  <1>5. ExtentPages(n) = k
    BY <1>2, <1>4 DEF ExtentPages
  <1>6. k * ExtentsPerEp <= x /\ x < k * ExtentsPerEp + ExtentsPerEp
    BY <1>3, <1>4
  <1>7. k # 0 => (k - 1) * ExtentsPerEp = k * ExtentsPerEp - ExtentsPerEp
    BY <1>1
  <1>8. k # 0 => k * ExtentsPerEp >= ExtentsPerEp
    BY <1>1
  <1>9. k = 0 => k * ExtentsPerEp = 0
    BY <1>1
  <1>10. k * ExtentsPerEp \in Nat
    BY <1>1
  <1> QED
    BY <1>1, <1>2, <1>5, <1>6, <1>7, <1>8, <1>9, <1>10

(* spdk_divide_round_up, from the two bounds that determine it. *)
LEMMA ExtentPagesIs ==
  ASSUME NEW n \in Nat, NEW k \in Nat, n <= k * ExtentsPerEp, (k - 1) * ExtentsPerEp < n, k # 0
  PROVE  ExtentPages(n) = k
  <1>1. ExtentsPerEp \in Nat /\ ExtentsPerEp # 0
    BY SizesAssumption
  <1>2. PICK j \in Nat : j = ExtentPages(n)
    BY ExtentPagesFacts
  <1>3. n > 0
    BY <1>1
  <1>4. n <= j * ExtentsPerEp /\ (j - 1) * ExtentsPerEp < n /\ j # 0
    BY <1>2, <1>3, ExtentPagesFacts
  <1>5. ~ (j < k)
    BY <1>1, <1>4
  <1>6. ~ (k < j)
    BY <1>1, <1>4
  <1> QED
    BY <1>2, <1>5, <1>6

(* More clusters need at least as many extent pages. *)
LEMMA ExtentPagesMonotone ==
  ASSUME NEW m \in Nat, NEW n \in Nat, m <= n
  PROVE  ExtentPages(m) <= ExtentPages(n)
  <1>1. ExtentsPerEp \in Nat /\ ExtentsPerEp # 0
    BY SizesAssumption
  <1>2. PICK j \in Nat, k \in Nat : j = ExtentPages(m) /\ k = ExtentPages(n)
    BY ExtentPagesFacts
  <1>3. CASE m = 0
    BY <1>2, <1>3, ExtentPagesFacts
  <1>4. CASE m # 0
    <2>1. (j - 1) * ExtentsPerEp < m /\ n <= k * ExtentsPerEp
      BY <1>2, <1>4, ExtentPagesFacts
    <2>2. (j - 1) * ExtentsPerEp < k * ExtentsPerEp
      BY <1>1, <2>1
    <2>3. ~ (k < j)
      BY <1>1, <2>2
    <2> QED
      BY <1>2, <2>3
  <1> QED
    BY <1>3, <1>4

(* What EpCount returns: a number that grows with n, and the last page is not empty. *)
LEMMA EpCountFacts ==
  ASSUME NEW et, NEW n \in Nat
  PROVE  /\ EpCount(et, n) \in Nat
         /\ \A m \in Nat : m <= n => EpCount(et, m) <= EpCount(et, n)
         /\ EpCount(et, 0) = 0
         /\ EpCount(et, n) # 0 => (EpCount(et, n) - 1) * ExtentsPerEp < n
  BY ExtentPagesFacts, ExtentPagesMonotone DEF EpCount

(* A position belongs to one extent page. *)
LEMMA SliceUnique ==
  ASSUME NEW i \in Nat \ {0}, NEW j \in Nat \ {0}, NEW k \in Nat \ {0}, NEW l \in Nat \ {0},
         k <= ExtentsPerEp, l <= ExtentsPerEp,
         (i - 1) * ExtentsPerEp + k = (j - 1) * ExtentsPerEp + l
  PROVE  i = j /\ k = l
  BY SizesAssumption

(* The clusters of an extent page come before those of a later one. *)
LEMMA SliceBelow ==
  ASSUME NEW i \in Nat \ {0}, NEW j \in Nat, i < j, NEW k \in Nat, k <= ExtentsPerEp
  PROVE  /\ (i - 1) * ExtentsPerEp + k <= (j - 1) * ExtentsPerEp
         /\ (i - 1) * ExtentsPerEp \in Nat
  BY SizesAssumption

-----------------------------------------------------------------------------
(* The disk. *)

(* The fields of a page, by its kind. *)
LEMMA PageTypes ==
  ASSUME NEW d \in [MdPages -> Page], NEW p \in MdPages
  PROVE  /\ d[p].kind = "root" => /\ d[p].id \in MdPages /\ d[p].ver \in Nat
                                  /\ d[p].next \in MdPages \cup {NoPage} /\ d[p].body \in Body
         /\ d[p].kind = "chain" => d[p].id \in MdPages /\ d[p].ver \in Nat /\ d[p].body \in Body
         /\ d[p].kind = "extent" => /\ d[p].id \in MdPages /\ d[p].ver \in Nat
                                    /\ d[p].start \in Nat /\ d[p].cl \in Seq(Clusters)
  <1>1. d[p] \in Page
    OBVIOUS
  <1> QED
    BY <1>1 DEF Page, ZeroPage

(* The fields of the chain of a blob that loads. *)
LEMMA BodyTypes ==
  ASSUME NEW d \in [MdPages -> Page], NEW b \in MdPages, LoadsAt(d, b)
  PROVE  /\ BodyAt(d, b) \in Body /\ d[b].ver \in Nat
         /\ BodyAt(d, b).cl \in Seq(Clusters) /\ BodyAt(d, b).ep \in Seq(MdPages)
         /\ BodyAt(d, b).et \in BOOLEAN
         /\ ChainAt(d, b) \subseteq MdPages
         /\ d[b].next \in MdPages \cup {NoPage}
  <1>1. d[b].body \in Body /\ d[b].ver \in Nat /\ d[b].next \in MdPages \cup {NoPage}
    BY PageTypes DEF LoadsAt, RootAt
  <1>2. BodyAt(d, b) \in Body
    BY <1>1, PageTypes DEF LoadsAt, BodyAt, LastAt
  <1> QED
    BY <1>1, <1>2 DEF Body, ChainAt

(* A write outside the pages of c changes nothing for c. *)
LEMMA Elsewhere ==
  ASSUME NEW d \in [MdPages -> Page], NEW e \in [MdPages -> Page],
         NEW c \in MdPages, NEW p \in MdPages,
         \A q \in MdPages : q # p => e[q] = d[q],
         p \notin DiskPg(d, c),
         e[p].kind = "root" => p # c,
         e[p].kind = "chain" => e[p].id # c
  PROVE  /\ RootAt(e, c) <=> RootAt(d, c)
         /\ LoadsAt(e, c) <=> LoadsAt(d, c)
         /\ RootAt(d, c) => e[c] = d[c]
         /\ LoadsAt(d, c) => /\ BodyAt(e, c) = BodyAt(d, c) /\ ChainAt(e, c) = ChainAt(d, c)
                             /\ \A q \in ToSet(BodyAt(d, c).ep) : q \in MdPages /\ e[q] = d[q]
  <1>1. RootAt(d, c) => p # c
    BY DEF DiskPg, PagesAt
  <1>2. RootAt(d, c) => e[c] = d[c]
    BY <1>1
  <1>3. RootAt(e, c) <=> RootAt(d, c)
    BY <1>2 DEF RootAt
  <1>4. RootAt(d, c) => d[c].next \in MdPages \cup {NoPage}
    BY PageTypes DEF RootAt
  <1>5. ASSUME LoadsAt(d, c)
        PROVE  /\ LoadsAt(e, c)
               /\ BodyAt(e, c) = BodyAt(d, c) /\ ChainAt(e, c) = ChainAt(d, c)
               /\ \A q \in ToSet(BodyAt(d, c).ep) : q \in MdPages /\ e[q] = d[q]
    <2>1. RootAt(d, c) /\ e[c] = d[c] /\ d[c].next \in MdPages \cup {NoPage}
      BY <1>2, <1>4, <1>5 DEF LoadsAt
    <2>2. d[c].next # NoPage => d[c].next # p /\ d[c].next \in MdPages
      BY <1>5, <2>1 DEF DiskPg, PagesAt, ChainAt
    <2>3. d[c].next # NoPage => e[d[c].next] = d[d[c].next]
      BY <2>2
    <2>4. LoadsAt(e, c)
      BY <1>3, <1>5, <2>1, <2>3 DEF LoadsAt
    <2>5. BodyAt(e, c) = BodyAt(d, c) /\ ChainAt(e, c) = ChainAt(d, c)
      BY <2>1, <2>3 DEF BodyAt, LastAt, ChainAt
    <2>6. ToSet(BodyAt(d, c).ep) \subseteq MdPages
      BY <1>5, BodyTypes, ToSetFacts
    <2>7. p \notin ToSet(BodyAt(d, c).ep)
      BY <1>5 DEF DiskPg, PagesAt
    <2> QED
      BY <2>4, <2>5, <2>6, <2>7
  <1>6. ASSUME LoadsAt(e, c)
        PROVE  LoadsAt(d, c)
    <2>1. RootAt(d, c) /\ e[c] = d[c] /\ d[c].next \in MdPages \cup {NoPage}
      BY <1>2, <1>3, <1>4, <1>6 DEF LoadsAt
    <2>2. d[c].next # NoPage => e[d[c].next].kind = "chain" /\ e[d[c].next].id = c
      BY <1>6, <2>1 DEF LoadsAt
    <2>3. d[c].next # NoPage => d[c].next # p /\ d[c].next \in MdPages
      BY <2>1, <2>2
    <2>4. d[c].next # NoPage => d[d[c].next].kind = "chain" /\ d[d[c].next].id = c
      BY <2>2, <2>3
    <2> QED
      BY <2>1, <2>4 DEF LoadsAt
  <1> QED
    BY <1>2, <1>3, <1>5, <1>6

(* A page that blob c does not have is written, and not as a page of c: what  *)
(* c has on disk stays as it is.                                              *)
LEMMA ElsewhereClosed ==
  ASSUME NEW d \in [MdPages -> Page], NEW e \in [MdPages -> Page],
         NEW c \in MdPages, NEW p \in MdPages,
         \A q \in MdPages : q # p => e[q] = d[q],
         p \notin DiskPg(d, c),
         e[p].kind = "root" => p # c,
         e[p].kind = "chain" => e[p].id # c
  PROVE  /\ DiskPg(e, c) = DiskPg(d, c) /\ DiskCl(e, c) = DiskCl(d, c)
         /\ Closed(d, c) => Closed(e, c)
         /\ \A a : Ack(d, c, a) => Ack(e, c, a)
  <1>1. /\ RootAt(e, c) <=> RootAt(d, c)
        /\ LoadsAt(e, c) <=> LoadsAt(d, c)
        /\ RootAt(d, c) => e[c] = d[c]
        /\ LoadsAt(d, c) => /\ BodyAt(e, c) = BodyAt(d, c) /\ ChainAt(e, c) = ChainAt(d, c)
                            /\ \A q \in ToSet(BodyAt(d, c).ep) : q \in MdPages /\ e[q] = d[q]
    BY Elsewhere
  <1>2. DiskPg(e, c) = DiskPg(d, c)
    BY <1>1 DEF DiskPg, PagesAt
  <1>3. DiskCl(e, c) = DiskCl(d, c)
    <2>1. CASE ~LoadsAt(d, c)
      BY <1>1, <2>1 DEF DiskCl
    <2>2. CASE LoadsAt(d, c)
      <3>1. {q \in ToSet(BodyAt(d, c).ep) : e[q].kind = "extent"} =
            {q \in ToSet(BodyAt(d, c).ep) : d[q].kind = "extent"}
        BY <1>1, <2>2
      <3>2. PICK Q : Q = {q \in ToSet(BodyAt(d, c).ep) : d[q].kind = "extent"}
        OBVIOUS
      <3>3. \A q \in Q : e[q] = d[q]
        BY <1>1, <2>2, <3>2
      <3>4. {ToSet(e[q].cl) : q \in Q} = {ToSet(d[q].cl) : q \in Q}
        BY <3>3
      <3>5. ClustersAt(e, c) = ToSet(BodyAt(d, c).cl) \cup UNION {ToSet(e[q].cl) : q \in Q}
        BY <1>1, <2>2, <3>1, <3>2 DEF ClustersAt
      <3>6. ClustersAt(d, c) = ToSet(BodyAt(d, c).cl) \cup UNION {ToSet(d[q].cl) : q \in Q}
        BY <3>2 DEF ClustersAt
      <3> QED
        BY <1>1, <2>2, <3>4, <3>5, <3>6 DEF DiskCl
    <2> QED
      BY <2>1, <2>2
  <1>4. ASSUME Closed(d, c) PROVE Closed(e, c)
    <2> SUFFICES ASSUME LoadsAt(d, c) PROVE Sound(e, c, BodyAt(e, c))
      BY <1>1 DEF Closed
    <2>1. PICK body : body = BodyAt(d, c)
      OBVIOUS
    <2>2. Sound(d, c, body)
      BY <1>4, <2>1 DEF Closed
    <2>3. BodyAt(e, c) = body /\ e[c] = d[c]
      BY <1>1, <2>1 DEF LoadsAt
    <2>4. \A i \in DOMAIN body.ep : e[body.ep[i]] = d[body.ep[i]]
      BY <1>1, <2>1 DEF ToSet
    <2>5. Sound(e, c, body)
      BY <2>2, <2>3, <2>4 DEF Sound
    <2> QED
      BY <2>3, <2>5
  <1>5. ASSUME NEW a, Ack(d, c, a) PROVE Ack(e, c, a)
    BY <1>1, <1>5 DEF Ack, LoadsAt
  <1> QED
    BY <1>2, <1>3, <1>4, <1>5

(* The fields of a blob in memory. *)
LEMMA BaseTypes ==
  ASSUME NEW b \in MdPages, NEW r, Base(b, r)
  PROVE  /\ r.cl \in Seq(Clusters) /\ r.ep \in Seq(MdPages) /\ r.et \in BOOLEAN
         /\ r.num \in Nat /\ r.nep \in Nat /\ r.clean_num \in Nat /\ r.clean_nep \in Nat
         /\ Len(r.cl) \in Nat /\ Len(r.ep) \in Nat /\ r.ver \in Nat
         /\ r.pages \subseteq MdPages /\ r.clean_pages \subseteq MdPages
         /\ IsInjective(r.cl) /\ IsInjective(r.ep)
         /\ DOMAIN r.ep = 1 .. Len(r.ep) /\ DOMAIN r.cl = 1 .. Len(r.cl)
         /\ ToSet(r.ep) \subseteq MdPages /\ b \notin ToSet(r.ep)
         /\ ToSet(r.cl) \subseteq Clusters
         /\ \A i \in 1 .. Len(r.ep) : r.ep[i] \in ToSet(r.ep)
  <1>1. r \in BlobRec
    BY DEF Base
  <1>2. /\ r.cl \in Seq(Clusters) /\ r.ep \in Seq(MdPages) /\ r.et \in BOOLEAN
        /\ r.num \in Nat /\ r.nep \in Nat /\ r.clean_num \in Nat /\ r.clean_nep \in Nat
        /\ r.ver \in Nat /\ r.pages \subseteq MdPages /\ r.clean_pages \subseteq MdPages
    BY <1>1 DEF BlobRec
  <1> QED
    BY <1>2, ToSetFacts DEF Base

(* A blob whose chain lists what it has in memory is sound. *)
LEMMA Match ==
  ASSUME NEW d \in [MdPages -> Page], NEW b \in MdPages, NEW r, Base(b, r),
         NEW n \in Nat, NEW ne \in Nat, NEW pages, NEW bound \in Nat,
         OnDisk(d, b, r, n, ne, pages, bound), LoadsAt(d, b),
         n <= bound, bound <= Len(r.cl), pages \cap ToSet(r.ep) = {}
  PROVE  /\ Sound(d, b, BodyAt(d, b))
         /\ PagesAt(d, b) \subseteq {b} \cup pages \cup ToSet(SubSeq(r.ep, 1, ne))
         /\ ClustersAt(d, b) \subseteq ToSet(SubSeq(r.cl, 1, bound))
  <1> DEFINE ep == SubSeq(r.ep, 1, ne)
             cl == IF r.et THEN <<>> ELSE SubSeq(r.cl, 1, n)
             body == BodyAt(d, b)
  <1>1. /\ r.cl \in Seq(Clusters) /\ r.ep \in Seq(MdPages)
        /\ Len(r.cl) \in Nat /\ Len(r.ep) \in Nat
        /\ IsInjective(r.cl) /\ IsInjective(r.ep) /\ b \notin ToSet(r.ep)
        /\ DOMAIN r.ep = 1 .. Len(r.ep) /\ DOMAIN r.cl = 1 .. Len(r.cl)
    BY BaseTypes
  <1>2. ne <= Len(r.ep) /\ n <= Len(r.cl) /\ ChainAt(d, b) \subseteq pages
        /\ body = Serial(r, n, ne) /\ \A j \in 1 .. ne : Fit(d, b, r, j, bound)
    BY DEF OnDisk
  <1>3. body.et = r.et /\ body.cl = cl /\ body.ep = ep
    BY <1>2 DEF Serial
  <1> HIDE DEF body
  <1>4. /\ ep \in Seq(MdPages) /\ Len(ep) = ne /\ \A i \in 1 .. ne : ep[i] = r.ep[i]
        /\ ToSet(ep) \subseteq ToSet(r.ep) /\ IsInjective(ep) /\ DOMAIN ep = 1 .. ne
    BY <1>1, <1>2, PrefixFacts, ToSetFacts
  <1>5. r.et \/ ep = <<>>
    <2> SUFFICES ASSUME ~r.et PROVE ep = <<>>
      OBVIOUS
    <2>1. Len(r.ep) = 0
      BY EmptyFacts DEF Base
    <2> HIDE DEF ep
    <2> QED
      BY <1>2, <1>4, <2>1
  <1>6. IsInjective(cl) /\ ToSet(cl) \subseteq ToSet(SubSeq(r.cl, 1, bound))
    <2>1. CASE r.et
      BY <2>1, EmptyFacts
    <2>2. CASE ~r.et
      <3>1. IsInjective(SubSeq(r.cl, 1, n))
        BY <1>1, <1>2, PrefixFacts
      <3>2. SubSeq(r.cl, 1, n) = SubSeq(SubSeq(r.cl, 1, bound), 1, n)
        BY <1>1, PrefixOfPrefix
      <3>3. SubSeq(r.cl, 1, bound) \in Seq(Clusters) /\ Len(SubSeq(r.cl, 1, bound)) = bound
        BY <1>1, PrefixFacts
      <3>4. ToSet(SubSeq(SubSeq(r.cl, 1, bound), 1, n)) \subseteq ToSet(SubSeq(r.cl, 1, bound))
        <4>1. PICK s : s = SubSeq(r.cl, 1, bound)
          OBVIOUS
        <4>2. s \in Seq(Clusters) /\ n <= Len(s)
          BY <3>3, <4>1
        <4>3. ToSet(SubSeq(s, 1, n)) \subseteq ToSet(s)
          BY <4>2, PrefixFacts
        <4> QED
          BY <4>1, <4>3
      <3> QED
        BY <2>2, <3>1, <3>2, <3>4
    <2> QED
      BY <2>1, <2>2
  <1>7. ASSUME NEW i \in 1 .. ne
        PROVE  /\ d[ep[i]].kind = "extent" /\ d[ep[i]].cl \in Seq(Clusters)
               /\ DOMAIN d[ep[i]].cl = 1 .. Len(d[ep[i]].cl)
               /\ ExtentOf(d[ep[i]], b, i)
               /\ \A k \in DOMAIN d[ep[i]].cl :
                    /\ (i - 1) * ExtentsPerEp + k \in 1 .. bound
                    /\ k \in Nat \ {0} /\ k <= ExtentsPerEp
                    /\ d[ep[i]].cl[k] = r.cl[(i - 1) * ExtentsPerEp + k]
    <2>0. PICK q : q = d[ep[i]]
      OBVIOUS
    <2>1. ep[i] = r.ep[i] /\ ep[i] \in MdPages
      <3> HIDE DEF ep
      <3> QED
        BY <1>4, ToSetFacts
    <2> HIDE DEF ep
    <2>2. /\ q.kind = "extent" /\ q.id = b /\ q.start = (i - 1) * ExtentsPerEp
          /\ Len(q.cl) <= ExtentsPerEp
          /\ \A k \in 1 .. Len(q.cl) :
               (i - 1) * ExtentsPerEp + k <= bound /\ q.cl[k] = r.cl[(i - 1) * ExtentsPerEp + k]
      BY <1>2, <2>0, <2>1 DEF Fit
    <2>3. q.cl \in Seq(Clusters)
      BY <2>0, <2>1, <2>2, PageTypes
    <2>4. DOMAIN q.cl = 1 .. Len(q.cl) /\ Len(q.cl) \in Nat
      BY <2>3
    <2>5. ExtentsPerEp \in Nat /\ (i - 1) * ExtentsPerEp \in Nat
      BY SizesAssumption
    <2>6. \A k \in DOMAIN q.cl :
            /\ (i - 1) * ExtentsPerEp + k \in 1 .. bound
            /\ k \in Nat \ {0} /\ k <= ExtentsPerEp
            /\ q.cl[k] = r.cl[(i - 1) * ExtentsPerEp + k]
      BY <2>2, <2>4, <2>5, SMTT(30)
    <2>7. IsInjective(q.cl)
      <3> SUFFICES ASSUME NEW k \in DOMAIN q.cl, NEW l \in DOMAIN q.cl, q.cl[k] = q.cl[l]
                   PROVE  k = l
        BY DEF IsInjective
      <3>1. PICK x \in 1 .. bound, y \in 1 .. bound :
              /\ x = (i - 1) * ExtentsPerEp + k /\ y = (i - 1) * ExtentsPerEp + l
              /\ r.cl[x] = r.cl[y]
        BY <2>6
      <3>2. x \in DOMAIN r.cl /\ y \in DOMAIN r.cl
        BY <1>1
      <3>3. x = y
        BY <1>1, <3>1, <3>2 DEF IsInjective
      <3>4. k \in Nat /\ l \in Nat
        BY <2>6
      <3> QED
        BY <2>5, <3>1, <3>3, <3>4
    <2>8. ExtentOf(q, b, i)
      BY <2>2, <2>7 DEF ExtentOf
    <2> QED
      BY <2>0, <2>2, <2>3, <2>4, <2>6, <2>8
  <1> HIDE DEF ep, cl
  <1>8. ASSUME NEW i \in 1 .. ne, NEW j \in 1 .. ne, i # j
        PROVE  ToSet(d[ep[i]].cl) \cap ToSet(d[ep[j]].cl) = {}
    <2> SUFFICES ASSUME NEW k \in DOMAIN d[ep[i]].cl, NEW l \in DOMAIN d[ep[j]].cl,
                        d[ep[i]].cl[k] = d[ep[j]].cl[l]
                 PROVE  FALSE
      BY DEF ToSet
    <2>1. /\ k \in Nat \ {0} /\ k <= ExtentsPerEp /\ l \in Nat \ {0} /\ l <= ExtentsPerEp
      BY <1>7
    <2>7. /\ (i - 1) * ExtentsPerEp + k \in 1 .. bound
          /\ d[ep[i]].cl[k] = r.cl[(i - 1) * ExtentsPerEp + k]
      BY <1>7
    <2>8. /\ (j - 1) * ExtentsPerEp + l \in 1 .. bound
          /\ d[ep[j]].cl[l] = r.cl[(j - 1) * ExtentsPerEp + l]
      BY <1>7
    <2>2. PICK x \in 1 .. bound, y \in 1 .. bound :
            /\ x = (i - 1) * ExtentsPerEp + k /\ y = (j - 1) * ExtentsPerEp + l
            /\ r.cl[x] = r.cl[y]
      BY <2>7, <2>8
    <2>3. x \in DOMAIN r.cl /\ y \in DOMAIN r.cl
      BY <1>1
    <2>4. x = y
      BY <1>1, <2>2, <2>3 DEF IsInjective
    <2>5. i \in Nat \ {0} /\ j \in Nat \ {0}
      OBVIOUS
    <2>6. (i - 1) * ExtentsPerEp + k = (j - 1) * ExtentsPerEp + l
      BY <2>2, <2>4
    <2> QED
      BY <1>8, <2>1, <2>5, <2>6, SliceUnique
  <1>9. \A i \in 1 .. ne : ToSet(d[ep[i]].cl) \subseteq ToSet(SubSeq(r.cl, 1, bound))
    <2>1. /\ SubSeq(r.cl, 1, bound) \in Seq(Clusters) /\ Len(SubSeq(r.cl, 1, bound)) = bound
          /\ \A x \in 1 .. bound : SubSeq(r.cl, 1, bound)[x] = r.cl[x]
      BY <1>1, PrefixFacts
    <2>2. PICK s : s = SubSeq(r.cl, 1, bound)
      OBVIOUS
    <2>6. s \in Seq(Clusters) /\ Len(s) = bound /\ \A x \in 1 .. bound : s[x] = r.cl[x]
      BY <2>1, <2>2
    <2>3. \A x \in 1 .. bound : s[x] = r.cl[x] /\ s[x] \in ToSet(s)
      BY <2>6, ToSetFacts
    <2>4. ASSUME NEW i \in 1 .. ne, NEW k \in DOMAIN d[ep[i]].cl
          PROVE  d[ep[i]].cl[k] \in ToSet(s)
      <3>1. PICK x \in 1 .. bound : d[ep[i]].cl[k] = r.cl[x]
        BY <1>7
      <3> QED
        BY <2>3, <3>1
    <2>5. ASSUME NEW i \in 1 .. ne, NEW y \in ToSet(d[ep[i]].cl)
          PROVE  y \in ToSet(s)
      <3>1. PICK k \in DOMAIN d[ep[i]].cl : y = d[ep[i]].cl[k]
        BY DEF ToSet
      <3> QED
        BY <2>4, <3>1
    <2> QED
      BY <2>2, <2>5
  <1>10. b \notin ToSet(ep) /\ d[b].next \notin ToSet(ep)
    <2>1. ToSet(ep) \subseteq MdPages
      BY <1>4, ToSetFacts
    <2>2. d[b].next # NoPage => d[b].next \in pages
      BY <1>2 DEF ChainAt
    <2> QED
      BY <1>1, <1>4, <2>1, <2>2, SizesAssumption
  <1>11. Sound(d, b, body)
    <2>1. \A i \in DOMAIN body.ep : ExtentOf(d[body.ep[i]], b, i)
      BY <1>3, <1>4, <1>7
    <2>2. \A i, j \in DOMAIN body.ep :
            i # j => ToSet(d[body.ep[i]].cl) \cap ToSet(d[body.ep[j]].cl) = {}
      BY <1>3, <1>4, <1>8
    <2>3. IF body.et THEN body.cl = <<>> ELSE body.ep = <<>>
      BY <1>3, <1>5 DEF cl
    <2> QED
      BY <1>3, <1>4, <1>6, <1>10, <2>1, <2>2, <2>3 DEF Sound
  <1>12. PagesAt(d, b) \subseteq {b} \cup pages \cup ToSet(ep)
    BY <1>2, <1>3 DEF PagesAt, body
  <1>13. ClustersAt(d, b) \subseteq ToSet(SubSeq(r.cl, 1, bound))
    <2>0. \A p \in ToSet(body.ep) : \E i \in 1 .. ne : p = ep[i]
      BY <1>3, <1>4, ToSetFacts
    <2>1. \A p \in ToSet(body.ep) : ToSet(d[p].cl) \subseteq ToSet(SubSeq(r.cl, 1, bound))
      BY <1>9, <2>0
    <2>2. ToSet(body.cl) \subseteq ToSet(SubSeq(r.cl, 1, bound))
      BY <1>3, <1>6
    <2> QED
      BY <2>1, <2>2 DEF ClustersAt, body
  <1> QED
    BY <1>11, <1>12, <1>13 DEF body, ep

(* In every phase of a persist the chain on disk is one of what the blob   *)
(* has in memory.                                                          *)
LEMMA MemShape ==
  ASSUME NEW d, NEW b \in MdPages, NEW r, Mem(d, b, r)
  PROVE  /\ Base(b, r)
         /\ \E n \in Nat, ne \in Nat, bound \in Nat, pages \in SUBSET MdPages :
              /\ OnDisk(d, b, r, n, ne, pages, bound)
              /\ n <= bound /\ bound <= Len(r.cl)
              /\ pages \subseteq MP(r) /\ pages \subseteq r.pages \cup r.clean_pages
              /\ pages \cap ToSet(r.ep) = {}
  <1>1. \/ Unwritten(d, b, r) /\ r.io \notin {"clusters", "extents"}
        \/ Written(d, b, r)
    BY DEF Mem, Idle, MemExtent, MemStaged, MemZero, MemDying
  <1>2. Base(b, r)
    BY <1>1 DEF Unwritten, Written
  <1>3. /\ r.num \in Nat /\ r.nep \in Nat /\ r.clean_num \in Nat /\ r.clean_nep \in Nat
        /\ Len(r.cl) \in Nat
        /\ r.pages \subseteq MdPages /\ r.clean_pages \subseteq MdPages
    BY <1>2, BaseTypes
  <1>4. CASE Unwritten(d, b, r) /\ r.io \notin {"clusters", "extents"}
    <2>1. OnDisk(d, b, r, r.clean_num, r.clean_nep, r.clean_pages, Len(r.cl))
      BY <1>4 DEF Unwritten
    <2>2. r.clean_num <= Len(r.cl)
      BY <2>1 DEF OnDisk
    <2>3. r.clean_pages \subseteq MP(r)
      BY <1>4 DEF MP
    <2>4. r.clean_pages \cap ToSet(r.ep) = {}
      BY <1>2 DEF Base
    <2> QED
      BY <1>2, <1>3, <2>1, <2>2, <2>3, <2>4
  <1>5. CASE Written(d, b, r)
    <2>1. OnDisk(d, b, r, r.num, r.nep, r.pages, r.num)
      BY <1>5 DEF Written
    <2>2. r.num <= Len(r.cl)
      BY <1>2 DEF Base
    <2>3. r.pages \subseteq MP(r)
      BY DEF MP
    <2>4. r.pages \cap ToSet(r.ep) = {}
      BY <1>2 DEF Base
    <2> QED
      BY <1>2, <1>3, <2>1, <2>2, <2>3, <2>4
  <1> QED
    BY <1>1, <1>4, <1>5

(* What a blob in memory has on disk is among what it has in memory,          *)
(* whichever write of its persist is under way.                               *)
LEMMA MemDisk ==
  ASSUME NEW d \in [MdPages -> Page], NEW b \in MdPages, NEW r, Mem(d, b, r)
  PROVE  /\ Closed(d, b)
         /\ DiskPg(d, b) \subseteq MP(r) /\ DiskCl(d, b) \subseteq ToSet(r.cl)
         /\ b \in MP(r)
  <1>1. Base(b, r)
    BY MemShape
  <1>2. PICK n \in Nat, ne \in Nat, bound \in Nat, pages \in SUBSET MdPages :
              /\ OnDisk(d, b, r, n, ne, pages, bound)
              /\ n <= bound /\ bound <= Len(r.cl)
              /\ pages \subseteq MP(r) /\ pages \subseteq r.pages \cup r.clean_pages
              /\ pages \cap ToSet(r.ep) = {}
    BY MemShape
  <1>3. r.ep \in Seq(MdPages) /\ r.cl \in Seq(Clusters) /\ Len(r.ep) \in Nat
    BY <1>1, BaseTypes
  <1>4. ne <= Len(r.ep)
    BY <1>2 DEF OnDisk
  <1>5. ToSet(SubSeq(r.ep, 1, ne)) \subseteq ToSet(r.ep)
    BY <1>3, <1>4, PrefixFacts
  <1>6. ToSet(SubSeq(r.cl, 1, bound)) \subseteq ToSet(r.cl)
    BY <1>2, <1>3, PrefixFacts
  <1>7. b \in MP(r) /\ ToSet(r.ep) \subseteq MP(r)
    BY <1>1 DEF Base, MP
  <1>8. LoadsAt(d, b) =>
          /\ Sound(d, b, BodyAt(d, b))
          /\ PagesAt(d, b) \subseteq {b} \cup pages \cup ToSet(SubSeq(r.ep, 1, ne))
          /\ ClustersAt(d, b) \subseteq ToSet(SubSeq(r.cl, 1, bound))
    BY <1>1, <1>2, Match
  <1> QED
    BY <1>2, <1>5, <1>6, <1>7, <1>8 DEF Closed, DiskPg, DiskCl

(* The same as ElsewhereClosed for what a blob in memory knows of the disk. *)
LEMMA OnDiskElsewhere ==
  ASSUME NEW d \in [MdPages -> Page], NEW e \in [MdPages -> Page], NEW c \in MdPages, NEW r,
         NEW p \in MdPages, \A q \in MdPages : q # p => e[q] = d[q],
         p \notin DiskPg(d, c), e[p].kind = "root" => p # c, e[p].kind = "chain" => e[p].id # c,
         Base(c, r), p \notin ToSet(r.ep)
  PROVE  /\ \A n, ne, pages, bound :
              ne \in Nat /\ OnDisk(d, c, r, n, ne, pages, bound) => OnDisk(e, c, r, n, ne, pages, bound)
         /\ \A n : \A j \in 1 .. Len(r.ep) : Fit(d, c, r, j, n) => Fit(e, c, r, j, n)
         /\ \A i : Ready(d, c, r, i) => Ready(e, c, r, i)
  <1>1. /\ LoadsAt(e, c) <=> LoadsAt(d, c)
        /\ LoadsAt(d, c) => BodyAt(e, c) = BodyAt(d, c) /\ ChainAt(e, c) = ChainAt(d, c)
    BY Elsewhere
  <1>2. ASSUME NEW j \in 1 .. Len(r.ep), NEW n, Fit(d, c, r, j, n) PROVE Fit(e, c, r, j, n)
    <2>1. r.ep[j] # p /\ r.ep[j] \in MdPages
      BY BaseTypes
    <2> QED
      BY <1>2, <2>1 DEF Fit
  <1>3. Len(r.ep) \in Nat /\ r.nep \in Nat /\ r.nep <= Len(r.ep)
    BY BaseTypes DEF Base
  <1>4. ASSUME NEW n, NEW ne \in Nat, NEW pages, NEW bound, OnDisk(d, c, r, n, ne, pages, bound)
        PROVE  OnDisk(e, c, r, n, ne, pages, bound)
    <2>1. \A j \in 1 .. ne : j \in 1 .. Len(r.ep)
      BY <1>3, <1>4 DEF OnDisk
    <2> QED
      BY <1>1, <1>2, <1>4, <2>1 DEF OnDisk
  <1>5. ASSUME NEW i, Ready(d, c, r, i) PROVE Ready(e, c, r, i)
    <2>1. \A j \in 1 .. r.nep : j \in 1 .. Len(r.ep)
      BY <1>3
    <2> QED
      BY <1>2, <1>5, <2>1 DEF Ready
  <1> QED
    BY <1>2, <1>4, <1>5

(* A write to a page that a blob in memory does not have leaves its invariant alone. *)
LEMMA MemElsewhere ==
  ASSUME NEW d \in [MdPages -> Page], NEW e \in [MdPages -> Page], NEW c \in MdPages, NEW r,
         NEW p \in MdPages, \A q \in MdPages : q # p => e[q] = d[q],
         e[p].kind = "root" => p # c, e[p].kind = "chain" => e[p].id # c,
         Mem(d, c, r), p \notin MP(r)
  PROVE  Mem(e, c, r)
  <1>1. Base(c, r) /\ p \notin DiskPg(d, c) /\ p \notin ToSet(r.ep) /\ p \notin r.pages
    BY MemShape, MemDisk DEF MP
  <1>2. /\ RootAt(e, c) <=> RootAt(d, c)
        /\ LoadsAt(e, c) <=> LoadsAt(d, c)
        /\ RootAt(d, c) => e[c] = d[c]
    BY <1>1, Elsewhere
  <1>3. /\ \A n, ne, pages, bound :
             ne \in Nat /\ OnDisk(d, c, r, n, ne, pages, bound) => OnDisk(e, c, r, n, ne, pages, bound)
        /\ \A i : Ready(d, c, r, i) => Ready(e, c, r, i)
    BY <1>1, OnDiskElsewhere
  <1>4. r.nep \in Nat /\ r.clean_nep \in Nat
    BY <1>1, BaseTypes
  <1>5. Unwritten(d, c, r) => Unwritten(e, c, r)
    BY <1>2, <1>3, <1>4 DEF Unwritten
  <1>6. Written(d, c, r) => Written(e, c, r)
    BY <1>2, <1>3, <1>4 DEF Written, LoadsAt
  <1>7. Staged(d, c, r) => Staged(e, c, r)
    BY <1>1, <1>2 DEF Staged
  <1>8. Idle(d, c, r) => Idle(e, c, r)
    BY <1>5 DEF Idle
  <1>9. MemExtent(d, c, r) => MemExtent(e, c, r)
    BY <1>3, <1>8 DEF MemExtent
  <1>10. MemStaged(d, c, r) => MemStaged(e, c, r)
    BY <1>3, <1>5, <1>7 DEF MemStaged
  <1>11. MemZero(d, c, r) => MemZero(e, c, r)
    BY <1>6 DEF MemZero
  <1>12. MemDying(d, c, r) => MemDying(e, c, r)
    BY <1>2, <1>5 DEF MemDying
  <1> QED
    BY <1>6, <1>8, <1>9, <1>10, <1>11, <1>12 DEF Mem

-----------------------------------------------------------------------------
(* Persisting. *)

(* s has the lists and the clean state of r. *)
Alike(r, s) ==
  /\ s \in BlobRec
  /\ s.id = r.id /\ s.et = r.et /\ s.ver = r.ver
  /\ s.num = r.num /\ s.cl = r.cl /\ s.nep = r.nep /\ s.ep = r.ep
  /\ s.clean_num = r.clean_num /\ s.clean_nep = r.clean_nep /\ s.clean_pages = r.clean_pages

(* Fit, Ready and the serialized body depend on the lists and the size only. *)
LEMMA FitAlike ==
  ASSUME NEW d, NEW b, NEW r, NEW s, s.ep = r.ep, s.cl = r.cl, s.nep = r.nep, s.num = r.num
  PROVE  /\ \A j, n : Fit(d, b, s, j, n) <=> Fit(d, b, r, j, n)
         /\ \A i : Ready(d, b, s, i) <=> Ready(d, b, r, i)
         /\ s.et = r.et => \A n, ne : Serial(s, n, ne) = Serial(r, n, ne)
         /\ s.et = r.et => blob_serialize(s) = blob_serialize(r)
  <1>1. ASSUME NEW j, NEW n PROVE Fit(d, b, s, j, n) <=> Fit(d, b, r, j, n)
    BY DEF Fit
  <1>2. ASSUME NEW i PROVE Ready(d, b, s, i) <=> Ready(d, b, r, i)
    BY <1>1 DEF Ready
  <1> QED
    BY <1>1, <1>2 DEF Serial, blob_serialize

(* OnDisk depends on the lists and the size only. *)
LEMMA OnDiskAlike ==
  ASSUME NEW d, NEW b, NEW r, NEW s, s.ep = r.ep, s.cl = r.cl, s.nep = r.nep, s.num = r.num,
         s.et = r.et, NEW n, NEW ne, NEW pages, NEW bound, OnDisk(d, b, r, n, ne, pages, bound)
  PROVE  OnDisk(d, b, s, n, ne, pages, bound)
  BY FitAlike DEF OnDisk

(* Unwritten is kept by a change of other fields. *)
LEMMA UnwrittenAlike ==
  ASSUME NEW d, NEW b \in MdPages, NEW r, NEW s, Unwritten(d, b, r), Alike(r, s),
         r.st = "deleting" => s.st = "deleting",
         s.pages \cap ({b} \cup ToSet(r.ep)) = {}
  PROVE  Unwritten(d, b, s)
  <1>1. Base(b, s)
    BY DEF Unwritten, Base, Alike
  <1>2. OnDisk(d, b, r, s.clean_num, s.clean_nep, s.clean_pages, Len(s.cl))
    BY DEF Unwritten, Alike
  <1>3. OnDisk(d, b, s, s.clean_num, s.clean_nep, s.clean_pages, Len(s.cl))
    BY <1>2, OnDiskAlike DEF Alike
  <1> QED
    BY <1>1, <1>3 DEF Unwritten, Alike

(* Written is kept by a change of other fields. *)
LEMMA WrittenAlike ==
  ASSUME NEW d, NEW b \in MdPages, NEW r, NEW s, Written(d, b, r), Alike(r, s),
         s.st \in Alive, s.pages = r.pages, s.root = r.root
  PROVE  Written(d, b, s)
  <1>1. Base(b, s)
    BY DEF Written, Base, Alike
  <1>2. OnDisk(d, b, r, s.num, s.nep, s.pages, s.num)
    BY DEF Written, Alike
  <1>3. OnDisk(d, b, s, s.num, s.nep, s.pages, s.num)
    BY <1>2, OnDiskAlike DEF Alike
  <1> QED
    BY <1>1, <1>3 DEF Written, Alike

(* What a blob has on disk is part of what it has in memory. *)
LEMMA UnwrittenDisk ==
  ASSUME NEW d \in [MdPages -> Page], NEW b \in MdPages, NEW r, Unwritten(d, b, r)
  PROVE  /\ Closed(d, b)
         /\ DiskPg(d, b) \subseteq {b} \cup ToSet(r.ep) \cup r.clean_pages
         /\ DiskCl(d, b) \subseteq ToSet(r.cl)
  <1>1. Base(b, r) /\ OnDisk(d, b, r, r.clean_num, r.clean_nep, r.clean_pages, Len(r.cl))
    BY DEF Unwritten
  <1>2. /\ r.ep \in Seq(MdPages) /\ r.cl \in Seq(Clusters) /\ Len(r.ep) \in Nat
        /\ r.clean_num \in Nat /\ r.clean_nep \in Nat /\ Len(r.cl) \in Nat
    BY <1>1, BaseTypes
  <1>3. r.clean_nep <= Len(r.ep) /\ r.clean_num <= Len(r.cl) /\ r.clean_pages \cap ToSet(r.ep) = {}
    BY <1>1 DEF OnDisk, Base
  <1>4. ToSet(SubSeq(r.ep, 1, r.clean_nep)) \subseteq ToSet(r.ep)
    BY <1>2, <1>3, PrefixFacts
  <1>5. SubSeq(r.cl, 1, Len(r.cl)) = r.cl
    BY <1>2, SubSeqFull
  <1>6. LoadsAt(d, b) =>
          /\ Sound(d, b, BodyAt(d, b))
          /\ PagesAt(d, b) \subseteq {b} \cup r.clean_pages \cup ToSet(SubSeq(r.ep, 1, r.clean_nep))
          /\ ClustersAt(d, b) \subseteq ToSet(SubSeq(r.cl, 1, Len(r.cl)))
    BY <1>1, <1>2, <1>3, Match
  <1> QED
    BY <1>4, <1>5, <1>6 DEF Closed, DiskPg, DiskCl

(* What a blob has on disk once its root is written: its first num clusters   *)
(* and nep extent pages.                                                      *)
LEMMA WrittenDisk ==
  ASSUME NEW d \in [MdPages -> Page], NEW b \in MdPages, NEW r, Written(d, b, r)
  PROVE  /\ Closed(d, b)
         /\ DiskPg(d, b) \subseteq {b} \cup r.pages \cup ToSet(SubSeq(r.ep, 1, r.nep))
         /\ DiskCl(d, b) \subseteq ToSet(SubSeq(r.cl, 1, r.num))
  <1>1. Base(b, r) /\ OnDisk(d, b, r, r.num, r.nep, r.pages, r.num) /\ LoadsAt(d, b)
    BY DEF Written
  <1>2. r.num \in Nat /\ r.nep \in Nat /\ r.num <= Len(r.cl) /\ r.pages \cap ToSet(r.ep) = {}
    BY <1>1, BaseTypes DEF Base
  <1>3. /\ Sound(d, b, BodyAt(d, b))
        /\ PagesAt(d, b) \subseteq {b} \cup r.pages \cup ToSet(SubSeq(r.ep, 1, r.nep))
        /\ ClustersAt(d, b) \subseteq ToSet(SubSeq(r.cl, 1, r.num))
    BY <1>1, <1>2, Match
  <1> QED
    BY <1>1, <1>3 DEF Closed, DiskPg, DiskCl

(* The masks have what a blob has and what others have, and they differ.   *)
Own(u, O, OC, P, C) ==
  /\ u \in Masks
  /\ O \subseteq u.md /\ P \subseteq u.md /\ P \cap O = {}
  /\ OC \subseteq u.clusters /\ C \subseteq u.clusters /\ C \cap OC = {}

(* What the application knows of a blob, and that it is listed. *)
Known(d, b, m, n) ==
  /\ m.a \in Doomed .. n /\ Ack(d, b, m.a)
  /\ LoadsAt(d, b) \/ m.r.st \in Alive => b \in m.u.ids \/ m.r.st = "deleting"
  /\ RootAt(d, b) /\ m.r.st = "deleting" => m.a = Doomed
  /\ used.ids \ {b} \subseteq m.u.ids
(* The pages that remain after the old chain is released. *)
Kept(r) == {r.id} \cup ToSet(r.ep) \cup r.pages

(* The outcome of an operation on b, where others have the pages O and the *)
(* clusters OC, and there have been n changes.                             *)
GoodNone(d, b, m, O, OC) ==
  m.r = NoBlob /\ Closed(d, b) /\ Own(m.u, O, OC, DiskPg(d, b), DiskCl(d, b))
GoodMem(d, b, m, O, OC, n) ==
  /\ Mem(d, b, m.r) /\ m.r.ver <= n
  /\ Own(m.u, O, OC, MP(m.r), ToSet(m.r.cl))
GoodGone(d, b, m, O, OC) ==
  /\ DelOK(m.r) /\ ~RootAt(d, b)
  /\ Own(m.u, O, OC, ToSet(m.r.ep), ToSet(m.r.cl))
Good(d, b, m, O, OC, n) ==
  /\ Known(d, b, m, n)
  /\ \/ GoodNone(d, b, m, O, OC)
     \/ GoodMem(d, b, m, O, OC, n)
     \/ GoodGone(d, b, m, O, OC)

(* A blob that can be persisted. *)
ToPersist(d, b, m, O, OC, n) ==
  /\ Known(d, b, m, n) /\ Idle(d, b, m.r) /\ m.r.ver <= n
  /\ Own(m.u, O, OC, Kept(m.r), ToSet(m.r.cl))

(* With replaces the record only. *)
LEMMA WithFacts ==
  ASSUME NEW m, NEW r
  PROVE  With(m, r).r = r /\ With(m, r).u = m.u /\ With(m, r).a = m.a
  BY DEF With

(* blob_persist_complete_cb leaves a blob that is idle, or closes it. *)
LEMMA EndedGood ==
  ASSUME NEW d \in [MdPages -> Page], NEW b \in MdPages, NEW m, NEW O, NEW OC, NEW n \in Nat,
         ToPersist(d, b, m, O, OC, n)
  PROVE  Good(d, b, Ended(m), O, OC, n)
  <1> DEFINE s == [m.r EXCEPT !.io = "idle", !.left = {}, !.root = ZeroPage,
                              !.chain = ZeroPage, !.extent = ZeroPage]
  <1>1. /\ Known(d, b, m, n) /\ Idle(d, b, m.r) /\ Unwritten(d, b, m.r) /\ m.r.ver <= n
        /\ Own(m.u, O, OC, Kept(m.r), ToSet(m.r.cl))
        /\ m.r \in BlobRec /\ m.r.st \in Alive /\ m.r.pages = m.r.clean_pages
    BY DEF ToPersist, Idle, Unwritten, Base
  <1>2. CASE m.r.st = "open"
    <2>1. /\ Alike(m.r, s) /\ s.st = m.r.st /\ s.pages = m.r.pages /\ s.io = "idle"
      BY <1>1 DEF Alike, BlobRec, Page
    <2>2. Ended(m).r = s /\ Ended(m).u = m.u /\ Ended(m).a = m.a
      BY <1>2 DEF Ended, With
    <2> HIDE DEF s
    <2>3. s.pages \cap ({b} \cup ToSet(m.r.ep)) = {}
      BY <1>1, <2>1 DEF Unwritten, Base
    <2>4. Unwritten(d, b, s)
      BY <1>1, <1>2, <2>1, <2>3, UnwrittenAlike
    <2>5. Idle(d, b, s) /\ Mem(d, b, s)
      BY <1>1, <2>1, <2>4 DEF Idle, Mem, Alike
    <2>6. MP(s) = Kept(m.r) /\ s.cl = m.r.cl /\ s.ver = m.r.ver
      BY <1>1, <2>1 DEF MP, Kept, Alike
    <2>7. GoodMem(d, b, Ended(m), O, OC, n)
      BY <1>1, <2>2, <2>5, <2>6 DEF GoodMem
    <2>8. Known(d, b, Ended(m), n)
      BY <1>1, <2>1, <2>2 DEF Known
    <2> QED
      BY <2>7, <2>8 DEF Good
  <1>3. CASE m.r.st # "open"
    <2>1. Ended(m).r = NoBlob /\ Ended(m).u = m.u /\ Ended(m).a = m.a
      BY <1>3 DEF Ended, With
    <2>2. /\ Closed(d, b)
          /\ DiskPg(d, b) \subseteq {b} \cup ToSet(m.r.ep) \cup m.r.clean_pages
          /\ DiskCl(d, b) \subseteq ToSet(m.r.cl)
      BY <1>1, UnwrittenDisk
    <2>3. m.r.id = b
      BY <1>1 DEF Unwritten, Base
    <2>4. DiskPg(d, b) \subseteq Kept(m.r)
      BY <1>1, <2>2, <2>3 DEF Kept
    <2>5. Own(m.u, O, OC, DiskPg(d, b), DiskCl(d, b))
      BY <1>1, <2>2, <2>4 DEF Own
    <2>6. Known(d, b, Ended(m), n)
      BY <1>1, <2>1 DEF Known, Alive, NoBlob
    <2> QED
      BY <2>1, <2>2, <2>5, <2>6 DEF Good, GoodNone
  <1> QED
    BY <1>2, <1>3

(* blob_persist_generate_new_md stages a root and a chain on a free page, or  *)
(* fails and leaves the blob as it is.                                        *)
LEMMA GenerateGood ==
  ASSUME NEW d \in [MdPages -> Page], NEW b \in MdPages, NEW m, NEW O, NEW OC, NEW n \in Nat,
         ToPersist(d, b, m, O, OC, n), Ready(d, b, m.r, m.r.nep + 1)
  PROVE  Good(d, b, blob_persist_generate_new_md(m), O, OC, n)
  <1> DEFINE g == blob_persist_generate_new_md(m)
             free == MdPages \ m.u.md
             p == Min(free)
             body == blob_serialize(m.r)
  <1>1. /\ Known(d, b, m, n) /\ Unwritten(d, b, m.r) /\ m.r.ver <= n
        /\ Own(m.u, O, OC, Kept(m.r), ToSet(m.r.cl))
        /\ m.r \in BlobRec /\ m.r.st \in Alive /\ m.r.pages = m.r.clean_pages
        /\ m.r.id = b /\ Base(b, m.r) /\ m.u \in Masks /\ m.r.ver \in Nat
    BY BaseTypes DEF ToPersist, Idle, Unwritten, Base, Own
  <1>2. body \in Body /\ NoBody \in Body
    <2>1. /\ m.r.cl \in Seq(Clusters) /\ m.r.ep \in Seq(MdPages) /\ m.r.et \in BOOLEAN
          /\ m.r.num \in Nat /\ m.r.nep \in Nat /\ m.r.num <= Len(m.r.cl) /\ m.r.nep <= Len(m.r.ep)
      BY <1>1, BaseTypes DEF Base
    <2>2. SubSeq(m.r.cl, 1, m.r.num) \in Seq(Clusters) /\ SubSeq(m.r.ep, 1, m.r.nep) \in Seq(MdPages)
      BY <2>1, PrefixFacts
    <2> QED
      BY <2>1, <2>2 DEF blob_serialize, Body, NoBody
  <1> HIDE DEF body
  <1>3. RootAt(d, b) => d[b].ver <= m.r.ver
    BY <1>1 DEF Unwritten
  <1>4. CASE ~m.r.big
    <2> DEFINE root == RootPage(b, m.r.ver, NoPage, body)
               s == [m.r EXCEPT !.dirty = FALSE, !.pages = {}, !.io = "root", !.root = root]
    <2>1. g.r = s /\ g.u = m.u /\ g.a = m.a
      BY <1>1, <1>4 DEF blob_persist_generate_new_md, With, body
    <2>2. root \in Page /\ root.ver = m.r.ver
      BY <1>1, <1>2 DEF Page, RootPage
    <2> HIDE DEF root
    <2>3. /\ Alike(m.r, s) /\ s.st = m.r.st /\ s.pages = {} /\ s.io = "root" /\ s.root = root
      BY <1>1, <2>2 DEF Alike, BlobRec
    <2> HIDE DEF s, g
    <2>4. Unwritten(d, b, s)
      BY <1>1, <2>3, UnwrittenAlike
    <2>5. Ready(d, b, s, s.nep + 1) /\ blob_serialize(s) = body
      BY <2>3, FitAlike DEF Alike, body
    <2>6. Staged(d, b, s)
      BY <1>1, <1>3, <2>2, <2>3, <2>5 DEF Staged, root, Alike
    <2>7. Mem(d, b, s)
      BY <1>1, <2>3, <2>4, <2>5, <2>6 DEF Mem, MemStaged
    <2>8. MP(s) \subseteq Kept(m.r) /\ s.cl = m.r.cl /\ s.ver = m.r.ver
      BY <1>1, <2>3 DEF MP, Kept, Alike
    <2>9. GoodMem(d, b, g, O, OC, n)
      BY <1>1, <2>1, <2>7, <2>8 DEF GoodMem, Own
    <2>10. Known(d, b, g, n)
      BY <1>1, <2>1, <2>3 DEF Known
    <2> QED
      BY <2>9, <2>10 DEF Good, g
  <1>5. CASE m.r.big /\ free = {}
    <2> DEFINE s == [m.r EXCEPT !.pend = FALSE]
    <2>1. g = Ended(With(m, s))
      BY <1>5 DEF blob_persist_generate_new_md
    <2>2. Alike(m.r, s) /\ s.st = m.r.st /\ s.pages = m.r.pages
      BY <1>1 DEF Alike, BlobRec
    <2> HIDE DEF s
    <2>3. s.pages \cap ({b} \cup ToSet(m.r.ep)) = {}
      BY <1>1, <2>2 DEF Base
    <2>4. Unwritten(d, b, s)
      BY <1>1, <2>2, <2>3, UnwrittenAlike
    <2>5. Idle(d, b, s) /\ Kept(s) = Kept(m.r) /\ s.cl = m.r.cl /\ s.ver = m.r.ver
      BY <1>1, <2>2, <2>4 DEF Idle, Alike, Kept
    <2>6. ToPersist(d, b, With(m, s), O, OC, n)
      BY <1>1, <2>2, <2>5 DEF ToPersist, With, Known
    <2> QED
      BY <2>1, <2>6, EndedGood
  <1>6. CASE m.r.big /\ free # {}
    <2>0. p \in MdPages /\ p \notin m.u.md
      <3>1. free \in SUBSET Nat
        BY SizesAssumption DEF MdPages
      <3>2. p \in free
        BY <1>6, <3>1, MinIsIn
      <3> QED
        BY <3>2
    <2> DEFINE root == RootPage(b, m.r.ver, p, NoBody)
               chain == ChainPage(b, m.r.ver, body)
               s == [m.r EXCEPT !.dirty = FALSE, !.pages = {p}, !.io = "chain", !.root = root,
                                !.chain = chain]
               u == [m.u EXCEPT !.md = m.u.md \cup {p}]
    <2>1. g.r = s /\ g.u = u /\ g.a = m.a
      BY <1>1, <1>6 DEF blob_persist_generate_new_md, body
    <2> HIDE DEF p
    <2>2. root \in Page /\ root.ver = m.r.ver /\ chain \in Page
      BY <1>1, <1>2, <2>0 DEF Page, RootPage, ChainPage
    <2> HIDE DEF root, chain
    <2>3. /\ Alike(m.r, s) /\ s.st = m.r.st /\ s.pages = {p} /\ s.io = "chain" /\ s.root = root
          /\ s.chain = chain
      BY <1>1, <2>0, <2>2 DEF Alike, BlobRec
    <2>4. u \in Masks /\ u.md = m.u.md \cup {p} /\ u.clusters = m.u.clusters /\ u.ids = m.u.ids
      BY <1>1, <2>0 DEF Masks
    <2> HIDE DEF s, g, u
    <2>5. p \notin Kept(m.r) /\ p \notin O
      BY <1>1, <2>0 DEF Own
    <2>6. p # b /\ p \notin ToSet(m.r.ep) /\ p \notin m.r.clean_pages
      BY <1>1, <2>5 DEF Kept
    <2>7. Unwritten(d, b, s)
      BY <1>1, <2>3, <2>6, UnwrittenAlike
    <2>8. Ready(d, b, s, s.nep + 1) /\ blob_serialize(s) = body
      BY <2>3, FitAlike DEF Alike, body
    <2>9. Staged(d, b, s)
      BY <1>1, <1>3, <2>0, <2>2, <2>3, <2>8 DEF Staged, root, chain, Alike
    <2>10. s.pages \cap s.clean_pages = {}
      BY <2>3, <2>6 DEF Alike
    <2>11. Mem(d, b, s)
      BY <1>1, <2>3, <2>7, <2>8, <2>9, <2>10 DEF Mem, MemStaged
    <2>12. MP(s) \subseteq Kept(m.r) \cup {p} /\ s.cl = m.r.cl /\ s.ver = m.r.ver
      BY <1>1, <2>3 DEF MP, Kept, Alike
    <2>13. GoodMem(d, b, g, O, OC, n)
      BY <1>1, <2>1, <2>4, <2>5, <2>11, <2>12 DEF GoodMem, Own
    <2>14. Known(d, b, g, n)
      BY <1>1, <2>1, <2>3, <2>4 DEF Known
    <2> QED
      BY <2>13, <2>14 DEF Good, g
  <1> QED
    BY <1>4, <1>5, <1>6

(* The least of two numbers. *)
LEMMA LeastOfTwo ==
  ASSUME NEW x \in Nat, NEW y \in Nat
  PROVE  Min({x, y}) \in Nat /\ Min({x, y}) <= x /\ Min({x, y}) <= y
         /\ (Min({x, y}) = x \/ Min({x, y}) = y)
  <1>1. {x, y} \in SUBSET Nat /\ {x, y} # {}
    OBVIOUS
  <1>2. Min({x, y}) \in {x, y} /\ \A k \in {x, y} : Min({x, y}) <= k
    BY <1>1, MinIsIn
  <1> QED
    BY <1>2

(* The greatest of 1 and a number. *)
LEMMA AtLeastOne ==
  ASSUME NEW x \in Nat
  PROVE  Max({1, x}) = IF x >= 1 THEN x ELSE 1
  <1>1. \A y \in {1, x} : (IF x >= 1 THEN x ELSE 1) >= y
    OBVIOUS
  <1>2. (IF x >= 1 THEN x ELSE 1) \in {1, x}
    OBVIOUS
  <1>3. PICK z \in Nat : z = IF x >= 1 THEN x ELSE 1
    OBVIOUS
  <1>4. z \in {1, x} /\ \A y \in {1, x} : z >= y
    BY <1>1, <1>2, <1>3
  <1>5. Max({1, x}) \in {1, x} /\ \A y \in {1, x} : Max({1, x}) >= y
    BY <1>4 DEF Max
  <1>6. Max({1, x}) = z
    BY <1>4, <1>5
  <1> QED
    BY <1>3, <1>6

(* What blob_serialize_extent_page lists. *)
LEMMA ExtentClFacts ==
  ASSUME NEW cl \in Seq(Clusters), NEW num \in Nat, num <= Len(cl), NEW i \in Nat \ {0}
  PROVE  LET x == (i - 1) * ExtentsPerEp
             c == SubSeq(cl, x + 1, Min({i * ExtentsPerEp, num}))
         IN  /\ x \in Nat /\ c \in Seq(Clusters) /\ Len(c) <= ExtentsPerEp
             /\ \A k \in 1 .. Len(c) : x + k <= num /\ c[k] = cl[x + k]
  <1>1. PICK x \in Nat : x = (i - 1) * ExtentsPerEp
    BY SizesAssumption
  <1>2. ExtentsPerEp \in Nat
    BY SizesAssumption
  <1>3. PICK y \in Nat : y = i * ExtentsPerEp /\ y = x + ExtentsPerEp
    BY <1>1, SizesAssumption
  <1>4. PICK z \in Nat : z = Min({i * ExtentsPerEp, num})
    BY <1>3, LeastOfTwo
  <1>5. z <= y /\ z <= num
    BY <1>3, <1>4, LeastOfTwo
  <1>6. Len(cl) \in Nat /\ \A k \in 1 .. Len(cl) : cl[k] \in Clusters
    BY ElementOfSeq
  <1>7. \A k \in x + 1 .. z : cl[k] \in Clusters
    BY <1>5, <1>6
  <1>8. PICK c : c = SubSeq(cl, x + 1, z)
    OBVIOUS
  <1>9. /\ c \in Seq(Clusters)
        /\ Len(c) = IF x + 1 <= z THEN z - (x + 1) + 1 ELSE 0
        /\ \A k \in 1 .. z - (x + 1) + 1 : c[k] = cl[x + 1 + k - 1]
    BY <1>7, <1>8, SubSeqProperties
  <1>10. Len(c) <= ExtentsPerEp /\ Len(c) \in Nat /\ (Len(c) # 0 => Len(c) = z - x)
    BY <1>2, <1>3, <1>5, <1>9
  <1>11. \A k \in 1 .. Len(c) : x + k <= num /\ c[k] = cl[x + k]
    <2> SUFFICES ASSUME NEW k \in 1 .. Len(c) PROVE x + k <= num /\ c[k] = cl[x + k]
      OBVIOUS
    <2>1. Len(c) = z - x /\ k <= z - x
      BY <1>10
    <2>2. k \in 1 .. z - (x + 1) + 1 /\ x + 1 + k - 1 = x + k
      BY <2>1
    <2> QED
      BY <1>5, <1>9, <2>1, <2>2
  <1> QED
    BY <1>1, <1>4, <1>8, <1>9, <1>10, <1>11

(* An extent page whose part ends before n fits a blob of size n. *)
LEMMA FitBelow ==
  ASSUME NEW d \in [MdPages -> Page], NEW b \in MdPages, NEW r, Base(b, r),
         NEW j \in 1 .. Len(r.ep), NEW bound, NEW n \in Nat, Fit(d, b, r, j, bound),
         \A k \in Nat : k <= ExtentsPerEp => (j - 1) * ExtentsPerEp + k <= n
  PROVE  Fit(d, b, r, j, n)
  <1>1. r.ep[j] \in MdPages
    BY BaseTypes
  <1>2. PICK q : q = d[r.ep[j]]
    OBVIOUS
  <1>3. q.kind = "extent" /\ Len(q.cl) <= ExtentsPerEp
    BY <1>2 DEF Fit
  <1>4. q.cl \in Seq(Clusters)
    BY <1>1, <1>2, <1>3, PageTypes
  <1>5. Len(q.cl) \in Nat /\ ExtentsPerEp \in Nat
    BY <1>4, SizesAssumption
  <1>6. \A k \in 1 .. Len(q.cl) : k \in Nat /\ k <= ExtentsPerEp
    BY <1>3, <1>5
  <1>7. \A k \in 1 .. Len(q.cl) : (j - 1) * ExtentsPerEp + k <= n
    BY <1>6
  <1> QED
    BY <1>2, <1>7 DEF Fit

(* The extent pages that blob_persist_start does not write again are as    *)
(* they should be.                                                         *)
LEMMA StartReady ==
  ASSUME NEW d \in [MdPages -> Page], NEW b \in MdPages, NEW r, Idle(d, b, r)
  PROVE  /\ r.clean_num < r.num => Ready(d, b, r, Max({1, r.clean_nep}))
         /\ ~(r.clean_num < r.num) /\ r.num < Len(r.cl) => Ready(d, b, r, Max({1, r.nep}))
         /\ ~(r.clean_num < r.num) /\ ~(r.num < Len(r.cl)) => Ready(d, b, r, r.nep + 1)
  <1>1. Base(b, r) /\ OnDisk(d, b, r, r.clean_num, r.clean_nep, r.clean_pages, Len(r.cl))
    BY DEF Idle, Unwritten
  <1>2. /\ r.num \in Nat /\ r.nep \in Nat /\ r.clean_num \in Nat /\ r.clean_nep \in Nat
        /\ Len(r.cl) \in Nat /\ Len(r.ep) \in Nat
    BY <1>1, BaseTypes
  <1>3. /\ r.num <= Len(r.cl) /\ r.nep <= Len(r.ep) /\ r.clean_nep <= Len(r.ep)
        /\ \A j \in 1 .. r.clean_nep : Fit(d, b, r, j, Len(r.cl))
        /\ r.nep = EpCount(r.et, r.num) /\ r.clean_nep = EpCount(r.et, r.clean_num)
    BY <1>1 DEF Base, OnDisk
  <1>4. ExtentsPerEp \in Nat /\ ExtentsPerEp # 0
    BY SizesAssumption
  <1>5. \A ne \in Nat : Max({1, ne}) = IF ne >= 1 THEN ne ELSE 1
    BY AtLeastOne
  <1>6. ASSUME NEW j \in Nat \ {0}, NEW ne \in Nat, NEW x \in Nat, j < ne, j <= r.clean_nep,
               (ne - 1) * ExtentsPerEp < x, x <= r.num
        PROVE  Fit(d, b, r, j, r.num)
    <2>1. j \in 1 .. r.clean_nep /\ j \in 1 .. Len(r.ep)
      BY <1>2, <1>3, <1>6
    <2>2. ASSUME NEW k \in Nat, k <= ExtentsPerEp PROVE (j - 1) * ExtentsPerEp + k <= r.num
      <3>1. (j - 1) * ExtentsPerEp + k <= (ne - 1) * ExtentsPerEp
        BY <1>6, <2>2, SliceBelow
      <3>2. (j - 1) * ExtentsPerEp \in Nat /\ (ne - 1) * ExtentsPerEp \in Nat
        BY <1>4, <1>6
      <3> QED
        BY <1>2, <1>6, <3>1, <3>2
    <2>3. Fit(d, b, r, j, Len(r.cl))
      BY <1>3, <2>1
    <2> QED
      BY <1>1, <1>2, <2>1, <2>2, <2>3, FitBelow
  <1>7. ASSUME r.clean_num < r.num
        PROVE  Ready(d, b, r, Max({1, r.clean_nep}))
    <2> SUFFICES ASSUME NEW j \in 1 .. r.nep, j < Max({1, r.clean_nep})
                 PROVE  Fit(d, b, r, j, r.num)
      BY DEF Ready
    <2>1. j < r.clean_nep /\ j \in Nat \ {0} /\ r.clean_nep # 0
      BY <1>2, <1>5
    <2>2. (r.clean_nep - 1) * ExtentsPerEp < r.clean_num
      BY <1>2, <1>3, <2>1, EpCountFacts
    <2>3. j <= r.clean_nep /\ r.clean_num <= r.num
      BY <1>2, <1>7, <2>1
    <2> QED
      BY <1>2, <1>6, <2>1, <2>2, <2>3
  <1>8. ~(r.clean_num < r.num) => r.nep <= r.clean_nep
    BY <1>2, <1>3, EpCountFacts
  <1>9. ASSUME ~(r.clean_num < r.num)
        PROVE  Ready(d, b, r, Max({1, r.nep}))
    <2> SUFFICES ASSUME NEW j \in 1 .. r.nep, j < Max({1, r.nep})
                 PROVE  Fit(d, b, r, j, r.num)
      BY DEF Ready
    <2>1. j < r.nep /\ j \in Nat \ {0} /\ r.nep # 0
      BY <1>2, <1>5
    <2>2. (r.nep - 1) * ExtentsPerEp < r.num
      BY <1>2, <1>3, <2>1, EpCountFacts
    <2>3. j <= r.clean_nep /\ r.num <= r.num
      BY <1>2, <1>8, <1>9, <2>1
    <2> QED
      BY <1>2, <1>6, <2>1, <2>2, <2>3
  <1>10. ASSUME ~(r.clean_num < r.num), ~(r.num < Len(r.cl))
         PROVE  Ready(d, b, r, r.nep + 1)
    <2>1. r.num = Len(r.cl)
      BY <1>2, <1>3, <1>10
    <2>2. \A j \in 1 .. r.nep : j \in 1 .. r.clean_nep
      BY <1>2, <1>8, <1>10
    <2> QED
      BY <1>3, <2>1, <2>2 DEF Ready
  <1> QED
    BY <1>7, <1>9, <1>10

(* blob_persist_write_extent_pages stages extent page i, or goes on to the    *)
(* chain when there is none.                                                  *)
LEMMA WriteExtentsGood ==
  ASSUME NEW d \in [MdPages -> Page], NEW b \in MdPages, NEW m, NEW O, NEW OC, NEW n \in Nat,
         ToPersist(d, b, m, O, OC, n), NEW i \in Nat \ {0}, Ready(d, b, m.r, i)
  PROVE  Good(d, b, blob_persist_write_extent_pages(m, i), O, OC, n)
  <1> DEFINE g == blob_persist_write_extent_pages(m, i)
             page == blob_serialize_extent_page(m.r, i)
             s == [m.r EXCEPT !.dirty = TRUE, !.io = "extent", !.left = {i}, !.extent = page]
  <1>1. /\ Known(d, b, m, n) /\ Unwritten(d, b, m.r) /\ m.r.ver <= n
        /\ Own(m.u, O, OC, Kept(m.r), ToSet(m.r.cl))
        /\ m.r \in BlobRec /\ m.r.st \in Alive /\ m.r.pages = m.r.clean_pages
        /\ m.r.id = b /\ Base(b, m.r) /\ m.r.ver \in Nat
    BY BaseTypes DEF ToPersist, Idle, Unwritten, Base, Own
  <1>2. /\ m.r.cl \in Seq(Clusters) /\ m.r.num \in Nat /\ m.r.num <= Len(m.r.cl)
        /\ m.r.nep \in Nat /\ Len(m.r.ep) \in Nat /\ m.r.nep <= Len(m.r.ep)
    BY <1>1, BaseTypes DEF Base
  <1>3. CASE ~(i <= Len(m.r.ep))
    <2>1. g = blob_persist_generate_new_md(m)
      BY <1>3 DEF blob_persist_write_extent_pages
    <2>2. Ready(d, b, m.r, m.r.nep + 1)
      <3>1. \A j \in 1 .. m.r.nep : j < i
        BY <1>2, <1>3
      <3> QED
        BY <3>1 DEF Ready
    <2> QED
      BY <2>1, <2>2, GenerateGood
  <1>4. CASE i <= Len(m.r.ep)
    <2>1. g.r = s /\ g.u = m.u /\ g.a = m.a
      BY <1>4 DEF blob_persist_write_extent_pages, With
    <2>2. page \in Page
      <3>1. PICK c : c = SubSeq(m.r.cl, (i - 1) * ExtentsPerEp + 1, Min({i * ExtentsPerEp, m.r.num}))
        OBVIOUS
      <3>2. (i - 1) * ExtentsPerEp \in Nat /\ c \in Seq(Clusters)
        BY <1>2, <3>1, ExtentClFacts
      <3>3. page = ExtentPage(b, m.r.ver, (i - 1) * ExtentsPerEp, c)
        BY <1>1, <3>1 DEF blob_serialize_extent_page
      <3>4. PICK x \in Nat : x = (i - 1) * ExtentsPerEp
        BY <3>2
      <3> HIDE DEF page
      <3>5. page = ExtentPage(b, m.r.ver, x, c)
        BY <3>3, <3>4
      <3> QED
        BY <1>1, <3>2, <3>5 DEF ExtentPage, Page
    <2>3. /\ page.ver = m.r.ver
          /\ page = ExtentPage(b, m.r.ver, (i - 1) * ExtentsPerEp,
                      SubSeq(m.r.cl, (i - 1) * ExtentsPerEp + 1, Min({i * ExtentsPerEp, m.r.num})))
      BY <1>1 DEF blob_serialize_extent_page, ExtentPage
    <2> HIDE DEF page
    <2>4. /\ Alike(m.r, s) /\ s.st = m.r.st /\ s.pages = m.r.pages /\ s.io = "extent"
          /\ s.left = {i} /\ s.extent = page
      BY <1>1, <2>2 DEF Alike, BlobRec
    <2> HIDE DEF s, g
    <2>5. s.pages \cap ({b} \cup ToSet(m.r.ep)) = {}
      BY <1>1, <2>4 DEF Base
    <2>6. Unwritten(d, b, s)
      BY <1>1, <2>4, <2>5, UnwrittenAlike
    <2>7. Idle(d, b, s)
      BY <1>1, <2>4, <2>6 DEF Idle, Alike
    <2>8. Ready(d, b, s, i)
      BY <2>4, FitAlike DEF Alike
    <2>9. ExtentStaged(b, s, i)
      BY <2>3, <2>4 DEF ExtentStaged, Alike
    <2>10. i \in 1 .. Len(s.ep)
      BY <1>2, <1>4, <2>4 DEF Alike
    <2>11. Mem(d, b, s)
      BY <2>4, <2>7, <2>8, <2>9, <2>10 DEF Mem, MemExtent
    <2>12. MP(s) = Kept(m.r) /\ s.cl = m.r.cl /\ s.ver = m.r.ver
      BY <1>1, <2>4 DEF MP, Kept, Alike
    <2>13. GoodMem(d, b, g, O, OC, n)
      BY <1>1, <2>1, <2>11, <2>12 DEF GoodMem
    <2>14. Known(d, b, g, n)
      BY <1>1, <2>1, <2>4 DEF Known
    <2> QED
      BY <2>13, <2>14 DEF Good, g
  <1> QED
    BY <1>3, <1>4

(* blob_persist_start, from a blob that can be persisted. *)
LEMMA StartGood ==
  ASSUME NEW d \in [MdPages -> Page], NEW b \in MdPages, NEW m, NEW O, NEW OC, NEW n \in Nat,
         ToPersist(d, b, m, O, OC, n)
  PROVE  Good(d, b, blob_persist_start(m), O, OC, n)
  <1>1. Idle(d, b, m.r) /\ m.r.st # "deleting" /\ Base(b, m.r)
    BY DEF ToPersist, Idle, Alive, Unwritten
  <1>2. m.r.nep \in Nat /\ m.r.clean_nep \in Nat
    BY <1>1, BaseTypes
  <1>3. Max({1, m.r.clean_nep}) \in Nat \ {0} /\ Max({1, m.r.nep}) \in Nat \ {0}
    BY <1>2, AtLeastOne
  <1>4. CASE m.r.clean_num < m.r.num
    <2>1. blob_persist_start(m) = blob_persist_write_extent_pages(m, Max({1, m.r.clean_nep}))
      BY <1>1, <1>4 DEF blob_persist_start
    <2>2. Ready(d, b, m.r, Max({1, m.r.clean_nep}))
      BY <1>1, <1>4, StartReady
    <2> QED
      BY <1>3, <2>1, <2>2, WriteExtentsGood
  <1>5. CASE ~(m.r.clean_num < m.r.num) /\ m.r.num < Len(m.r.cl)
    <2>1. blob_persist_start(m) = blob_persist_write_extent_pages(m, Max({1, m.r.nep}))
      BY <1>1, <1>5 DEF blob_persist_start
    <2>2. Ready(d, b, m.r, Max({1, m.r.nep}))
      BY <1>1, <1>5, StartReady
    <2> QED
      BY <1>3, <2>1, <2>2, WriteExtentsGood
  <1>6. CASE ~(m.r.clean_num < m.r.num) /\ ~(m.r.num < Len(m.r.cl))
    <2>1. blob_persist_start(m) = blob_persist_generate_new_md(m)
      BY <1>1, <1>6 DEF blob_persist_start
    <2>2. Ready(d, b, m.r, m.r.nep + 1)
      BY <1>1, <1>6, StartReady
    <2> QED
      BY <2>1, <2>2, GenerateGood
  <1> QED
    BY <1>4, <1>5, <1>6

(* A blob whose new root is on disk, and whose old pages are released. *)
Released(d, b, m, O, OC, n) ==
  /\ Known(d, b, m, n) /\ Written(d, b, m.r) /\ m.r.ver <= n
  /\ Own(m.u, O, OC, Kept(m.r), ToSet(m.r.cl))

(* An extent page that fits a size fits a greater one. *)
LEMMA FitMore ==
  ASSUME NEW d \in [MdPages -> Page], NEW b \in MdPages, NEW r, Base(b, r),
         NEW j \in 1 .. Len(r.ep), NEW bound \in Nat, NEW n \in Nat, bound <= n, Fit(d, b, r, j, bound)
  PROVE  Fit(d, b, r, j, n)
  <1>1. r.ep[j] \in MdPages
    BY BaseTypes
  <1>2. PICK q : q = d[r.ep[j]]
    OBVIOUS
  <1>3. q.kind = "extent"
    BY <1>2 DEF Fit
  <1>4. q.cl \in Seq(Clusters)
    BY <1>1, <1>2, <1>3, PageTypes
  <1>5. Len(q.cl) \in Nat
    BY <1>4
  <1>6. PICK x \in Nat : x = (j - 1) * ExtentsPerEp
    BY SizesAssumption
  <1>7. \A k \in 1 .. Len(q.cl) : x + k <= bound
    BY <1>2, <1>6 DEF Fit
  <1>8. \A k \in 1 .. Len(q.cl) : x + k <= n
    BY <1>5, <1>7
  <1> QED
    BY <1>2, <1>6, <1>8 DEF Fit

(* When the persist is complete, the clean state is what is on disk. *)
LEMMA MarkCleanIdle ==
  ASSUME NEW d \in [MdPages -> Page], NEW b \in MdPages, NEW r, Written(d, b, r),
         NEW s, s \in BlobRec, s.st = r.st,
         s.id = r.id, s.et = r.et, s.ver = r.ver, s.num = r.num, s.cl = r.cl, s.nep = r.nep,
         s.ep = r.ep, s.pages = r.pages,
         s.clean_num = r.num, s.clean_nep = r.nep, s.clean_pages = r.pages
  PROVE  Idle(d, b, s)
  <1>1. /\ Base(b, r) /\ OnDisk(d, b, r, r.num, r.nep, r.pages, r.num) /\ r.st \in Alive
        /\ LoadsAt(d, b) /\ d[b].ver <= r.ver
    BY DEF Written
  <1>2. Base(b, s)
    BY <1>1 DEF Base
  <1>3. r.num \in Nat /\ r.nep \in Nat /\ Len(r.cl) \in Nat /\ Len(r.ep) \in Nat
    BY <1>1, BaseTypes
  <1>4. r.num <= Len(r.cl) /\ r.nep <= Len(r.ep)
    BY <1>1 DEF Base
  <1>5. \A j \in 1 .. r.nep : j \in 1 .. Len(r.ep)
    BY <1>3, <1>4
  <1>6. \A j \in 1 .. r.nep : Fit(d, b, r, j, Len(r.cl))
    BY <1>1, <1>3, <1>4, <1>5, FitMore DEF OnDisk
  <1>7. OnDisk(d, b, r, r.num, r.nep, r.pages, Len(r.cl))
    BY <1>1, <1>6 DEF OnDisk
  <1>8. OnDisk(d, b, s, r.num, r.nep, r.pages, Len(r.cl))
    BY <1>7, OnDiskAlike
  <1> QED
    BY <1>1, <1>2, <1>8 DEF Idle, Unwritten

(* blob_persist_complete marks the blob clean, and ends or starts the persist *)
(* that waited.                                                               *)
LEMMA CompleteGood ==
  ASSUME NEW d \in [MdPages -> Page], NEW b \in MdPages, NEW m, NEW O, NEW OC, NEW n \in Nat,
         Released(d, b, m, O, OC, n)
  PROVE  Good(d, b, blob_persist_complete(m), O, OC, n)
  <1> DEFINE g == blob_persist_complete(m)
             s == blob_mark_clean(m.r)
             t == [s EXCEPT !.pend = FALSE, !.dirty = TRUE]
             done == [r |-> s, u |-> m.u, a |-> m.r.root.ver]
  <1>1. /\ Known(d, b, m, n) /\ Written(d, b, m.r) /\ m.r.ver <= n
        /\ Own(m.u, O, OC, Kept(m.r), ToSet(m.r.cl))
        /\ m.r \in BlobRec /\ m.r.st \in Alive /\ Base(b, m.r) /\ m.r.ver \in Nat
    BY BaseTypes DEF Released, Written, Base
  <1>2. /\ s \in BlobRec /\ s.st = m.r.st /\ s.id = m.r.id /\ s.et = m.r.et /\ s.ver = m.r.ver
        /\ s.num = m.r.num /\ s.cl = m.r.cl /\ s.nep = m.r.nep /\ s.ep = m.r.ep
        /\ s.pages = m.r.pages /\ s.root = m.r.root /\ s.pend = m.r.pend
        /\ s.clean_num = m.r.num /\ s.clean_nep = m.r.nep /\ s.clean_pages = m.r.pages
    BY <1>1 DEF blob_mark_clean, BlobRec
  <1>3. g = IF s.pend THEN blob_persist_start(With(done, t)) ELSE Ended(done)
    <2>1. s.st # "deleting"
      BY <1>1, <1>2 DEF Alive
    <2> HIDE DEF s
    <2> QED
      BY <1>2, <2>1 DEF blob_persist_complete, s
  <1> HIDE DEF s, g
  <1>4. /\ t \in BlobRec /\ t.st = m.r.st /\ t.id = m.r.id /\ t.et = m.r.et /\ t.ver = m.r.ver
        /\ t.num = m.r.num /\ t.cl = m.r.cl /\ t.nep = m.r.nep /\ t.ep = m.r.ep
        /\ t.pages = m.r.pages
        /\ t.clean_num = m.r.num /\ t.clean_nep = m.r.nep /\ t.clean_pages = m.r.pages
    BY <1>2 DEF BlobRec
  <1> HIDE DEF t
  <1>5. Idle(d, b, s) /\ Idle(d, b, t)
    BY <1>1, <1>2, <1>4, MarkCleanIdle
  <1>6. LoadsAt(d, b) /\ m.r.root.ver = d[b].ver /\ d[b].ver \in Nat /\ d[b].ver <= n
        /\ b \in m.u.ids
    <2>1. LoadsAt(d, b) /\ m.r.root.ver = d[b].ver /\ d[b].ver <= m.r.ver
      BY <1>1 DEF Written
    <2>2. d[b].ver \in Nat
      BY <2>1, BodyTypes
    <2>3. b \in m.u.ids
      BY <1>1, <2>1 DEF Known, Alive
    <2> QED
      BY <1>1, <2>1, <2>2, <2>3
  <1>7. m.r.root.ver \in Doomed .. n /\ Ack(d, b, m.r.root.ver)
    BY <1>6 DEF Ack, Doomed
  <1>8. Kept(s) = Kept(m.r) /\ Kept(t) = Kept(m.r)
    BY <1>2, <1>4 DEF Kept
  <1>9. ToPersist(d, b, done, O, OC, n)
    BY <1>1, <1>2, <1>5, <1>6, <1>7, <1>8 DEF ToPersist, Known, Alive
  <1>10. ToPersist(d, b, With(done, t), O, OC, n)
    BY <1>1, <1>4, <1>5, <1>6, <1>7, <1>8 DEF ToPersist, Known, With, Alive
  <1>11. Good(d, b, Ended(done), O, OC, n)
    BY <1>9, EndedGood
  <1>12. Good(d, b, blob_persist_start(With(done, t)), O, OC, n)
    BY <1>10, StartGood
  <1> QED
    BY <1>3, <1>11, <1>12 DEF g

(* t is a sequence with the first n items of s, and maybe more of them. *)
Cut(T, s, n, t) ==
  /\ t \in Seq(T) /\ n <= Len(t) /\ IsInjective(t) /\ ToSet(t) \subseteq ToSet(s)
  /\ SubSeq(t, 1, n) = SubSeq(s, 1, n)
  /\ \A i \in 1 .. n : t[i] = s[i]

(* A sequence, and its first n items, are cuts of it. *)
LEMMA CutFacts ==
  ASSUME NEW T, NEW s \in Seq(T), NEW n \in Nat, n <= Len(s), IsInjective(s)
  PROVE  Cut(T, s, n, s) /\ Cut(T, s, n, SubSeq(s, 1, n))
  <1>1. Cut(T, s, n, s)
    BY DEF Cut
  <1>2. PICK t : t = SubSeq(s, 1, n)
    OBVIOUS
  <1>3. /\ t \in Seq(T) /\ Len(t) = n /\ IsInjective(t) /\ ToSet(t) \subseteq ToSet(s)
        /\ \A i \in 1 .. n : t[i] = s[i]
    BY <1>2, PrefixFacts
  <1>4. SubSeq(t, 1, n) = t
    BY <1>3, PrefixFacts
  <1> QED
    BY <1>1, <1>2, <1>3, <1>4 DEF Cut

(* Lists that are cut beyond the size the root on disk has are still written. *)
LEMMA CutWritten ==
  ASSUME NEW d \in [MdPages -> Page], NEW b \in MdPages, NEW r, Written(d, b, r),
         NEW s, s \in BlobRec, s.st = r.st, s.id = r.id, s.et = r.et, s.ver = r.ver,
         s.num = r.num, s.nep = r.nep, s.pages = r.pages, s.root = r.root,
         s.clean_num = r.clean_num, s.clean_nep = r.clean_nep, s.clean_pages = r.clean_pages,
         Cut(Clusters, r.cl, r.num, s.cl), Cut(MdPages, r.ep, r.nep, s.ep)
  PROVE  Written(d, b, s)
  <1>1. /\ Base(b, r) /\ OnDisk(d, b, r, r.num, r.nep, r.pages, r.num) /\ r.st \in Alive
        /\ LoadsAt(d, b) /\ d[b].ver = r.root.ver /\ d[b].ver <= r.ver
    BY DEF Written
  <1>2. r.num \in Nat /\ r.nep \in Nat /\ r.ep \in Seq(MdPages)
    BY <1>1, BaseTypes
  <1>3. /\ r.num <= Len(s.cl) /\ r.nep <= Len(s.ep) /\ IsInjective(s.cl) /\ IsInjective(s.ep)
        /\ ToSet(s.ep) \subseteq ToSet(r.ep)
        /\ SubSeq(s.cl, 1, r.num) = SubSeq(r.cl, 1, r.num)
        /\ SubSeq(s.ep, 1, r.nep) = SubSeq(r.ep, 1, r.nep)
        /\ \A i \in 1 .. r.num : s.cl[i] = r.cl[i]
        /\ \A i \in 1 .. r.nep : s.ep[i] = r.ep[i]
        /\ s.ep \in Seq(MdPages)
    BY DEF Cut
  <1>4. s.et \/ s.ep = <<>>
    <2> SUFFICES ASSUME ~r.et PROVE s.ep = <<>>
      OBVIOUS
    <2>1. ToSet(r.ep) = {}
      BY <1>1, EmptyFacts DEF Base
    <2>2. Len(s.ep) \in Nat /\ \A i \in 1 .. Len(s.ep) : s.ep[i] \in ToSet(s.ep)
      BY <1>3, ToSetFacts
    <2>3. Len(s.ep) = 0
      BY <1>3, <2>1, <2>2
    <2> QED
      BY <1>3, <2>3
  <1>5. Base(b, s)
    BY <1>1, <1>3, <1>4 DEF Base
  <1>6. Serial(s, r.num, r.nep) = Serial(r, r.num, r.nep)
    BY <1>3 DEF Serial
  <1>7. ASSUME NEW j \in 1 .. r.nep PROVE Fit(d, b, s, j, r.num)
    <2>1. PICK q : q = d[r.ep[j]]
      OBVIOUS
    <2>2. PICK x \in Nat : x = (j - 1) * ExtentsPerEp
      BY SizesAssumption
    <2>3. Fit(d, b, r, j, r.num)
      BY <1>1 DEF OnDisk
    <2>4. /\ q.kind = "extent" /\ q.id = b /\ q.start = x /\ Len(q.cl) <= ExtentsPerEp
          /\ \A k \in 1 .. Len(q.cl) : x + k <= r.num /\ q.cl[k] = r.cl[x + k]
      BY <2>1, <2>2, <2>3 DEF Fit
    <2>5. r.ep[j] \in MdPages
      BY <1>1, <1>2, ToSetFacts DEF Base
    <2>6. q.cl \in Seq(Clusters)
      BY <2>1, <2>4, <2>5, PageTypes
    <2>7. \A k \in 1 .. Len(q.cl) : x + k \in 1 .. r.num
      BY <1>2, <2>4, <2>6
    <2>8. \A k \in 1 .. Len(q.cl) : q.cl[k] = s.cl[x + k]
      BY <1>3, <2>4, <2>7
    <2>9. q = d[s.ep[j]]
      BY <1>3, <2>1
    <2> QED
      BY <2>2, <2>4, <2>8, <2>9 DEF Fit
  <1>8. OnDisk(d, b, s, r.num, r.nep, r.pages, r.num)
    BY <1>1, <1>3, <1>6, <1>7 DEF OnDisk
  <1> QED
    BY <1>1, <1>5, <1>8 DEF Written

(* blob_persist_clear_extents_cpl releases extent pages the root on disk does not name. *)
LEMMA ClearExtentsCplGood ==
  ASSUME NEW d \in [MdPages -> Page], NEW b \in MdPages, NEW m, NEW O, NEW OC, NEW n \in Nat,
         Released(d, b, m, O, OC, n)
  PROVE  Good(d, b, blob_persist_clear_extents_cpl(m), O, OC, n)
  <1> DEFINE s == [m.r EXCEPT !.ep = SubSeq(m.r.ep, 1, m.r.nep)]
             u == [m.u EXCEPT !.md = m.u.md \ ItemsAfter(m.r.ep, m.r.nep)]
             c == [r |-> s, u |-> u, a |-> m.a]
  <1>1. /\ Known(d, b, m, n) /\ Written(d, b, m.r) /\ m.r.ver <= n
        /\ Own(m.u, O, OC, Kept(m.r), ToSet(m.r.cl))
        /\ m.r \in BlobRec /\ m.r.id = b /\ Base(b, m.r) /\ m.u \in Masks
    BY DEF Released, Written, Base, Own
  <1>2. /\ m.r.ep \in Seq(MdPages) /\ m.r.nep \in Nat /\ m.r.nep <= Len(m.r.ep) /\ IsInjective(m.r.ep)
        /\ m.r.cl \in Seq(Clusters) /\ m.r.num \in Nat /\ m.r.num <= Len(m.r.cl) /\ IsInjective(m.r.cl)
    BY <1>1, BaseTypes DEF Base
  <1>3. PICK ep : ep = SubSeq(m.r.ep, 1, m.r.nep)
    OBVIOUS
  <1>4. /\ Cut(MdPages, m.r.ep, m.r.nep, ep) /\ Cut(Clusters, m.r.cl, m.r.num, m.r.cl)
    BY <1>2, <1>3, CutFacts
  <1>5. /\ ItemsAfter(m.r.ep, m.r.nep) \subseteq ToSet(m.r.ep)
        /\ ItemsAfter(m.r.ep, m.r.nep) \cap ToSet(ep) = {} /\ ToSet(ep) \subseteq ToSet(m.r.ep)
        /\ ep \in Seq(MdPages)
    BY <1>2, <1>3, PrefixFacts
  <1>6. blob_persist_clear_extents_cpl(m) = blob_persist_complete(c)
    BY DEF blob_persist_clear_extents_cpl
  <1>7. /\ s \in BlobRec /\ s.st = m.r.st /\ s.id = m.r.id /\ s.et = m.r.et /\ s.ver = m.r.ver
        /\ s.num = m.r.num /\ s.nep = m.r.nep /\ s.pages = m.r.pages /\ s.root = m.r.root
        /\ s.clean_num = m.r.clean_num /\ s.clean_nep = m.r.clean_nep
        /\ s.clean_pages = m.r.clean_pages /\ s.cl = m.r.cl /\ s.ep = ep
    BY <1>1, <1>3, <1>5 DEF BlobRec
  <1>8. u \in Masks /\ u.md = m.u.md \ ItemsAfter(m.r.ep, m.r.nep) /\ u.ids = m.u.ids
        /\ u.clusters = m.u.clusters
    BY <1>1 DEF Masks
  <1> HIDE DEF s, u
  <1>9. Written(d, b, s)
    BY <1>1, <1>4, <1>7, CutWritten
  <1>10. Kept(s) \subseteq Kept(m.r) /\ Kept(s) \cap ItemsAfter(m.r.ep, m.r.nep) = {}
         /\ ItemsAfter(m.r.ep, m.r.nep) \subseteq Kept(m.r)
    BY <1>1, <1>5, <1>7 DEF Kept, Base
  <1>11. Own(u, O, OC, Kept(s), ToSet(s.cl))
    BY <1>1, <1>7, <1>8, <1>10 DEF Own
  <1>12. Known(d, b, c, n)
    BY <1>1, <1>7, <1>8 DEF Known
  <1>13. Released(d, b, c, O, OC, n)
    BY <1>1, <1>7, <1>9, <1>11, <1>12 DEF Released
  <1> QED
    BY <1>6, <1>13, CompleteGood

(* blob_persist_clear_extents, which has nothing to zero or starts a batch. *)
LEMMA ClearExtentsGood ==
  ASSUME NEW d \in [MdPages -> Page], NEW b \in MdPages, NEW m, NEW O, NEW OC, NEW n \in Nat,
         Released(d, b, m, O, OC, n)
  PROVE  Good(d, b, blob_persist_clear_extents(m), O, OC, n)
  <1> DEFINE left == ItemsAfter(m.r.ep, m.r.nep)
             s == [m.r EXCEPT !.io = "extents", !.left = left]
             g == blob_persist_clear_extents(m)
  <1>1. /\ Known(d, b, m, n) /\ Written(d, b, m.r) /\ m.r.ver <= n
        /\ Own(m.u, O, OC, Kept(m.r), ToSet(m.r.cl))
        /\ m.r \in BlobRec /\ m.r.id = b /\ Base(b, m.r)
    BY DEF Released, Written, Base
  <1>2. CASE left = {}
    BY <1>2, CompleteGood DEF blob_persist_clear_extents
  <1>3. CASE left # {}
    <2>1. g.r = s /\ g.u = m.u /\ g.a = m.a
      BY <1>3 DEF blob_persist_clear_extents, With
    <2>2. left \subseteq ToSet(m.r.ep) /\ ToSet(m.r.ep) \subseteq MdPages /\ MdPages \subseteq Nat
      BY <1>1, BaseTypes, PrefixFacts, SizesAssumption, SMTT(30) DEF Base, MdPages
    <2> HIDE DEF left
    <2>3. /\ Alike(m.r, s) /\ s.st = m.r.st /\ s.pages = m.r.pages /\ s.root = m.r.root
          /\ s.io = "extents" /\ s.left = left
      BY <1>1, <2>2 DEF Alike, BlobRec
    <2> HIDE DEF s, g
    <2>4. Written(d, b, s)
      BY <1>1, <2>3, WrittenAlike DEF Written
    <2>5. Mem(d, b, s)
      BY <2>3, <2>4 DEF Mem, Alike, left
    <2>6. MP(s) = Kept(m.r) /\ s.cl = m.r.cl /\ s.ver = m.r.ver
      BY <1>1, <2>3 DEF MP, Kept, Alike
    <2>7. GoodMem(d, b, g, O, OC, n)
      BY <1>1, <2>1, <2>5, <2>6 DEF GoodMem
    <2>8. Known(d, b, g, n)
      BY <1>1, <2>1, <2>3 DEF Known
    <2> QED
      BY <2>7, <2>8 DEF Good, g
  <1> QED
    BY <1>2, <1>3

(* The spare clusters are released. *)
LEMMA ClearClustersCplGood ==
  ASSUME NEW d \in [MdPages -> Page], NEW b \in MdPages, NEW m, NEW O, NEW OC, NEW n \in Nat,
         Released(d, b, m, O, OC, n)
  PROVE  Good(d, b, blob_persist_clear_clusters_cpl(m), O, OC, n)
  <1> DEFINE s == [m.r EXCEPT !.cl = SubSeq(m.r.cl, 1, m.r.num)]
             u == [m.u EXCEPT !.clusters = m.u.clusters \ ItemsAfter(m.r.cl, m.r.num)]
             c == [r |-> s, u |-> u, a |-> m.a]
  <1>1. /\ Known(d, b, m, n) /\ Written(d, b, m.r) /\ m.r.ver <= n
        /\ Own(m.u, O, OC, Kept(m.r), ToSet(m.r.cl))
        /\ m.r \in BlobRec /\ m.r.id = b /\ Base(b, m.r) /\ m.u \in Masks
    BY DEF Released, Written, Base, Own
  <1>2. /\ m.r.ep \in Seq(MdPages) /\ m.r.nep \in Nat /\ m.r.nep <= Len(m.r.ep) /\ IsInjective(m.r.ep)
        /\ m.r.cl \in Seq(Clusters) /\ m.r.num \in Nat /\ m.r.num <= Len(m.r.cl) /\ IsInjective(m.r.cl)
    BY <1>1, BaseTypes DEF Base
  <1>3. PICK cl : cl = SubSeq(m.r.cl, 1, m.r.num)
    OBVIOUS
  <1>4. /\ Cut(MdPages, m.r.ep, m.r.nep, m.r.ep) /\ Cut(Clusters, m.r.cl, m.r.num, cl)
    BY <1>2, <1>3, CutFacts
  <1>5. /\ ItemsAfter(m.r.cl, m.r.num) \subseteq ToSet(m.r.cl)
        /\ ItemsAfter(m.r.cl, m.r.num) \cap ToSet(cl) = {} /\ ToSet(cl) \subseteq ToSet(m.r.cl)
        /\ cl \in Seq(Clusters)
    BY <1>2, <1>3, PrefixFacts
  <1>6. blob_persist_clear_clusters_cpl(m) = blob_persist_clear_extents(c)
    BY DEF blob_persist_clear_clusters_cpl
  <1>7. /\ s \in BlobRec /\ s.st = m.r.st /\ s.id = m.r.id /\ s.et = m.r.et /\ s.ver = m.r.ver
        /\ s.num = m.r.num /\ s.nep = m.r.nep /\ s.pages = m.r.pages /\ s.root = m.r.root
        /\ s.clean_num = m.r.clean_num /\ s.clean_nep = m.r.clean_nep
        /\ s.clean_pages = m.r.clean_pages /\ s.cl = cl /\ s.ep = m.r.ep
    BY <1>1, <1>3, <1>5 DEF BlobRec
  <1>8. u \in Masks /\ u.clusters = m.u.clusters \ ItemsAfter(m.r.cl, m.r.num) /\ u.ids = m.u.ids
        /\ u.md = m.u.md
    BY <1>1 DEF Masks
  <1> HIDE DEF s, u
  <1>9. Written(d, b, s)
    BY <1>1, <1>4, <1>7, CutWritten
  <1>10. Kept(s) = Kept(m.r)
    BY <1>7 DEF Kept
  <1>11. Own(u, O, OC, Kept(s), ToSet(s.cl))
    BY <1>1, <1>5, <1>7, <1>8, <1>10 DEF Own
  <1>12. Known(d, b, c, n)
    BY <1>1, <1>7, <1>8 DEF Known
  <1>13. Released(d, b, c, O, OC, n)
    BY <1>1, <1>7, <1>9, <1>11, <1>12 DEF Released
  <1> QED
    BY <1>6, <1>13, ClearExtentsGood

(* blob_persist_clear_clusters clears the spare clusters, if there are any. *)
LEMMA ClearClustersGood ==
  ASSUME NEW d \in [MdPages -> Page], NEW b \in MdPages, NEW m, NEW O, NEW OC, NEW n \in Nat,
         Released(d, b, m, O, OC, n)
  PROVE  Good(d, b, blob_persist_clear_clusters(m), O, OC, n)
  <1> DEFINE s == [m.r EXCEPT !.io = "clusters"]
             g == blob_persist_clear_clusters(m)
  <1>1. /\ Known(d, b, m, n) /\ Written(d, b, m.r) /\ m.r.ver <= n
        /\ Own(m.u, O, OC, Kept(m.r), ToSet(m.r.cl))
        /\ m.r \in BlobRec /\ m.r.id = b /\ Base(b, m.r)
    BY DEF Released, Written, Base
  <1>2. CASE ItemsAfter(m.r.cl, m.r.num) = {}
    BY <1>2, ClearClustersCplGood DEF blob_persist_clear_clusters
  <1>3. CASE ItemsAfter(m.r.cl, m.r.num) # {}
    <2>1. g.r = s /\ g.u = m.u /\ g.a = m.a
      BY <1>3 DEF blob_persist_clear_clusters, With
    <2>3. /\ Alike(m.r, s) /\ s.st = m.r.st /\ s.pages = m.r.pages /\ s.root = m.r.root
          /\ s.io = "clusters"
      BY <1>1 DEF Alike, BlobRec
    <2> HIDE DEF s, g
    <2>4. Written(d, b, s)
      BY <1>1, <2>3, WrittenAlike DEF Written
    <2>5. Mem(d, b, s)
      BY <2>3, <2>4 DEF Mem, Alike
    <2>6. MP(s) = Kept(m.r) /\ s.cl = m.r.cl /\ s.ver = m.r.ver
      BY <1>1, <2>3 DEF MP, Kept, Alike
    <2>7. GoodMem(d, b, g, O, OC, n)
      BY <1>1, <2>1, <2>5, <2>6 DEF GoodMem
    <2>8. Known(d, b, g, n)
      BY <1>1, <2>1, <2>3 DEF Known
    <2> QED
      BY <2>7, <2>8 DEF Good, g
  <1> QED
    BY <1>2, <1>3

(* A blob whose new root is on disk, and whose old pages are not released. *)
RootOnDisk(d, b, m, O, OC, n) ==
  /\ Known(d, b, m, n) /\ Written(d, b, m.r) /\ m.r.ver <= n
  /\ m.r.pages \cap m.r.clean_pages = {}
  /\ Own(m.u, O, OC, Kept(m.r) \cup m.r.clean_pages, ToSet(m.r.cl))

(* The old pages are released. *)
LEMMA ZeroPagesCplGood ==
  ASSUME NEW d \in [MdPages -> Page], NEW b \in MdPages, NEW m, NEW O, NEW OC, NEW n \in Nat,
         RootOnDisk(d, b, m, O, OC, n)
  PROVE  Good(d, b, blob_persist_zero_pages_cpl(m), O, OC, n)
  <1> DEFINE u == [m.u EXCEPT !.md = m.u.md \ (m.r.clean_pages \cup RootIfDeleted(m.r))]
             c == [r |-> m.r, u |-> u, a |-> m.a]
  <1>1. /\ Known(d, b, m, n) /\ Written(d, b, m.r) /\ m.r.ver <= n
        /\ Own(m.u, O, OC, Kept(m.r) \cup m.r.clean_pages, ToSet(m.r.cl))
        /\ m.r \in BlobRec /\ m.r.id = b /\ Base(b, m.r) /\ m.u \in Masks
        /\ m.r.pages \cap m.r.clean_pages = {}
    BY DEF RootOnDisk, Written, Base, Own
  <1>2. m.r.st # "deleting"
    BY <1>1 DEF Written, Alive
  <1>3. blob_persist_zero_pages_cpl(m) = blob_persist_clear_clusters(c)
    BY <1>2 DEF blob_persist_zero_pages_cpl
  <1>4. u \in Masks /\ u.md = m.u.md \ m.r.clean_pages /\ u.ids = m.u.ids /\ u.clusters = m.u.clusters
    BY <1>1, <1>2 DEF Masks, RootIfDeleted
  <1> HIDE DEF u
  <1>5. Kept(m.r) \cap m.r.clean_pages = {}
    BY <1>1 DEF Kept, Base
  <1>6. Own(u, O, OC, Kept(m.r), ToSet(m.r.cl))
    BY <1>1, <1>4, <1>5 DEF Own
  <1>7. Known(d, b, c, n)
    BY <1>1, <1>4 DEF Known
  <1>8. Released(d, b, c, O, OC, n)
    BY <1>1, <1>6, <1>7 DEF Released
  <1> QED
    BY <1>3, <1>8, ClearClustersGood

(* Once the root is written, the old pages are zeroed. *)
LEMMA AfterRootGood ==
  ASSUME NEW d \in [MdPages -> Page], NEW b \in MdPages, NEW m, NEW O, NEW OC, NEW n \in Nat,
         RootOnDisk(d, b, m, O, OC, n)
  PROVE  Good(d, b, AfterRoot(m), O, OC, n)
  <1> DEFINE s == [m.r EXCEPT !.io = "zero", !.left = m.r.clean_pages \cup RootIfDeleted(m.r)]
             z == With(m, s)
  <1>1. /\ Known(d, b, m, n) /\ Written(d, b, m.r) /\ m.r.ver <= n
        /\ Own(m.u, O, OC, Kept(m.r) \cup m.r.clean_pages, ToSet(m.r.cl))
        /\ m.r \in BlobRec /\ m.r.id = b /\ Base(b, m.r)
        /\ m.r.pages \cap m.r.clean_pages = {}
    BY DEF RootOnDisk, Written, Base
  <1>2. RootIfDeleted(m.r) = {}
    BY <1>1 DEF Written, Alive, RootIfDeleted
  <1>3. z.r = s /\ z.u = m.u /\ z.a = m.a
    BY DEF With
  <1>4. AfterRoot(m) = IF s.left = {} THEN blob_persist_zero_pages_cpl(z) ELSE z
    <2>1. blob_persist_zero_pages(m) = z
      BY DEF blob_persist_zero_pages
    <2> HIDE DEF z, s
    <2> QED
      BY <1>3, <2>1 DEF AfterRoot
  <1>5. m.r.clean_pages \subseteq Nat
    BY <1>1, BaseTypes, SizesAssumption DEF MdPages
  <1>6. /\ Alike(m.r, s) /\ s.st = m.r.st /\ s.pages = m.r.pages /\ s.root = m.r.root
        /\ s.io = "zero" /\ s.left = m.r.clean_pages
    BY <1>1, <1>2, <1>5 DEF Alike, BlobRec
  <1> HIDE DEF s, z
  <1>7. Written(d, b, s)
    BY <1>1, <1>6, WrittenAlike DEF Written
  <1>8. /\ MP(s) = Kept(m.r) \cup m.r.clean_pages /\ s.cl = m.r.cl /\ s.ver = m.r.ver
        /\ Kept(s) = Kept(m.r) /\ s.clean_pages = m.r.clean_pages
    BY <1>1, <1>6 DEF MP, Kept, Alike
  <1>9. Known(d, b, z, n)
    BY <1>1, <1>3, <1>6 DEF Known
  <1>10. RootOnDisk(d, b, z, O, OC, n)
    BY <1>1, <1>3, <1>6, <1>7, <1>8, <1>9 DEF RootOnDisk
  <1>11. Mem(d, b, s)
    BY <1>1, <1>6, <1>7, <1>8 DEF Mem, MemZero
  <1>12. Good(d, b, z, O, OC, n)
    BY <1>1, <1>3, <1>8, <1>9, <1>11 DEF Good, GoodMem
  <1> QED
    BY <1>4, <1>10, <1>12, ZeroPagesCplGood

-----------------------------------------------------------------------------
(* Deleting. *)

(* A blob whose root is zeroed, and what clearing the rest of it leads to. *)
Fading(m, O, OC) ==
  /\ m.r \in BlobRec /\ m.r.st = "deleting" /\ ~m.r.pend /\ m.r.num = 0 /\ m.r.nep = 0
  /\ Own(m.u, O, OC, ToSet(m.r.ep), ToSet(m.r.cl))
Faded(m, g, O, OC) ==
  /\ g.a = m.a /\ g.u.ids = m.u.ids
  /\ \/ g.r = NoBlob /\ Own(g.u, O, OC, {}, {})
     \/ DelOK(g.r) /\ Own(g.u, O, OC, ToSet(g.r.ep), ToSet(g.r.cl))

(* All of a sequence comes after its first 0 items. *)
LEMMA ItemsAfterNone ==
  ASSUME NEW T, NEW s \in Seq(T)
  PROVE  ItemsAfter(s, 0) = ToSet(s) /\ SubSeq(s, 1, 0) = <<>> /\ ToSet(SubSeq(s, 1, 0)) = {}
  <1>1. PICK q : q = SubSeq(s, 1, 0)
    OBVIOUS
  <1>2. /\ 0 \in Nat /\ 0 <= Len(s)
    OBVIOUS
  <1>3. q \in Seq(T) /\ Len(q) = 0 /\ ToSet(s) = ToSet(q) \cup ItemsAfter(s, 0)
    BY <1>1, <1>2, PrefixFacts
  <1>4. q = <<>>
    BY <1>3
  <1> QED
    BY <1>1, <1>3, <1>4, EmptyFacts

(* blob_persist_complete of a deleted blob, which is then forgotten. *)
LEMMA FadingComplete ==
  ASSUME NEW m, NEW O, NEW OC, m.r \in BlobRec, m.r.st = "deleting", ~m.r.pend,
         Own(m.u, O, OC, {}, {})
  PROVE  Faded(m, blob_persist_complete(m), O, OC)
  <1> DEFINE s == blob_mark_clean(m.r)
             done == [r |-> s, u |-> m.u, a |-> m.a]
  <1>1. s.st = "deleting" /\ ~s.pend
    BY DEF blob_mark_clean, BlobRec
  <1> HIDE DEF s
  <1>2. blob_persist_complete(m) = Ended(done)
    BY <1>1 DEF blob_persist_complete, s
  <1>3. Ended(done).r = NoBlob /\ Ended(done).u = m.u /\ Ended(done).a = m.a
    BY <1>1 DEF Ended, With
  <1> QED
    BY <1>2, <1>3 DEF Faded

(* The extent pages of a deleted blob are released. *)
LEMMA FadingExtentsCpl ==
  ASSUME NEW m, NEW O, NEW OC, Fading(m, O, OC), m.r.cl = <<>>
  PROVE  Faded(m, blob_persist_clear_extents_cpl(m), O, OC)
  <1> DEFINE s == [m.r EXCEPT !.ep = SubSeq(m.r.ep, 1, m.r.nep)]
             u == [m.u EXCEPT !.md = m.u.md \ ItemsAfter(m.r.ep, m.r.nep)]
             c == [r |-> s, u |-> u, a |-> m.a]
  <1>1. /\ m.r \in BlobRec /\ m.r.st = "deleting" /\ ~m.r.pend /\ m.r.num = 0 /\ m.r.nep = 0
        /\ Own(m.u, O, OC, ToSet(m.r.ep), ToSet(m.r.cl)) /\ m.u \in Masks
    BY DEF Fading, Own
  <1>2. m.r.ep \in Seq(MdPages)
    BY <1>1 DEF BlobRec
  <1>3. ItemsAfter(m.r.ep, m.r.nep) = ToSet(m.r.ep) /\ SubSeq(m.r.ep, 1, m.r.nep) = <<>>
    BY <1>1, <1>2, ItemsAfterNone
  <1>4. blob_persist_clear_extents_cpl(m) = blob_persist_complete(c)
    BY DEF blob_persist_clear_extents_cpl
  <1>5. s \in BlobRec /\ s.st = m.r.st /\ s.pend = m.r.pend
    BY <1>1, <1>3, SMTT(30) DEF BlobRec
  <1>6. u \in Masks /\ u.md = m.u.md \ ToSet(m.r.ep) /\ u.ids = m.u.ids
        /\ u.clusters = m.u.clusters
    BY <1>1, <1>3 DEF Masks
  <1> HIDE DEF s, u
  <1>7. Own(u, O, OC, {}, {})
    BY <1>1, <1>6 DEF Own
  <1>8. Faded(c, blob_persist_complete(c), O, OC)
    BY <1>1, <1>5, <1>7, FadingComplete
  <1> QED
    BY <1>4, <1>6, <1>8 DEF Faded

(* The clusters of a deleted blob are released. *)
LEMMA FadingClustersCpl ==
  ASSUME NEW m, NEW O, NEW OC, Fading(m, O, OC)
  PROVE  Faded(m, blob_persist_clear_clusters_cpl(m), O, OC)
  <1> DEFINE s == [m.r EXCEPT !.cl = SubSeq(m.r.cl, 1, m.r.num)]
             u == [m.u EXCEPT !.clusters = m.u.clusters \ ItemsAfter(m.r.cl, m.r.num)]
             c == [r |-> s, u |-> u, a |-> m.a]
             left == ItemsAfter(m.r.ep, m.r.nep)
             t == [s EXCEPT !.io = "extents", !.left = left]
  <1>1. /\ m.r \in BlobRec /\ m.r.st = "deleting" /\ ~m.r.pend /\ m.r.num = 0 /\ m.r.nep = 0
        /\ Own(m.u, O, OC, ToSet(m.r.ep), ToSet(m.r.cl)) /\ m.u \in Masks
    BY DEF Fading, Own
  <1>2. m.r.ep \in Seq(MdPages) /\ m.r.cl \in Seq(Clusters)
    BY <1>1 DEF BlobRec
  <1>3. /\ left = ToSet(m.r.ep)
        /\ ItemsAfter(m.r.cl, m.r.num) = ToSet(m.r.cl) /\ SubSeq(m.r.cl, 1, m.r.num) = <<>>
    BY <1>1, <1>2, ItemsAfterNone
  <1>4. left \subseteq Nat
    BY <1>2, <1>3, ToSetFacts, SizesAssumption DEF MdPages
  <1>5. /\ s \in BlobRec /\ s.st = m.r.st /\ s.pend = m.r.pend /\ s.ep = m.r.ep /\ s.cl = <<>>
        /\ s.num = m.r.num /\ s.nep = m.r.nep
    <2>1. PICK r \in BlobRec : r = m.r
      BY <1>1
    <2>2. PICK e \in Seq(Clusters) : e = <<>>
      BY EmptySeq
    <2>3. PICK x : x = [r EXCEPT !.cl = e]
      OBVIOUS
    <2>4. x \in BlobRec
      BY <2>3 DEF BlobRec
    <2>5. /\ x.st = r.st /\ x.pend = r.pend /\ x.ep = r.ep /\ x.cl = e
          /\ x.num = r.num /\ x.nep = r.nep
      BY <2>3 DEF BlobRec
    <2>6. x = s
      BY <1>3, <2>1, <2>2, <2>3
    <2> QED
      BY <2>1, <2>2, <2>4, <2>5, <2>6
  <1>6. u \in Masks /\ u.clusters = m.u.clusters \ ToSet(m.r.cl) /\ u.ids = m.u.ids
        /\ u.md = m.u.md
    BY <1>1, <1>3 DEF Masks
  <1> HIDE DEF s, u
  <1>7. blob_persist_clear_clusters_cpl(m) = blob_persist_clear_extents(c)
    BY DEF blob_persist_clear_clusters_cpl, s, u
  <1>8. Own(u, O, OC, ToSet(m.r.ep), {})
    BY <1>1, <1>6 DEF Own
  <1>9. CASE left = {}
    <2>1. blob_persist_clear_extents(c) = blob_persist_complete(c)
      BY <1>5, <1>9 DEF blob_persist_clear_extents
    <2>2. Own(u, O, OC, {}, {})
      BY <1>8 DEF Own
    <2>3. Faded(c, blob_persist_complete(c), O, OC)
      BY <1>1, <1>5, <2>2, FadingComplete
    <2> QED
      BY <1>6, <1>7, <2>1, <2>3 DEF Faded
  <1>10. CASE left # {}
    <2>1. blob_persist_clear_extents(c) = With(c, t)
      BY <1>5, <1>10 DEF blob_persist_clear_extents
    <2> HIDE DEF left
    <2>2. /\ t \in BlobRec /\ t.st = "deleting" /\ ~t.pend /\ t.num = 0 /\ t.nep = 0
          /\ t.io = "extents" /\ t.cl = <<>> /\ t.left = left /\ t.ep = m.r.ep
      BY <1>1, <1>4, <1>5 DEF BlobRec
    <2> HIDE DEF t
    <2>3. DelOK(t)
      BY <1>3, <2>2 DEF DelOK
    <2>4. Own(u, O, OC, ToSet(t.ep), ToSet(t.cl))
      BY <1>8, <2>2, EmptyFacts
    <2> QED
      BY <1>6, <1>7, <2>1, <2>3, <2>4 DEF Faded, With
  <1> QED
    BY <1>9, <1>10

(* blob_persist_clear_clusters of a deleted blob. *)
LEMMA FadingClusters ==
  ASSUME NEW m, NEW O, NEW OC, Fading(m, O, OC)
  PROVE  Faded(m, blob_persist_clear_clusters(m), O, OC)
  <1> DEFINE s == [m.r EXCEPT !.io = "clusters"]
  <1>1. /\ m.r \in BlobRec /\ m.r.st = "deleting" /\ ~m.r.pend /\ m.r.num = 0 /\ m.r.nep = 0
        /\ Own(m.u, O, OC, ToSet(m.r.ep), ToSet(m.r.cl))
    BY DEF Fading
  <1>2. CASE ItemsAfter(m.r.cl, m.r.num) = {}
    BY <1>2, FadingClustersCpl DEF blob_persist_clear_clusters
  <1>3. CASE ItemsAfter(m.r.cl, m.r.num) # {}
    <2>1. blob_persist_clear_clusters(m) = With(m, s)
      BY <1>3 DEF blob_persist_clear_clusters
    <2>2. /\ s \in BlobRec /\ s.st = "deleting" /\ ~s.pend /\ s.num = 0 /\ s.nep = 0
          /\ s.io = "clusters" /\ s.ep = m.r.ep /\ s.cl = m.r.cl
      BY <1>1 DEF BlobRec
    <2> HIDE DEF s
    <2> QED
      BY <1>1, <2>1, <2>2 DEF Faded, With, DelOK
  <1> QED
    BY <1>2, <1>3

(* A blob that is being deleted, and whose root may be on disk. *)
ToDelete(d, b, m, O, OC, n) ==
  /\ Known(d, b, m, n) /\ m.r.ver <= n
  /\ m.r.st = "deleting" /\ ~m.r.pend /\ m.r.num = 0 /\ Unwritten(d, b, m.r) /\ m.r.pages = {}
  /\ Own(m.u, O, OC, Kept(m.r) \cup m.r.clean_pages, ToSet(m.r.cl))

(* The pages of the chain of a deleted blob are released, the root too. *)
LEMMA ZeroPagesCplGone ==
  ASSUME NEW d \in [MdPages -> Page], NEW b \in MdPages, NEW m, NEW O, NEW OC, NEW n \in Nat,
         ToDelete(d, b, m, O, OC, n), ~RootAt(d, b)
  PROVE  Good(d, b, blob_persist_zero_pages_cpl(m), O, OC, n)
  <1> DEFINE u == [m.u EXCEPT !.md = m.u.md \ (m.r.clean_pages \cup RootIfDeleted(m.r))]
             c == [r |-> m.r, u |-> u, a |-> Unknown]
             g == blob_persist_zero_pages_cpl(m)
  <1>1. /\ Known(d, b, m, n) /\ m.r.ver <= n
        /\ m.r.st = "deleting" /\ ~m.r.pend /\ m.r.num = 0 /\ m.r.pages = {}
        /\ Own(m.u, O, OC, Kept(m.r) \cup m.r.clean_pages, ToSet(m.r.cl))
        /\ m.r \in BlobRec /\ m.r.id = b /\ Base(b, m.r) /\ m.u \in Masks
    BY DEF ToDelete, Unwritten, Base, Own
  <1>2. RootIfDeleted(m.r) = {b}
    BY <1>1 DEF RootIfDeleted
  <1>3. g = blob_persist_clear_clusters(c)
    BY <1>1 DEF blob_persist_zero_pages_cpl
  <1>4. u \in Masks /\ u.md = m.u.md \ (m.r.clean_pages \cup {b}) /\ u.ids = m.u.ids
        /\ u.clusters = m.u.clusters
    BY <1>1, <1>2 DEF Masks
  <1> HIDE DEF u
  <1>5. m.r.nep = 0
    BY <1>1, EpCountFacts DEF Base
  <1>6. /\ ToSet(m.r.ep) \subseteq Kept(m.r) /\ b \in Kept(m.r)
        /\ ToSet(m.r.ep) \cap (m.r.clean_pages \cup {b}) = {}
    BY <1>1 DEF Kept, Base
  <1>7. Own(u, O, OC, ToSet(m.r.ep), ToSet(m.r.cl))
    BY <1>1, <1>4, <1>6 DEF Own
  <1>8. Fading(c, O, OC)
    BY <1>1, <1>5, <1>7 DEF Fading
  <1>9. Faded(c, g, O, OC)
    BY <1>3, <1>8, FadingClusters
  <1> HIDE DEF g
  <1>10. ~LoadsAt(d, b)
    BY DEF LoadsAt
  <1>11. DiskPg(d, b) = {} /\ DiskCl(d, b) = {} /\ Closed(d, b)
    BY <1>10 DEF DiskPg, DiskCl, Closed
  <1>12. Known(d, b, g, n)
    <2>1. g.r.st \notin Alive
      BY <1>9 DEF Faded, DelOK, NoBlob, Alive
    <2> QED
      BY <1>1, <1>4, <1>9, <1>10, <2>1 DEF Known, Faded, Ack, Unknown, Doomed, LoadsAt
  <1>13. GoodNone(d, b, g, O, OC) \/ GoodGone(d, b, g, O, OC)
    BY <1>9, <1>11 DEF Faded, GoodNone, GoodGone
  <1> QED
    BY <1>12, <1>13 DEF Good, g

(* A delete zeroes the chain and the root. *)
LEMMA StartGone ==
  ASSUME NEW d \in [MdPages -> Page], NEW b \in MdPages, NEW m, NEW O, NEW OC, NEW n \in Nat,
         ToDelete(d, b, m, O, OC, n)
  PROVE  Good(d, b, blob_persist_start(m), O, OC, n)
  <1> DEFINE s == [[m.r EXCEPT !.dirty = FALSE] EXCEPT
                     !.io = "zero", !.left = m.r.clean_pages \cup RootIfDeleted(m.r)]
             g == blob_persist_start(m)
  <1>1. /\ Known(d, b, m, n) /\ m.r.ver <= n
        /\ m.r.st = "deleting" /\ ~m.r.pend /\ m.r.num = 0 /\ m.r.pages = {}
        /\ Unwritten(d, b, m.r)
        /\ Own(m.u, O, OC, Kept(m.r) \cup m.r.clean_pages, ToSet(m.r.cl))
        /\ m.r \in BlobRec /\ m.r.id = b /\ Base(b, m.r)
    BY DEF ToDelete, Unwritten, Base
  <1>2. RootIfDeleted(m.r) = {b}
    BY <1>1 DEF RootIfDeleted
  <1>3. g.r = s /\ g.u = m.u /\ g.a = m.a
    <2>1. g = blob_persist_zero_pages(With(m, [m.r EXCEPT !.dirty = FALSE]))
      BY <1>1 DEF blob_persist_start
    <2>2. RootIfDeleted([m.r EXCEPT !.dirty = FALSE]) = RootIfDeleted(m.r)
      BY <1>1 DEF RootIfDeleted, BlobRec
    <2>3. [m.r EXCEPT !.dirty = FALSE].clean_pages = m.r.clean_pages
      BY <1>1 DEF BlobRec
    <2> HIDE DEF g
    <2> QED
      BY <2>1, <2>2, <2>3 DEF blob_persist_zero_pages, With
  <1>5. m.r.clean_pages \cup {b} \subseteq Nat
    BY <1>1, BaseTypes, SizesAssumption DEF MdPages
  <1>6. /\ Alike(m.r, s) /\ s.st = m.r.st /\ s.pages = m.r.pages /\ s.pend = m.r.pend
        /\ s.io = "zero" /\ s.left = m.r.clean_pages \cup {b}
    BY <1>1, <1>2, <1>5 DEF Alike, BlobRec
  <1> HIDE DEF s, g
  <1>7. Unwritten(d, b, s)
    BY <1>1, <1>6, UnwrittenAlike
  <1>8. /\ MP(s) = Kept(m.r) \cup m.r.clean_pages /\ s.cl = m.r.cl /\ s.ver = m.r.ver
        /\ s.num = m.r.num /\ s.clean_pages = m.r.clean_pages
    BY <1>1, <1>6 DEF MP, Kept, Alike
  <1>9. Known(d, b, g, n)
    BY <1>1, <1>3, <1>6 DEF Known
  <1>10. MemDying(d, b, s)
    BY <1>1, <1>6, <1>7, <1>8 DEF MemDying
  <1>11. Mem(d, b, s)
    BY <1>6, <1>10 DEF Mem
  <1> QED
    BY <1>1, <1>3, <1>8, <1>9, <1>11 DEF Good, GoodMem, g

-----------------------------------------------------------------------------
(* Calls of the application. *)

(* s is r after a call that changes none of its lists. *)
Tweaked(r, s) ==
  /\ s \in BlobRec /\ s.st \in Alive /\ s.ver >= r.ver
  /\ s.id = r.id /\ s.et = r.et
  /\ s.num = r.num /\ s.cl = r.cl /\ s.nep = r.nep /\ s.ep = r.ep /\ s.pages = r.pages
  /\ s.clean_num = r.clean_num /\ s.clean_nep = r.clean_nep /\ s.clean_pages = r.clean_pages
  /\ s.io = r.io /\ s.left = r.left /\ s.root = r.root /\ s.chain = r.chain /\ s.extent = r.extent

(* A change of the flags of a blob, or of its version, keeps its invariant at *)
(* any point of a persist.                                                    *)
LEMMA MemTweaked ==
  ASSUME NEW d \in [MdPages -> Page], NEW b \in MdPages, NEW r, NEW s, Mem(d, b, r),
         r.st \in Alive, Tweaked(r, s)
  PROVE  Mem(d, b, s) /\ MP(s) = MP(r) /\ s.cl = r.cl
  <1>1. Base(b, r)
    BY MemShape
  <1>2. r.ver \in Nat /\ s.ver \in Nat /\ s.ver >= r.ver /\ s.st \in Alive /\ s.st # "deleting"
        /\ r.st # "deleting"
    BY <1>1, BaseTypes DEF Tweaked, BlobRec, Alive
  <1>3. Base(b, s)
    BY <1>1 DEF Base, Tweaked
  <1>4. RootAt(d, b) => d[b].ver \in Nat
    BY PageTypes DEF RootAt
  <1>5. \A n, ne, pages, bound :
          OnDisk(d, b, r, n, ne, pages, bound) => OnDisk(d, b, s, n, ne, pages, bound)
    BY OnDiskAlike DEF Tweaked
  <1>6. /\ \A i : Ready(d, b, r, i) => Ready(d, b, s, i)
        /\ blob_serialize(s) = blob_serialize(r)
    BY FitAlike DEF Tweaked
  <1>7. Unwritten(d, b, r) => Unwritten(d, b, s)
    <2> SUFFICES ASSUME Unwritten(d, b, r) PROVE Unwritten(d, b, s)
      OBVIOUS
    <2>1. OnDisk(d, b, s, s.clean_num, s.clean_nep, s.clean_pages, Len(s.cl))
      BY <1>5 DEF Unwritten, Tweaked
    <2>2. RootAt(d, b) => d[b].ver <= s.ver
      BY <1>2, <1>4 DEF Unwritten
    <2>3. RootAt(d, b) => LoadsAt(d, b)
      BY <1>2 DEF Unwritten
    <2> QED
      BY <1>3, <2>1, <2>2, <2>3 DEF Unwritten
  <1>8. Written(d, b, r) => Written(d, b, s)
    <2> SUFFICES ASSUME Written(d, b, r) PROVE Written(d, b, s)
      OBVIOUS
    <2>1. OnDisk(d, b, s, s.num, s.nep, s.pages, s.num)
      BY <1>5 DEF Written, Tweaked
    <2>2. LoadsAt(d, b) /\ d[b].ver = s.root.ver /\ d[b].ver <= s.ver
      BY <1>2, <1>4 DEF Written, Tweaked, LoadsAt
    <2> QED
      BY <1>2, <1>3, <2>1, <2>2 DEF Written
  <1>9. Idle(d, b, r) => Idle(d, b, s)
    BY <1>2, <1>7 DEF Idle, Tweaked
  <1>10. MemExtent(d, b, r) => MemExtent(d, b, s)
    BY <1>6, <1>9 DEF MemExtent, ExtentStaged, Tweaked
  <1>11. ASSUME MemStaged(d, b, r) PROVE MemStaged(d, b, s)
    <2>1. Ready(d, b, s, s.nep + 1) /\ Unwritten(d, b, s) /\ s.pages \cap s.clean_pages = {}
      BY <1>6, <1>7, <1>11 DEF MemStaged, Tweaked
    <2>2. s.root.ver <= s.ver
      <3>1. r.root.ver \in Nat /\ r.root.ver <= r.ver /\ s.root = r.root
        <4>1. r.root \in Page
          BY <1>1 DEF Base, BlobRec
        <4>3. Staged(d, b, r)
          BY <1>11 DEF MemStaged
        <4>4. \E v, p, body : r.root = RootPage(b, v, p, body)
          BY <4>3 DEF Staged
        <4>5. r.root.ver <= r.ver
          BY <4>3 DEF Staged
        <4>2. r.root.kind = "root" /\ r.root.ver <= r.ver
          BY <4>4, <4>5 DEF RootPage
        <4> QED
          BY <4>1, <4>2 DEF Page, ZeroPage, Tweaked
      <3> QED
        BY <1>2, <3>1
    <2>3. Staged(d, b, s)
      BY <1>6, <1>11, <2>2 DEF MemStaged, Staged, Tweaked
    <2> QED
      BY <1>2, <2>1, <2>3 DEF MemStaged
  <1>12. MemZero(d, b, r) => MemZero(d, b, s)
    BY <1>8 DEF MemZero, Tweaked
  <1>13. ~MemDying(d, b, r)
    BY <1>2 DEF MemDying
  <1>14. Mem(d, b, s)
    BY <1>8, <1>9, <1>10, <1>11, <1>12, <1>13 DEF Mem, Tweaked
  <1>15. MP(s) = MP(r) /\ s.cl = r.cl
    BY DEF MP, Tweaked
  <1> QED
    BY <1>14, <1>15

(* blob_persist of a blob that is not being deleted. *)
LEMMA PersistGood ==
  ASSUME NEW d \in [MdPages -> Page], NEW b \in MdPages, NEW m, NEW O, NEW OC, NEW n \in Nat,
         ToPersist(d, b, m, O, OC, n), m.r.io = "idle", clean \in BOOLEAN
  PROVE  /\ Good(d, b, blob_persist(m), O, OC, n)
         /\ clean => blob_persist(m).r = NoBlob \/ blob_persist(m).r.io \in {"idle", "super"}
  <1> DEFINE s == [m.r EXCEPT !.io = "super"]
             g == blob_persist(m)
  <1>1. /\ Known(d, b, m, n) /\ Idle(d, b, m.r) /\ Unwritten(d, b, m.r) /\ m.r.ver <= n
        /\ Own(m.u, O, OC, Kept(m.r), ToSet(m.r.cl))
        /\ m.r \in BlobRec /\ m.r.st \in Alive /\ m.r.pages = m.r.clean_pages /\ Base(b, m.r)
    BY DEF ToPersist, Idle, Unwritten, Base
  <1>2. CASE ~m.r.dirty
    <2>1. g = Ended(m)
      BY <1>2 DEF blob_persist
    <2>2. Ended(m).r = NoBlob \/ Ended(m).r.io = "idle"
      BY <1>1 DEF Ended, With, BlobRec
    <2> QED
      BY <2>1, <2>2, EndedGood
  <1>3. CASE m.r.dirty /\ ~clean
    BY <1>3, StartGood DEF blob_persist, bs_mark_dirty
  <1>4. CASE m.r.dirty /\ clean
    <2>1. g = With(m, s)
      BY <1>4 DEF blob_persist, bs_mark_dirty
    <2>2. /\ Alike(m.r, s) /\ s.st = m.r.st /\ s.pages = m.r.pages /\ s.io = "super"
      BY <1>1 DEF Alike, BlobRec
    <2> HIDE DEF s
    <2>3. s.pages \cap ({b} \cup ToSet(m.r.ep)) = {}
      BY <1>1, <2>2 DEF Base
    <2>4. Unwritten(d, b, s)
      BY <1>1, <2>2, <2>3, UnwrittenAlike
    <2>5. Idle(d, b, s) /\ Mem(d, b, s)
      BY <1>1, <2>2, <2>4 DEF Idle, Mem, Alike
    <2>6. MP(s) = Kept(m.r) /\ s.cl = m.r.cl /\ s.ver = m.r.ver
      BY <1>1, <2>2 DEF MP, Kept, Alike
    <2>7. GoodMem(d, b, With(m, s), O, OC, n)
      BY <1>1, <2>5, <2>6 DEF GoodMem, With
    <2>8. Known(d, b, With(m, s), n)
      BY <1>1, <2>2 DEF Known, With
    <2> QED
      BY <2>1, <2>2, <2>7, <2>8 DEF Good, With
  <1> QED
    BY <1>2, <1>3, <1>4

(* blob_persist of a blob that is being deleted. *)
LEMMA PersistGone ==
  ASSUME NEW d \in [MdPages -> Page], NEW b \in MdPages, NEW m, NEW O, NEW OC, NEW n \in Nat,
         ToDelete(d, b, m, O, OC, n), m.r.io = "idle", m.r.dirty, clean \in BOOLEAN
  PROVE  /\ Good(d, b, blob_persist(m), O, OC, n)
         /\ clean => blob_persist(m).r = NoBlob \/ blob_persist(m).r.io \in {"idle", "super"}
  <1> DEFINE s == [m.r EXCEPT !.io = "super"]
             g == blob_persist(m)
  <1>1. /\ Known(d, b, m, n) /\ m.r.ver <= n
        /\ m.r.st = "deleting" /\ ~m.r.pend /\ m.r.num = 0 /\ m.r.pages = {}
        /\ Unwritten(d, b, m.r)
        /\ Own(m.u, O, OC, Kept(m.r) \cup m.r.clean_pages, ToSet(m.r.cl))
        /\ m.r \in BlobRec /\ m.r.id = b /\ Base(b, m.r)
    BY DEF ToDelete, Unwritten, Base
  <1>3. CASE ~clean
    BY <1>3, StartGone DEF blob_persist, bs_mark_dirty
  <1>4. CASE clean
    <2>1. g = With(m, s)
      BY <1>4 DEF blob_persist, bs_mark_dirty
    <2>2. /\ Alike(m.r, s) /\ s.st = m.r.st /\ s.pages = m.r.pages /\ s.io = "super" /\ s.pend = m.r.pend
      BY <1>1 DEF Alike, BlobRec
    <2> HIDE DEF s
    <2>4. Unwritten(d, b, s)
      BY <1>1, <2>2, UnwrittenAlike
    <2>5. MemDying(d, b, s)
      BY <1>1, <2>2, <2>4 DEF MemDying, Alike
    <2>6. MP(s) = Kept(m.r) \cup m.r.clean_pages /\ s.cl = m.r.cl /\ s.ver = m.r.ver
      BY <1>1, <2>2 DEF MP, Kept, Alike
    <2>7. GoodMem(d, b, With(m, s), O, OC, n)
      BY <1>1, <2>2, <2>5, <2>6 DEF GoodMem, With, Mem
    <2>8. Known(d, b, With(m, s), n)
      BY <1>1, <2>2 DEF Known, With
    <2> QED
      BY <2>1, <2>2, <2>7, <2>8 DEF Good, With
  <1> QED
    BY <1>3, <1>4

(* What a resize from m to g changes. *)
Resized(b, m, g, sz, O, OC) ==
  /\ Base(b, g.r) /\ Own(g.u, O, OC, Kept(g.r) \cup g.r.clean_pages, ToSet(g.r.cl))
  /\ g.u.ids = m.u.ids /\ g.a = m.a /\ g.r.dirty /\ g.r.num = sz
  /\ \E cl \in Seq(Clusters), ep \in Seq(MdPages) :
       g.r.cl = m.r.cl \o cl /\ g.r.ep = m.r.ep \o ep
  /\ g.r.st = m.r.st /\ g.r.et = m.r.et /\ g.r.ver = m.r.ver /\ g.r.pages = m.r.pages
  /\ g.r.clean_num = m.r.clean_num /\ g.r.clean_nep = m.r.clean_nep
  /\ g.r.clean_pages = m.r.clean_pages /\ g.r.io = m.r.io /\ g.r.pend = m.r.pend

(* blob_resize appends free clusters and extent pages to the lists. *)
LEMMA ResizeFacts ==
  ASSUME NEW b \in MdPages, NEW m, NEW O, NEW OC, Base(b, m.r), NEW sz \in Nat,
         Own(m.u, O, OC, Kept(m.r) \cup m.r.clean_pages, ToSet(m.r.cl)),
         CanResize(m.r, m.u, sz)
  PROVE  \E g : g = blob_resize(m, sz) /\ Resized(b, m, g, sz, O, OC)
  <1> DEFINE cl == FirstFree(FreeClusters(m.u), MissingCl(m.r, sz))
             ep == FirstFree(FreeExtentPages(m.u), MissingEp(m.r, sz))
             s == [m.r EXCEPT !.num = sz, !.nep = IF m.r.et THEN ExtentPages(sz) ELSE 0,
                              !.cl = m.r.cl \o cl, !.ep = m.r.ep \o ep, !.dirty = TRUE]
             u == [m.u EXCEPT !.clusters = @ \cup ToSet(cl), !.md = @ \cup ToSet(ep)]
             g == blob_resize(m, sz)
  <1>1. /\ m.r \in BlobRec /\ m.r.id = b /\ m.u \in Masks
        /\ m.r.cl \in Seq(Clusters) /\ m.r.ep \in Seq(MdPages) /\ m.r.et \in BOOLEAN
        /\ Len(m.r.cl) \in Nat /\ Len(m.r.ep) \in Nat
        /\ IsInjective(m.r.cl) /\ IsInjective(m.r.ep)
    BY BaseTypes DEF Base, Own
  <1>2. g = [r |-> s, u |-> u, a |-> m.a]
    BY DEF blob_resize
  <1>3. ExtentPages(sz) \in Nat
    BY ExtentPagesFacts
  <1>4. /\ FreeClusters(m.u) \subseteq Clusters /\ FreeClusters(m.u) \cap m.u.clusters = {}
        /\ FreeExtentPages(m.u) \subseteq MdPages /\ FreeExtentPages(m.u) \cap m.u.md = {}
    BY DEF FreeClusters, FreeExtentPages
  <1>5. IsFiniteSet(Clusters) /\ Clusters \subseteq Nat /\ IsFiniteSet(MdPages) /\ MdPages \subseteq Nat
    BY SizesAssumption, FS_Interval DEF Clusters, MdPages
  <1>6. IsFiniteSet(FreeClusters(m.u)) /\ IsFiniteSet(FreeExtentPages(m.u))
    BY <1>4, <1>5, FS_Subset
  <1>7. /\ MissingCl(m.r, sz) \in Nat /\ MissingEp(m.r, sz) \in Nat
        /\ sz <= Len(m.r.cl) + MissingCl(m.r, sz)
        /\ m.r.et => ExtentPages(sz) <= Len(m.r.ep) + MissingEp(m.r, sz)
        /\ ~m.r.et => MissingEp(m.r, sz) = 0
    <2>1. PICK e \in Nat, x \in Nat, y \in Nat :
            e = ExtentPages(sz) /\ x = Len(m.r.cl) /\ y = Len(m.r.ep)
      BY <1>1, <1>3
    <2>6. MissingCl(m.r, sz) = IF sz > x THEN sz - x ELSE 0
      BY <2>1 DEF MissingCl
    <2>2. MissingCl(m.r, sz) \in Nat /\ sz <= x + MissingCl(m.r, sz)
      BY <2>6
    <2>3. ~m.r.et => MissingEp(m.r, sz) = 0
      BY DEF MissingEp
    <2>4. m.r.et => MissingEp(m.r, sz) = IF e > y THEN e - y ELSE 0
      BY <2>1 DEF MissingEp
    <2>5. m.r.et => MissingEp(m.r, sz) \in Nat /\ e <= y + MissingEp(m.r, sz)
      BY <2>4
    <2> QED
      BY <1>1, <2>1, <2>2, <2>3, <2>5
  <1>8. /\ cl \in Seq(FreeClusters(m.u)) /\ Len(cl) = MissingCl(m.r, sz) /\ IsInjective(cl)
    <2>1. FreeClusters(m.u) \in SUBSET Nat /\ MissingCl(m.r, sz) <= Cardinality(FreeClusters(m.u))
      BY <1>4, <1>5 DEF CanResize
    <2> QED
      BY <1>6, <1>7, <2>1, FirstFreeFacts
  <1>9. /\ ep \in Seq(FreeExtentPages(m.u)) /\ Len(ep) = MissingEp(m.r, sz) /\ IsInjective(ep)
    <2>1. FreeExtentPages(m.u) \in SUBSET Nat /\ MissingEp(m.r, sz) <= Cardinality(FreeExtentPages(m.u))
      BY <1>4, <1>5 DEF CanResize
    <2> QED
      BY <1>6, <1>7, <2>1, FirstFreeFacts
  <1> HIDE DEF g, cl, ep
  <1>10. ToSet(cl) \subseteq FreeClusters(m.u) /\ ToSet(ep) \subseteq FreeExtentPages(m.u)
    BY <1>8, <1>9, ToSetFacts
  <1>11. cl \in Seq(Clusters) /\ ep \in Seq(MdPages)
    BY <1>4, <1>8, <1>9
  <1>12. /\ m.r.cl \o cl \in Seq(Clusters) /\ Len(m.r.cl \o cl) = Len(m.r.cl) + Len(cl)
         /\ ToSet(m.r.cl \o cl) = ToSet(m.r.cl) \cup ToSet(cl)
         /\ ToSet(m.r.cl) \cap ToSet(cl) = {} => IsInjective(m.r.cl \o cl)
    <2>1. PICK x \in Seq(Clusters), y \in Seq(Clusters) : x = m.r.cl /\ y = cl
      BY <1>1, <1>11
    <2>2. IsInjective(x) /\ IsInjective(y)
      BY <1>1, <1>8, <2>1
    <2>3. /\ x \o y \in Seq(Clusters) /\ Len(x \o y) = Len(x) + Len(y)
          /\ ToSet(x \o y) = ToSet(x) \cup ToSet(y)
          /\ ToSet(x) \cap ToSet(y) = {} => IsInjective(x \o y)
      BY <2>2, ConcatFacts
    <2> QED
      BY <2>1, <2>3
  <1>13. /\ m.r.ep \o ep \in Seq(MdPages) /\ Len(m.r.ep \o ep) = Len(m.r.ep) + Len(ep)
         /\ ToSet(m.r.ep \o ep) = ToSet(m.r.ep) \cup ToSet(ep)
         /\ ToSet(m.r.ep) \cap ToSet(ep) = {} => IsInjective(m.r.ep \o ep)
    <2>1. PICK x \in Seq(MdPages), y \in Seq(MdPages) : x = m.r.ep /\ y = ep
      BY <1>1, <1>11
    <2>2. IsInjective(x) /\ IsInjective(y)
      BY <1>1, <1>9, <2>1
    <2>3. /\ x \o y \in Seq(MdPages) /\ Len(x \o y) = Len(x) + Len(y)
          /\ ToSet(x \o y) = ToSet(x) \cup ToSet(y)
          /\ ToSet(x) \cap ToSet(y) = {} => IsInjective(x \o y)
      BY <2>2, ConcatFacts
    <2> QED
      BY <2>1, <2>3
  <1>14. /\ s \in BlobRec
         /\ s.num = sz /\ s.nep = EpCount(m.r.et, sz) /\ s.cl = m.r.cl \o cl /\ s.ep = m.r.ep \o ep
         /\ s.dirty /\ s.st = m.r.st /\ s.et = m.r.et /\ s.ver = m.r.ver /\ s.pages = m.r.pages
         /\ s.clean_num = m.r.clean_num /\ s.clean_nep = m.r.clean_nep
         /\ s.clean_pages = m.r.clean_pages /\ s.io = m.r.io /\ s.pend = m.r.pend /\ s.id = b
    BY <1>1, <1>3, <1>12, <1>13 DEF BlobRec, EpCount
  <1>15. /\ u \in Masks /\ u.ids = m.u.ids
         /\ u.clusters = m.u.clusters \cup ToSet(cl) /\ u.md = m.u.md \cup ToSet(ep)
    BY <1>1, <1>4, <1>10 DEF Masks
  <1> HIDE DEF s, u
  <1>16. /\ ToSet(cl) \cap m.u.clusters = {} /\ ToSet(ep) \cap m.u.md = {}
    BY <1>4, <1>10
  <1>17. /\ Kept(m.r) \cup m.r.clean_pages \subseteq m.u.md /\ ToSet(m.r.cl) \subseteq m.u.clusters
    BY DEF Own
  <1>18. /\ ToSet(m.r.cl) \cap ToSet(cl) = {} /\ ToSet(m.r.ep) \cap ToSet(ep) = {}
         /\ b \notin ToSet(ep) /\ (m.r.pages \cup m.r.clean_pages) \cap ToSet(ep) = {}
    BY <1>1, <1>16, <1>17 DEF Kept
  <1>19. Base(b, s)
    <2>1. s.num <= Len(s.cl)
      BY <1>7, <1>8, <1>12, <1>14
    <2>2. s.nep <= Len(s.ep)
      BY <1>1, <1>7, <1>9, <1>13, <1>14 DEF EpCount
    <2>3. s.et \/ s.ep = <<>>
      <3> SUFFICES ASSUME ~m.r.et PROVE s.ep = <<>>
        BY <1>14
      <3>1. Len(m.r.ep) = 0
        BY EmptyFacts DEF Base
      <3>3. Len(ep) = 0
        BY <1>7, <1>9
      <3>4. Len(m.r.ep \o ep) = 0
        BY <1>13, <3>1, <3>3
      <3>2. Len(s.ep) = 0 /\ s.ep \in Seq(MdPages)
        BY <1>13, <1>14, <3>4
      <3> QED
        BY <3>2
    <2>4. /\ s.clean_nep = EpCount(s.et, s.clean_num) /\ b \notin ToSet(m.r.ep)
          /\ (m.r.pages \cup m.r.clean_pages) \cap ({b} \cup ToSet(m.r.ep)) = {}
      BY <1>14 DEF Base
    <2>5. b \notin ToSet(s.ep) /\ (s.pages \cup s.clean_pages) \cap ({b} \cup ToSet(s.ep)) = {}
      BY <1>13, <1>14, <1>18, <2>4
    <2> QED
      BY <1>12, <1>13, <1>14, <1>18, <2>1, <2>2, <2>3, <2>4, <2>5 DEF Base
  <1>20. Kept(s) \cup s.clean_pages = Kept(m.r) \cup m.r.clean_pages \cup ToSet(ep)
    BY <1>1, <1>13, <1>14 DEF Kept
  <1>21. Own(u, O, OC, Kept(s) \cup s.clean_pages, ToSet(s.cl))
    BY <1>12, <1>14, <1>15, <1>16, <1>17, <1>20 DEF Own
  <1>22. g.r = s /\ g.u = u /\ g.a = m.a /\ g = blob_resize(m, sz)
    BY <1>2 DEF g
  <1> HIDE DEF g
  <1> QED
    BY <1>11, <1>14, <1>15, <1>19, <1>21, <1>22 DEF Resized

(* The disk still has the clean state of a blob that was resized. *)
LEMMA UnwrittenLonger ==
  ASSUME NEW d \in [MdPages -> Page], NEW b \in MdPages, NEW r, NEW s, Unwritten(d, b, r), Base(b, s),
         NEW cl \in Seq(Clusters), NEW ep \in Seq(MdPages), s.cl = r.cl \o cl, s.ep = r.ep \o ep,
         s.st = r.st, s.et = r.et, s.ver >= r.ver,
         s.clean_num = r.clean_num, s.clean_nep = r.clean_nep, s.clean_pages = r.clean_pages
  PROVE  Unwritten(d, b, s)
  <1>1. /\ Base(b, r) /\ OnDisk(d, b, r, r.clean_num, r.clean_nep, r.clean_pages, Len(r.cl))
        /\ RootAt(d, b) => d[b].ver <= r.ver
        /\ RootAt(d, b) /\ r.st # "deleting" => LoadsAt(d, b)
    BY DEF Unwritten
  <1>2. /\ r.cl \in Seq(Clusters) /\ r.ep \in Seq(MdPages) /\ Len(r.cl) \in Nat /\ Len(r.ep) \in Nat
        /\ r.clean_num \in Nat /\ r.clean_nep \in Nat /\ r.ver \in Nat /\ s.ver \in Nat
    BY <1>1, BaseTypes
  <1>3. /\ r.clean_num <= Len(r.cl) /\ r.clean_nep <= Len(r.ep)
        /\ LoadsAt(d, b) => /\ ChainAt(d, b) \subseteq r.clean_pages
                            /\ BodyAt(d, b) = Serial(r, r.clean_num, r.clean_nep)
        /\ \A j \in 1 .. r.clean_nep : Fit(d, b, r, j, Len(r.cl))
    BY <1>1 DEF OnDisk
  <1>4. /\ Len(s.cl) = Len(r.cl) + Len(cl) /\ \A i \in 1 .. Len(r.cl) : s.cl[i] = r.cl[i]
        /\ \A n \in 0 .. Len(r.cl) : SubSeq(s.cl, 1, n) = SubSeq(r.cl, 1, n)
    BY <1>2, ConcatFacts
  <1>5. /\ Len(s.ep) = Len(r.ep) + Len(ep) /\ \A i \in 1 .. Len(r.ep) : s.ep[i] = r.ep[i]
        /\ \A n \in 0 .. Len(r.ep) : SubSeq(s.ep, 1, n) = SubSeq(r.ep, 1, n)
    BY <1>2, ConcatFacts
  <1>6. Len(cl) \in Nat /\ Len(ep) \in Nat
    OBVIOUS
  <1>7. Serial(s, r.clean_num, r.clean_nep) = Serial(r, r.clean_num, r.clean_nep)
    <2>1. r.clean_num \in 0 .. Len(r.cl) /\ r.clean_nep \in 0 .. Len(r.ep)
      BY <1>2, <1>3
    <2>2. /\ SubSeq(s.cl, 1, r.clean_num) = SubSeq(r.cl, 1, r.clean_num)
          /\ SubSeq(s.ep, 1, r.clean_nep) = SubSeq(r.ep, 1, r.clean_nep)
      BY <1>4, <1>5, <2>1
    <2> QED
      BY <2>2 DEF Serial
  <1>8. ASSUME NEW j \in 1 .. r.clean_nep PROVE Fit(d, b, s, j, Len(s.cl))
    <2>1. PICK q : q = d[r.ep[j]]
      OBVIOUS
    <2>2. PICK x \in Nat : x = (j - 1) * ExtentsPerEp
      BY SizesAssumption
    <2>3. Fit(d, b, r, j, Len(r.cl))
      BY <1>3
    <2>4. /\ q.kind = "extent" /\ q.id = b /\ q.start = x /\ Len(q.cl) <= ExtentsPerEp
          /\ \A k \in 1 .. Len(q.cl) : x + k <= Len(r.cl) /\ q.cl[k] = r.cl[x + k]
      BY <2>1, <2>2, <2>3 DEF Fit
    <2>5. r.ep[j] \in MdPages /\ j \in 1 .. Len(r.ep)
      BY <1>2, <1>3, ToSetFacts
    <2>6. q.cl \in Seq(Clusters)
      BY <2>1, <2>4, <2>5, PageTypes
    <2>10. Len(q.cl) \in Nat
      BY <2>6
    <2>7. \A k \in 1 .. Len(q.cl) : x + k \in 1 .. Len(r.cl) /\ x + k <= Len(s.cl)
      BY <1>2, <1>4, <1>6, <2>4, <2>10
    <2>8. \A k \in 1 .. Len(q.cl) : q.cl[k] = s.cl[x + k]
      BY <1>4, <2>4, <2>7
    <2>9. q = d[s.ep[j]]
      BY <1>5, <2>1, <2>5
    <2> QED
      BY <2>2, <2>4, <2>7, <2>8, <2>9 DEF Fit
  <1>9. r.clean_num <= Len(s.cl) /\ r.clean_nep <= Len(s.ep)
    BY <1>2, <1>3, <1>4, <1>5, <1>6
  <1>10. OnDisk(d, b, s, s.clean_num, s.clean_nep, s.clean_pages, Len(s.cl))
    BY <1>3, <1>7, <1>8, <1>9 DEF OnDisk
  <1>11. RootAt(d, b) => d[b].ver <= s.ver
    <2>1. RootAt(d, b) => d[b].ver \in Nat
      BY PageTypes DEF RootAt
    <2> QED
      BY <1>1, <1>2, <2>1
  <1> QED
    BY <1>1, <1>10, <1>11 DEF Unwritten

(* Extent pages that load are full but for the last, and blob_load puts    *)
(* their clusters one after the other.                                     *)
LEMMA ListedFacts ==
  ASSUME disk \in [MdPages -> Page], NEW b \in MdPages, NEW ep \in Seq(MdPages),
         \A i \in DOMAIN ep : ExtentOf(disk[ep[i]], b, i),
         \A i, j \in DOMAIN ep : i # j => ToSet(disk[ep[i]].cl) \cap ToSet(disk[ep[j]].cl) = {},
         ExtentsLoad(ep)
  PROVE  /\ ListedClusters(ep) \in Seq(Clusters) /\ IsInjective(ListedClusters(ep))
         /\ Len(ListedClusters(ep)) \in Nat
         /\ ExtentPages(Len(ListedClusters(ep))) = Len(ep)
         /\ \A i \in 1 .. Len(ep) : \A x \in 1 .. Len(disk[ep[i]].cl) :
              /\ (i - 1) * ExtentsPerEp + x <= Len(ListedClusters(ep))
              /\ disk[ep[i]].cl[x] = ListedClusters(ep)[(i - 1) * ExtentsPerEp + x]
         /\ \A y \in ToSet(ListedClusters(ep)) : \E i \in 1 .. Len(ep) : y \in ToSet(disk[ep[i]].cl)
  <1> DEFINE E == ExtentsPerEp
             C(i) == disk[ep[i]].cl
             K == Len(ep)
             N == IF ep = <<>> THEN 0 ELSE Ends(ep[K])
             Here(i, k) == (i - 1) * E < k /\ k <= (i - 1) * E + Len(C(i))
             L == ListedClusters(ep)
  <1>1. E \in Nat \ {0} /\ K \in Nat /\ DOMAIN ep = 1 .. K /\ \A i \in 1 .. K : ep[i] \in MdPages
    BY SizesAssumption
  <1> HIDE DEF K
  <1>2. ASSUME NEW i \in 1 .. K
        PROVE  /\ C(i) \in Seq(Clusters) /\ Len(C(i)) \in 1 .. E /\ IsInjective(C(i))
               /\ disk[ep[i]].start = (i - 1) * E /\ Ends(ep[i]) = (i - 1) * E + Len(C(i))
               /\ (i - 1) * E \in Nat
    <2>1. /\ disk[ep[i]].kind = "extent" /\ disk[ep[i]].start = (i - 1) * E
          /\ Len(C(i)) <= E /\ IsInjective(C(i))
      BY <1>1 DEF ExtentOf
    <2>2. C(i) \in Seq(Clusters) /\ C(i) # <<>>
      BY <1>1, <2>1, PageTypes DEF ExtentsLoad
    <2>5. C(i) = disk[ep[i]].cl
      OBVIOUS
    <2> HIDE DEF C
    <2>3. Len(C(i)) \in Nat /\ Len(C(i)) # 0
      BY <2>2
    <2>4. (i - 1) * E \in Nat
      BY <1>1
    <2> QED
      BY <1>1, <2>1, <2>2, <2>3, <2>4, <2>5 DEF Ends
  <1>3. ASSUME NEW i \in 1 .. K, i < K PROVE Len(C(i)) = E
    <2>1. i + 1 \in 1 .. K /\ i + 1 # 1 /\ (i + 1) - 1 = i
      BY <1>1, <1>3
    <2>2. disk[ep[i + 1]].start = Ends(ep[i])
      BY <1>1, <2>1 DEF ExtentsLoad
    <2>3. disk[ep[i + 1]].start = i * E /\ Ends(ep[i]) = (i - 1) * E + Len(C(i))
          /\ Len(C(i)) \in 1 .. E
      BY <1>2, <2>1
    <2> HIDE DEF C
    <2>4. PICK x \in Nat : x = (i - 1) * E
      BY <1>1
    <2>5. i * E = x + E
      BY <1>1, <2>4
    <2>7. PICK e \in Nat : e = E
      BY <1>1
    <2>8. PICK y \in Nat : y = Len(C(i))
      BY <2>3, <2>7
    <2>9. disk[ep[i + 1]].start = x + e
      BY <2>3, <2>5, <2>7
    <2>10. disk[ep[i + 1]].start = x + y
      BY <2>2, <2>3, <2>4, <2>8
    <2>6. x + E = x + Len(C(i)) /\ Len(C(i)) \in Nat
      BY <2>7, <2>8, <2>9, <2>10
    <2> QED
      BY <1>1, <2>6
  <1>4. N \in Nat /\ (K = 0 => N = 0) /\ (K # 0 => N = (K - 1) * E + Len(C(K)))
    <2>1. K = 0 <=> ep = <<>>
      BY DEF K
    <2>2. CASE K = 0
      BY <2>1, <2>2
    <2>3. CASE K # 0
      <3>1. K \in 1 .. K
        BY <1>1, <2>3
      <3>2. /\ Ends(ep[K]) = (K - 1) * E + Len(C(K)) /\ Len(C(K)) \in 1 .. E
            /\ (K - 1) * E \in Nat
        BY <1>2, <3>1
      <3>3. PICK x \in Nat, y \in Nat : x = (K - 1) * E /\ y = Len(C(K))
        BY <3>2
      <3>4. N = x + y
        BY <2>1, <2>3, <3>2, <3>3
      <3> QED
        BY <2>3, <3>3, <3>4
    <2> QED
      BY <2>2, <2>3
  <1> HIDE DEF N
  <1>5. ExtentPages(N) = K
    <2>1. CASE K = 0
      BY <1>4, <2>1, ExtentPagesFacts
    <2>2. CASE K # 0
      <3>1. K \in 1 .. K
        BY <1>1, <2>2
      <3>2. PICK x \in 1 .. E : x = Len(C(K))
        BY <1>2, <3>1
      <3>3. N = (K - 1) * E + x
        BY <1>4, <2>2, <3>2
      <3>4. N <= K * E /\ (K - 1) * E < N
        BY <1>1, <3>3
      <3> QED
        BY <1>1, <1>4, <2>2, <3>4, ExtentPagesIs
    <2> QED
      BY <2>1, <2>2
  <1>6. ASSUME NEW k \in 1 .. N PROVE \E i \in 1 .. K : Here(i, k)
    <2>0. k \in Nat /\ k > 0 /\ k <= N
      BY <1>4
    <2>1. PICK i \in Nat : i = ExtentPages(k)
      BY <2>0, ExtentPagesFacts
    <2>2. k <= i * E /\ (i - 1) * E < k /\ i # 0
      BY <2>0, <2>1, ExtentPagesFacts
    <2>3. i <= K
      BY <1>4, <1>5, <2>0, <2>1, ExtentPagesMonotone
    <2>4. i \in 1 .. K
      BY <1>1, <2>2, <2>3
    <2>5. CASE i < K
      <3>1. Len(C(i)) = E
        BY <1>3, <2>4, <2>5
      <3>2. i * E = (i - 1) * E + E
        BY <1>1
      <3> QED
        BY <2>2, <2>4, <3>1, <3>2
    <2>6. CASE i = K
      <3>1. N = (i - 1) * E + Len(C(i))
        BY <1>4, <2>2, <2>6
      <3> QED
        BY <2>2, <2>4, <3>1
    <2>7. i < K \/ i = K
      BY <1>1, <2>3
    <2> QED
      BY <2>5, <2>6, <2>7
  <1>7. ASSUME NEW i \in 1 .. K, NEW j \in 1 .. K, NEW k \in Nat, Here(i, k), Here(j, k)
        PROVE  i = j
    <2>1. PICK x \in 1 .. E, y \in 1 .. E : x = Len(C(i)) /\ y = Len(C(j))
      BY <1>2
    <2>2. (i - 1) * E < k /\ k <= (i - 1) * E + x /\ (j - 1) * E < k /\ k <= (j - 1) * E + y
      BY <1>7, <2>1
    <2> QED
      BY <1>1, <2>2
  <1>8. ASSUME NEW i \in 1 .. K, NEW x \in 1 .. Len(C(i))
        PROVE  (i - 1) * E + x \in 1 .. N /\ Here(i, (i - 1) * E + x)
    <2>1. Len(C(i)) \in 1 .. E /\ (i - 1) * E \in Nat
      BY <1>2
    <2>2. Here(i, (i - 1) * E + x)
      BY <2>1
    <2>3. CASE i < K
      <3>0. K \in 1 .. K /\ K # 0
        BY <1>1, <2>3
      <3>1. N = (K - 1) * E + Len(C(K)) /\ Len(C(K)) \in 1 .. E
        BY <1>2, <1>4, <3>0
      <3>2. i * E = (i - 1) * E + E /\ i * E <= (K - 1) * E /\ (K - 1) * E \in Nat
        BY <1>1, <2>3
      <3>3. PICK s \in Nat, t \in Nat, y \in Nat :
              s = (i - 1) * E /\ t = (K - 1) * E /\ y = Len(C(K))
        BY <2>1, <3>1, <3>2
      <3>4. s + E <= t /\ N = t + y /\ x \in Nat /\ x >= 1 /\ x <= E
        BY <1>1, <2>1, <3>1, <3>2, <3>3
      <3>6. E \in Nat
        BY <1>1
      <3>7. s + x <= t + y
        BY <3>3, <3>4, <3>6, SMTT(30)
      <3>5. s + x \in 1 .. N
        <4> HIDE DEF E
        <4> QED
          BY <3>4, <3>7, <1>4
      <3> QED
        BY <2>2, <3>3, <3>5
    <2>4. CASE i = K
      <3>1. N = (i - 1) * E + Len(C(i))
        BY <1>4, <2>4
      <3> QED
        BY <2>1, <2>2, <3>1
    <2>5. i < K \/ i = K
      BY <1>1
    <2> QED
      BY <2>3, <2>4, <2>5
  <1>9. L = [k \in 1 .. N |->
               LET i == CHOOSE i \in DOMAIN ep : disk[ep[i]].start < k /\ k <= Ends(ep[i])
               IN  disk[ep[i]].cl[k - disk[ep[i]].start]]
    BY SMTT(30) DEF ListedClusters, N, K, L
  <1>17. DOMAIN L = 1 .. N /\ L = [k \in 1 .. N |-> L[k]]
    BY <1>9, Zenon
  <1> HIDE DEF L
  <1>10. ASSUME NEW k \in 1 .. N
         PROVE  \E i \in 1 .. K : Here(i, k) /\ L[k] = C(i)[k - (i - 1) * E]
    <2>1. PICK i : i = CHOOSE h \in DOMAIN ep : disk[ep[h]].start < k /\ k <= Ends(ep[h])
      OBVIOUS
    <2>2. \E j \in DOMAIN ep : disk[ep[j]].start < k /\ k <= Ends(ep[j])
      <3>1. PICK j \in 1 .. K : Here(j, k)
        BY <1>6
      <3>2. disk[ep[j]].start = (j - 1) * E /\ Ends(ep[j]) = (j - 1) * E + Len(C(j))
        BY <1>2
      <3> QED
        BY <1>1, <3>1, <3>2
    <2>3. i \in DOMAIN ep /\ disk[ep[i]].start < k /\ k <= Ends(ep[i])
      BY <2>1, <2>2
    <2>4. i \in 1 .. K
      BY <1>1, <2>3
    <2>5. disk[ep[i]].start = (i - 1) * E /\ Ends(ep[i]) = (i - 1) * E + Len(C(i))
      BY <1>2, <2>4, SMTT(30)
    <2>6. L[k] = disk[ep[i]].cl[k - disk[ep[i]].start]
      BY <1>9, <2>1
    <2> QED
      BY <2>3, <2>4, <2>5, <2>6
  <1>11. ASSUME NEW i \in 1 .. K, NEW x \in 1 .. Len(C(i))
         PROVE  L[(i - 1) * E + x] = C(i)[x]
    <2>1. PICK k \in 1 .. N : k = (i - 1) * E + x
      BY <1>8
    <2>2. Here(i, k)
      BY <1>8, <2>1
    <2>3. PICK j \in 1 .. K : Here(j, k) /\ L[k] = C(j)[k - (j - 1) * E]
      BY <1>10
    <2>4. k \in Nat
      BY <1>4
    <2>5. i = j
      BY <1>7, <2>2, <2>3, <2>4
    <2>6. k - (i - 1) * E = x
      <3>1. (i - 1) * E \in Nat /\ x \in Nat
        BY <1>2
      <3> QED
        BY <2>1, <3>1
    <2> QED
      BY <2>1, <2>3, <2>5, <2>6
  <1> HIDE DEF C
  <1>12. ASSUME NEW k \in 1 .. N
         PROVE  \E i \in 1 .. K : \E x \in DOMAIN C(i) :
                  k = (i - 1) * E + x /\ L[k] = C(i)[x] /\ L[k] \in Clusters /\ L[k] \in ToSet(C(i))
    <2>1. PICK i \in 1 .. K : Here(i, k) /\ L[k] = C(i)[k - (i - 1) * E]
      BY <1>10
    <2>2. C(i) \in Seq(Clusters) /\ Len(C(i)) \in Nat /\ (i - 1) * E \in Nat
      BY <1>2
    <2>3. PICK x \in Nat : x = k - (i - 1) * E
      BY <1>4, <2>1, <2>2
    <2>4. x \in 1 .. Len(C(i)) /\ k = (i - 1) * E + x
      BY <1>4, <2>1, <2>2, <2>3
    <2>5. x \in DOMAIN C(i) /\ C(i)[x] \in Clusters /\ C(i)[x] \in ToSet(C(i))
      BY <2>2, <2>4, ToSetFacts
    <2> QED
      BY <2>1, <2>3, <2>4, <2>5
  <1>13. L \in Seq(Clusters) /\ Len(L) = N /\ DOMAIN L = 1 .. N
    <2>2. \A k \in 1 .. N : L[k] \in Clusters
      BY <1>12
    <2>3. L \in [1 .. N -> Clusters]
      BY <1>17, <2>2
    <2> QED
      BY <1>4, <1>17, <2>3
  <1>14. IsInjective(L)
    <2> SUFFICES ASSUME NEW k \in 1 .. N, NEW l \in 1 .. N, L[k] = L[l] PROVE k = l
      BY <1>13 DEF IsInjective
    <2>1. PICK i \in 1 .. K : \E x \in DOMAIN C(i) :
            k = (i - 1) * E + x /\ L[k] = C(i)[x] /\ L[k] \in Clusters /\ L[k] \in ToSet(C(i))
      BY <1>12
    <2>2. PICK x \in DOMAIN C(i) : k = (i - 1) * E + x /\ L[k] = C(i)[x] /\ L[k] \in ToSet(C(i))
      BY <2>1
    <2>3. PICK j \in 1 .. K : \E y \in DOMAIN C(j) :
            l = (j - 1) * E + y /\ L[l] = C(j)[y] /\ L[l] \in Clusters /\ L[l] \in ToSet(C(j))
      BY <1>12
    <2>4. PICK y \in DOMAIN C(j) : l = (j - 1) * E + y /\ L[l] = C(j)[y] /\ L[l] \in ToSet(C(j))
      BY <2>3
    <2>5. i = j
      BY <1>1, <2>2, <2>4 DEF C
    <2>6. x = y
      BY <1>2, <2>2, <2>4, <2>5 DEF IsInjective
    <2> QED
      BY <2>2, <2>4, <2>5, <2>6
  <1>15. \A i \in 1 .. K : \A x \in 1 .. Len(C(i)) :
           (i - 1) * E + x <= Len(L) /\ C(i)[x] = L[(i - 1) * E + x]
    BY <1>4, <1>8, <1>11, <1>13
  <1>16. \A y \in ToSet(L) : \E i \in 1 .. K : y \in ToSet(C(i))
    BY <1>12, <1>13 DEF ToSet
  <1> QED
    BY <1>4, <1>5, <1>13, <1>14, <1>15, <1>16 DEF C, L, K

(* blob_load finds what the blob has on disk. *)
LEMMA LoadFacts ==
  ASSUME disk \in [MdPages -> Page], NEW b \in MdPages, LoadsAt(disk, b), Closed(disk, b),
         ExtentsLoad(LastPage(b).body.ep)
  PROVE  \E r : /\ r = blob_load(b) /\ Idle(disk, b, r) /\ r.io = "idle" /\ ~r.pend /\ r.st = "open"
                /\ r.ver = disk[b].ver /\ r.id = b /\ r.clean_pages = r.pages
                /\ Kept(r) = DiskPg(disk, b) /\ ToSet(r.cl) \subseteq DiskCl(disk, b)
  <1> DEFINE body == LastPage(b).body
             cl == IF body.et THEN ListedClusters(body.ep) ELSE body.cl
             pages == {disk[b].next} \ {NoPage}
             r == [blob_alloc(b, body.et) EXCEPT
                    !.st = "open", !.dirty = FALSE, !.big = pages # {}, !.ver = disk[b].ver,
                    !.num = Len(cl), !.cl = cl, !.nep = Len(body.ep), !.ep = body.ep, !.pages = pages,
                    !.clean_num = Len(cl), !.clean_nep = Len(body.ep), !.clean_pages = pages]
  <1>1. r = blob_load(b)
    BY DEF blob_load
  <1>2. body = BodyAt(disk, b) /\ pages = ChainAt(disk, b)
    BY DEF BodyAt, LastAt, LastPage, ChainAt
  <1>3. /\ body \in Body /\ disk[b].ver \in Nat /\ body.cl \in Seq(Clusters)
        /\ body.ep \in Seq(MdPages) /\ body.et \in BOOLEAN /\ pages \subseteq MdPages
        /\ disk[b].next \in MdPages \cup {NoPage}
    BY <1>2, BodyTypes
  <1>4. Sound(disk, b, body)
    BY <1>2 DEF Closed
  <1>5. ExtentsLoad(body.ep)
    OBVIOUS
  <1> HIDE DEF body, pages
  <1>6. DOMAIN body.ep = 1 .. Len(body.ep) /\ Len(body.ep) \in Nat
    BY <1>3, ToSetFacts
  <1>7. /\ ListedClusters(body.ep) \in Seq(Clusters) /\ IsInjective(ListedClusters(body.ep))
        /\ Len(ListedClusters(body.ep)) \in Nat
        /\ ExtentPages(Len(ListedClusters(body.ep))) = Len(body.ep)
        /\ \A i \in 1 .. Len(body.ep) : \A x \in 1 .. Len(disk[body.ep[i]].cl) :
             /\ (i - 1) * ExtentsPerEp + x <= Len(ListedClusters(body.ep))
             /\ disk[body.ep[i]].cl[x] = ListedClusters(body.ep)[(i - 1) * ExtentsPerEp + x]
        /\ \A y \in ToSet(ListedClusters(body.ep)) :
             \E i \in 1 .. Len(body.ep) : y \in ToSet(disk[body.ep[i]].cl)
    BY <1>3, <1>4, <1>5, ListedFacts DEF Sound
  <1>8. cl \in Seq(Clusters) /\ IsInjective(cl) /\ Len(cl) \in Nat
        /\ Len(body.ep) = EpCount(body.et, Len(cl))
    <2>1. CASE body.et
      BY <1>7, <2>1 DEF EpCount
    <2>2. CASE ~body.et
      <3>1. body.ep = <<>> /\ IsInjective(body.cl)
        BY <1>4, <2>2 DEF Sound
      <3> QED
        BY <1>3, <2>2, <3>1, EmptyFacts DEF EpCount
    <2> QED
      BY <2>1, <2>2
  <1>9. ToSet(cl) \subseteq DiskCl(disk, b)
    <2>1. CASE body.et
      <3> SUFFICES ASSUME NEW y \in ToSet(cl) PROVE y \in DiskCl(disk, b)
        OBVIOUS
      <3>1. PICK i \in 1 .. Len(body.ep) : y \in ToSet(disk[body.ep[i]].cl)
        BY <1>7, <2>1
      <3>2. body.ep[i] \in ToSet(body.ep) /\ disk[body.ep[i]].kind = "extent"
        BY <1>3, <1>4, <1>6, ToSetFacts DEF Sound, ExtentOf
      <3>3. y \in ClustersAt(disk, b)
        BY <1>2, <3>1, <3>2 DEF ClustersAt
      <3> QED
        BY <3>3 DEF DiskCl
    <2>2. CASE ~body.et
      BY <1>2, <2>2 DEF DiskCl, ClustersAt
    <2> QED
      BY <1>3, <2>1, <2>2
  <1>10. ASSUME body.et, NEW i \in 1 .. Len(body.ep), NEW x \in 1 .. Len(disk[body.ep[i]].cl)
         PROVE  /\ (i - 1) * ExtentsPerEp + x <= Len(cl)
                /\ disk[body.ep[i]].cl[x] = cl[(i - 1) * ExtentsPerEp + x]
    BY <1>7, <1>10
  <1> HIDE DEF cl
  <1>11. /\ r \in BlobRec /\ r.id = b /\ r.st = "open" /\ r.io = "idle" /\ ~r.pend
         /\ r.et = body.et /\ r.ver = disk[b].ver /\ r.num = Len(cl) /\ r.cl = cl
         /\ r.nep = Len(body.ep) /\ r.ep = body.ep /\ r.pages = pages
         /\ r.clean_num = Len(cl) /\ r.clean_nep = Len(body.ep) /\ r.clean_pages = pages
    <2>1. ZeroPage \in Page
      BY DEF Page
    <2>2. (pages # {}) \in BOOLEAN
      OBVIOUS
    <2> HIDE DEF pages
    <2>3. PICK big \in BOOLEAN : big = (pages # {})
      BY <2>2
    <2>4. PICK v \in Nat, l \in Nat, le \in Nat : v = disk[b].ver /\ l = Len(cl) /\ le = Len(body.ep)
      BY <1>3, <1>6, <1>8
    <2>5. PICK et \in BOOLEAN, ep \in Seq(MdPages) : et = body.et /\ ep = body.ep
      BY <1>3
    <2>6. r = [blob_alloc(b, et) EXCEPT
                    !.st = "open", !.dirty = FALSE, !.big = big, !.ver = v,
                    !.num = l, !.cl = cl, !.nep = le, !.ep = ep, !.pages = pages,
                    !.clean_num = l, !.clean_nep = le, !.clean_pages = pages]
      BY <2>3, <2>4, <2>5
    <2> HIDE DEF r
    <2>7. r = [id |-> b, st |-> "open", dirty |-> FALSE, et |-> et, big |-> big, ver |-> v,
               num |-> l, cl |-> cl, nep |-> le, ep |-> ep, pages |-> pages,
               clean_num |-> l, clean_nep |-> le, clean_pages |-> pages,
               io |-> "idle", left |-> {}, pend |-> FALSE,
               root |-> ZeroPage, chain |-> ZeroPage, extent |-> ZeroPage]
      BY <2>6 DEF blob_alloc
    <2>8. r \in BlobRec
      BY <1>3, <1>8, <2>1, <2>7 DEF BlobRec, Alive
    <2> QED
      BY <2>4, <2>5, <2>7, <2>8
  <1> HIDE DEF r
  <1>12. pages \cap ({b} \cup ToSet(body.ep)) = {} /\ b \notin ToSet(body.ep)
    <2>1. b \notin ToSet(body.ep) /\ disk[b].next \notin ToSet(body.ep)
      BY <1>4 DEF Sound
    <2>2. disk[b].next # b
      <3>1. NoPage \notin MdPages
        BY SizesAssumption
      <3>2. disk[b].kind = "root" /\ (disk[b].next # NoPage => disk[disk[b].next].kind = "chain")
        BY DEF LoadsAt, RootAt
      <3> QED
        BY <3>1, <3>2
    <2> QED
      BY <2>1, <2>2 DEF pages
  <1>13. r.et \/ r.ep = <<>>
    BY <1>4, <1>11 DEF Sound
  <1>14. IsInjective(body.ep)
    BY <1>4 DEF Sound
  <1>15. Base(b, r)
    BY <1>8, <1>11, <1>12, <1>13, <1>14 DEF Base
  <1>16. body = Serial(r, r.num, r.nep)
    <2>1. SubSeq(r.cl, 1, r.num) = cl /\ SubSeq(r.ep, 1, r.nep) = body.ep
      BY <1>3, <1>8, <1>11, SubSeqFull
    <2>2. body = [et |-> body.et, cl |-> body.cl, ep |-> body.ep]
      BY <1>3 DEF Body
    <2>3. body.cl = IF body.et THEN <<>> ELSE cl
      BY <1>4 DEF Sound, cl
    <2> QED
      BY <1>11, <2>1, <2>2, <2>3 DEF Serial
  <1>17. ASSUME NEW j \in 1 .. r.nep PROVE Fit(disk, b, r, j, Len(r.cl))
    <2>1. j \in 1 .. Len(body.ep)
      BY <1>11
    <2>2. body.et
      <3>1. ~body.et => Len(body.ep) = 0
        BY <1>4, EmptyFacts DEF Sound
      <3> QED
        BY <1>6, <2>1, <3>1
    <2>3. ExtentOf(disk[body.ep[j]], b, j)
      BY <1>4, <1>6, <2>1 DEF Sound
    <2> QED
      BY <1>10, <1>11, <2>1, <2>2, <2>3 DEF Fit, ExtentOf
  <1>18. OnDisk(disk, b, r, r.clean_num, r.clean_nep, r.clean_pages, Len(r.cl))
    BY <1>2, <1>6, <1>8, <1>11, <1>16, <1>17 DEF OnDisk
  <1>19. Idle(disk, b, r)
    <2>1. r.ver = disk[b].ver /\ disk[b].ver <= r.ver
      BY <1>3, <1>11
    <2>2. r.st \in Alive
      BY <1>11 DEF Alive
    <2> QED
      BY <1>11, <1>15, <1>18, <2>1, <2>2 DEF Idle, Unwritten
  <1>20. Kept(r) = DiskPg(disk, b)
    BY <1>2, <1>11 DEF Kept, DiskPg, PagesAt
  <1> QED
    BY <1>1, <1>9, <1>11, <1>19, <1>20

-----------------------------------------------------------------------------
(* Writes of a persist: what they do to the blob itself. *)

(* A write to neither the root nor the page it leads to keeps the chain. *)
LEMMA Beside ==
  ASSUME NEW d \in [MdPages -> Page], NEW e \in [MdPages -> Page], NEW b \in MdPages,
         NEW p \in MdPages, \A q \in MdPages : q # p => e[q] = d[q],
         p # b, RootAt(d, b) => d[b].next # p
  PROVE  /\ e[b] = d[b] /\ (RootAt(e, b) <=> RootAt(d, b)) /\ (LoadsAt(e, b) <=> LoadsAt(d, b))
         /\ LoadsAt(d, b) => BodyAt(e, b) = BodyAt(d, b) /\ ChainAt(e, b) = ChainAt(d, b)
  <1>1. e[b] = d[b]
    OBVIOUS
  <1>2. RootAt(d, b) => d[b].next \in MdPages \cup {NoPage}
    BY PageTypes DEF RootAt
  <1>3. RootAt(d, b) /\ d[b].next # NoPage => e[d[b].next] = d[d[b].next]
    BY <1>2
  <1> QED
    BY <1>1, <1>3 DEF RootAt, LoadsAt, BodyAt, LastAt, ChainAt

(* An extent page is written in place. *)
LEMMA ExtentWritten ==
  ASSUME NEW d \in [MdPages -> Page], NEW e \in [MdPages -> Page], NEW b \in MdPages, NEW r,
         Idle(d, b, r), NEW i \in 1 .. Len(r.ep), Ready(d, b, r, i), ExtentStaged(b, r, i),
         \A q \in MdPages : q # r.ep[i] => e[q] = d[q], e[r.ep[i]] = r.extent
  PROVE  Idle(e, b, r) /\ Ready(e, b, r, i + 1)
  <1>1. /\ Base(b, r) /\ OnDisk(d, b, r, r.clean_num, r.clean_nep, r.clean_pages, Len(r.cl))
        /\ RootAt(d, b) => d[b].ver <= r.ver
        /\ RootAt(d, b) => LoadsAt(d, b)
        /\ r.st \in Alive /\ r.pages = r.clean_pages
    BY DEF Idle, Unwritten, Alive
  <1>2. /\ r.cl \in Seq(Clusters) /\ r.ep \in Seq(MdPages) /\ Len(r.cl) \in Nat /\ Len(r.ep) \in Nat
        /\ r.num \in Nat /\ r.nep \in Nat /\ r.clean_nep \in Nat
        /\ r.num <= Len(r.cl) /\ r.nep <= Len(r.ep) /\ IsInjective(r.ep)
    BY <1>1, BaseTypes DEF Base
  <1>3. PICK p \in MdPages : p = r.ep[i] /\ p \in ToSet(r.ep)
    BY <1>2, ToSetFacts
  <1>4. p # b /\ p \notin r.clean_pages
    BY <1>1, <1>3 DEF Base
  <1>5. RootAt(d, b) => d[b].next # p
    <2>1. NoPage # p
      BY SizesAssumption
    <2>2. RootAt(d, b) => ChainAt(d, b) \subseteq r.clean_pages
      BY <1>1 DEF OnDisk
    <2> QED
      BY <1>4, <2>1, <2>2 DEF ChainAt
  <1>6. /\ e[b] = d[b] /\ (RootAt(e, b) <=> RootAt(d, b)) /\ (LoadsAt(e, b) <=> LoadsAt(d, b))
        /\ LoadsAt(d, b) => BodyAt(e, b) = BodyAt(d, b) /\ ChainAt(e, b) = ChainAt(d, b)
    BY <1>3, <1>4, <1>5, Beside
  <1>7. ASSUME NEW j \in 1 .. Len(r.ep), j # i, NEW n, Fit(d, b, r, j, n) PROVE Fit(e, b, r, j, n)
    <2>1. r.ep[j] \in MdPages /\ r.ep[j] # r.ep[i]
      BY <1>2, <1>7, ToSetFacts, InjectiveFacts
    <2>2. e[r.ep[j]] = d[r.ep[j]]
      BY <2>1
    <2> QED
      BY <1>7, <2>2 DEF Fit
  <1>8. Fit(e, b, r, i, r.num)
    <2>1. PICK x : x = (i - 1) * ExtentsPerEp
      OBVIOUS
    <2>2. PICK c : c = SubSeq(r.cl, (i - 1) * ExtentsPerEp + 1, Min({i * ExtentsPerEp, r.num}))
      OBVIOUS
    <2>3. i \in Nat \ {0}
      OBVIOUS
    <2>4. /\ x \in Nat /\ c \in Seq(Clusters) /\ Len(c) <= ExtentsPerEp
          /\ \A k \in 1 .. Len(c) : x + k <= r.num /\ c[k] = r.cl[x + k]
      BY <1>2, <2>1, <2>2, <2>3, ExtentClFacts
    <2>5. PICK q : q = e[r.ep[i]]
      OBVIOUS
    <2>6. q = ExtentPage(b, r.extent.ver, x, c)
      BY <2>1, <2>2, <2>5 DEF ExtentStaged
    <2>7. q.kind = "extent" /\ q.id = b /\ q.start = x /\ q.cl = c
      BY <2>6 DEF ExtentPage
    <2> QED
      BY <2>1, <2>4, <2>5, <2>7 DEF Fit
  <1>9. Fit(e, b, r, i, Len(r.cl))
    BY <1>1, <1>2, <1>8, FitMore
  <1>10. \A j \in 1 .. r.clean_nep : Fit(e, b, r, j, Len(r.cl))
    <2>1. r.clean_nep <= Len(r.ep)
      BY <1>1 DEF OnDisk
    <2>2. \A j \in 1 .. r.clean_nep : j \in 1 .. Len(r.ep) /\ Fit(d, b, r, j, Len(r.cl))
      BY <1>1, <1>2, <2>1 DEF OnDisk
    <2> QED
      BY <1>7, <1>9, <2>2
  <1>11. OnDisk(e, b, r, r.clean_num, r.clean_nep, r.clean_pages, Len(r.cl))
    BY <1>1, <1>6, <1>10 DEF OnDisk
  <1>12. Idle(e, b, r)
    BY <1>1, <1>6, <1>11 DEF Idle, Unwritten
  <1>13. Ready(e, b, r, i + 1)
    <2> SUFFICES ASSUME NEW j \in 1 .. r.nep, j < i + 1 PROVE Fit(e, b, r, j, r.num)
      BY DEF Ready
    <2>1. j \in 1 .. Len(r.ep)
      BY <1>2
    <2>2. CASE j = i
      BY <1>8, <2>2
    <2>3. CASE j # i
      <3>1. j < i
        BY <2>3
      <3>2. Fit(d, b, r, j, r.num)
        BY <3>1 DEF Ready
      <3> QED
        BY <1>7, <2>1, <2>3, <3>2
    <2> QED
      BY <2>2, <2>3
  <1> QED
    BY <1>12, <1>13

(* The page after the root is written to a page that was free. *)
LEMMA ChainIsWritten ==
  ASSUME NEW d \in [MdPages -> Page], NEW e \in [MdPages -> Page], NEW b \in MdPages, NEW r,
         MemStaged(d, b, r), r.io = "chain",
         \A q \in MdPages : q # r.root.next => e[q] = d[q], e[r.root.next] = r.chain,
         NEW s, s = [r EXCEPT !.io = "root"]
  PROVE  /\ r.root.next \in MdPages /\ r.pages = {r.root.next} /\ r.root.next # b
         /\ r.chain.kind = "chain" /\ r.chain.id = b
         /\ MemStaged(e, b, s) /\ s.io = "root" /\ MP(s) = MP(r) /\ s.cl = r.cl /\ s.ver = r.ver
         /\ s.st = r.st /\ e[b] = d[b]
         /\ (RootAt(e, b) <=> RootAt(d, b)) /\ (LoadsAt(e, b) <=> LoadsAt(d, b))
  <1>1. /\ Unwritten(d, b, r) /\ r.st \in Alive /\ r.st # "deleting"
        /\ r.pages \cap r.clean_pages = {} /\ Ready(d, b, r, r.nep + 1) /\ Staged(d, b, r)
        /\ Base(b, r) /\ r \in BlobRec
    BY DEF MemStaged, Unwritten, Base, Alive
  <1>2. PICK p \in MdPages : /\ r.pages = {p} /\ r.root = RootPage(b, r.root.ver, p, NoBody)
                             /\ r.chain = ChainPage(b, r.root.ver, blob_serialize(r))
    BY <1>1 DEF Staged
  <1>3. r.root.next = p
    BY <1>2 DEF RootPage
  <1>4. p # b /\ p \notin ToSet(r.ep) /\ p \notin r.clean_pages
    BY <1>1, <1>2 DEF Base
  <1>5. /\ OnDisk(d, b, r, r.clean_num, r.clean_nep, r.clean_pages, Len(r.cl))
        /\ RootAt(d, b) => d[b].ver <= r.ver /\ LoadsAt(d, b)
    BY <1>1 DEF Unwritten
  <1>6. RootAt(d, b) => d[b].next # p
    <2>1. NoPage # p
      BY SizesAssumption
    <2>2. RootAt(d, b) => ChainAt(d, b) \subseteq r.clean_pages
      BY <1>5 DEF OnDisk
    <2> QED
      BY <1>4, <2>1, <2>2 DEF ChainAt
  <1>7. /\ e[b] = d[b] /\ (RootAt(e, b) <=> RootAt(d, b)) /\ (LoadsAt(e, b) <=> LoadsAt(d, b))
        /\ LoadsAt(d, b) => BodyAt(e, b) = BodyAt(d, b) /\ ChainAt(e, b) = ChainAt(d, b)
    BY <1>3, <1>4, <1>6, Beside
  <1>8. \A j \in 1 .. Len(r.ep) : r.ep[j] \in MdPages /\ e[r.ep[j]] = d[r.ep[j]]
    BY <1>1, <1>3, <1>4, BaseTypes
  <1>9. r.nep \in Nat /\ r.clean_nep \in Nat /\ Len(r.ep) \in Nat /\ r.nep <= Len(r.ep)
        /\ r.clean_nep <= Len(r.ep)
    BY <1>1, <1>5, BaseTypes DEF Base, OnDisk
  <1>10. \A j \in 1 .. Len(r.ep) : \A n : Fit(d, b, r, j, n) => Fit(e, b, r, j, n)
    BY <1>8 DEF Fit
  <1>11. (\A j \in 1 .. r.nep : j \in 1 .. Len(r.ep)) /\ (\A j \in 1 .. r.clean_nep : j \in 1 .. Len(r.ep))
    BY <1>9
  <1>12. Ready(e, b, r, r.nep + 1)
    BY <1>1, <1>10, <1>11 DEF Ready
  <1>13. OnDisk(e, b, r, r.clean_num, r.clean_nep, r.clean_pages, Len(r.cl))
    BY <1>5, <1>7, <1>10, <1>11 DEF OnDisk
  <1>14. Unwritten(e, b, r)
    BY <1>1, <1>5, <1>7, <1>13 DEF Unwritten
  <1>15. /\ Alike(r, s) /\ s.st = r.st /\ s.pages = r.pages /\ s.root = r.root /\ s.io = "root"
         /\ s.chain = r.chain
    BY <1>1 DEF Alike, BlobRec
  <1>16. Unwritten(e, b, s)
    <2>1. s.pages \cap ({b} \cup ToSet(r.ep)) = {}
      BY <1>1, <1>15 DEF Base
    <2> QED
      BY <1>14, <1>15, <2>1, UnwrittenAlike
  <1>17. Ready(e, b, s, s.nep + 1) /\ blob_serialize(s) = blob_serialize(r)
    BY <1>12, <1>15, FitAlike DEF Alike
  <1>18. Staged(e, b, s)
    <2>1. s.root.ver <= s.ver /\ (RootAt(e, b) => e[b].ver <= s.root.ver)
      BY <1>1, <1>7, <1>15 DEF Staged, Alike
    <2>2. s.chain = ChainPage(b, s.root.ver, blob_serialize(s)) /\ e[p] = s.chain
      BY <1>2, <1>3, <1>15, <1>17
    <2> QED
      BY <1>2, <1>15, <2>1, <2>2 DEF Staged
  <1>19. MemStaged(e, b, s)
    BY <1>1, <1>15, <1>16, <1>17, <1>18 DEF MemStaged, Alike
  <1>20. MP(s) = MP(r)
    BY <1>15 DEF MP, Alike
  <1>21. r.chain.kind = "chain" /\ r.chain.id = b
    BY <1>2 DEF ChainPage
  <1> QED
    BY <1>2, <1>3, <1>4, <1>7, <1>15, <1>19, <1>20, <1>21 DEF Alike

(* The root is written: the blob is on disk as it was when the persist began. *)
LEMMA RootIsWritten ==
  ASSUME NEW d \in [MdPages -> Page], NEW e \in [MdPages -> Page], NEW b \in MdPages, NEW r,
         MemStaged(d, b, r), r.io = "root",
         \A q \in MdPages : q # b => e[q] = d[q], e[b] = r.root
  PROVE  Written(e, b, r) /\ e[b].kind = "root" /\ (RootAt(d, b) => d[b].ver <= e[b].ver)
  <1>1. /\ r.st \in Alive /\ r.st # "deleting"
        /\ Ready(d, b, r, r.nep + 1) /\ Staged(d, b, r)
        /\ Base(b, r)
    BY DEF MemStaged, Unwritten, Alive
  <1>2. PICK v : v = r.root.ver
    OBVIOUS
  <1>3. v <= r.ver /\ (RootAt(d, b) => d[b].ver <= v)
    BY <1>1, <1>2 DEF Staged
  <1>4. r.nep \in Nat /\ r.nep <= Len(r.ep) /\ Len(r.ep) \in Nat /\ r.num <= Len(r.cl)
    BY <1>1, BaseTypes DEF Base
  <1>5. blob_serialize(r) = Serial(r, r.num, r.nep)
    BY DEF blob_serialize, Serial
  <1>6. /\ LoadsAt(e, b) /\ e[b].ver = v /\ e[b].kind = "root" /\ ChainAt(e, b) \subseteq r.pages
        /\ BodyAt(e, b) = blob_serialize(r)
    <2>1. CASE r.pages = {} /\ r.root = RootPage(b, v, NoPage, blob_serialize(r))
      BY <2>1 DEF LoadsAt, RootAt, ChainAt, BodyAt, LastAt, RootPage
    <2>2. CASE \E p \in MdPages : /\ r.pages = {p} /\ r.root = RootPage(b, v, p, NoBody)
                                  /\ d[p] = ChainPage(b, v, blob_serialize(r))
      <3>1. PICK p \in MdPages : /\ r.pages = {p} /\ r.root = RootPage(b, v, p, NoBody)
                                 /\ d[p] = ChainPage(b, v, blob_serialize(r))
        BY <2>2
      <3>2. p # b /\ p # NoPage
        BY <1>1, <3>1, SizesAssumption DEF Base
      <3>3. e[p] = ChainPage(b, v, blob_serialize(r))
        BY <3>1, <3>2
      <3> QED
        BY <3>1, <3>2, <3>3 DEF LoadsAt, RootAt, ChainAt, BodyAt, LastAt, RootPage, ChainPage
    <2> QED
      BY <1>1, <1>2, <2>1, <2>2 DEF Staged
  <1>7. \A j \in 1 .. Len(r.ep) : r.ep[j] \in MdPages /\ e[r.ep[j]] = d[r.ep[j]]
    BY <1>1, BaseTypes
  <1>8. ASSUME NEW j \in 1 .. r.nep PROVE Fit(e, b, r, j, r.num)
    <2>1. j < r.nep + 1 /\ j \in 1 .. Len(r.ep)
      BY <1>4
    <2>2. Fit(d, b, r, j, r.num)
      BY <1>1, <2>1 DEF Ready
    <2> QED
      BY <1>7, <2>1, <2>2 DEF Fit
  <1>9. OnDisk(e, b, r, r.num, r.nep, r.pages, r.num)
    BY <1>4, <1>5, <1>6, <1>8 DEF OnDisk
  <1> QED
    BY <1>1, <1>2, <1>3, <1>6, <1>9 DEF Written

(* An old page of the chain is zeroed after the root is written. *)
LEMMA OldIsZeroed ==
  ASSUME NEW d \in [MdPages -> Page], NEW e \in [MdPages -> Page], NEW b \in MdPages, NEW r,
         MemZero(d, b, r), NEW p \in r.left,
         \A q \in MdPages : q # p => e[q] = d[q], e[p] = ZeroPage
  PROVE  p \in MdPages /\ p # b /\ Written(e, b, r) /\ e[b] = d[b] /\ (RootAt(e, b) <=> RootAt(d, b))
         /\ (LoadsAt(e, b) <=> LoadsAt(d, b))
  <1>1. Written(d, b, r) /\ Base(b, r) /\ p \in r.clean_pages /\ p \notin r.pages
    BY DEF MemZero, Written
  <1>2. p \in MdPages /\ p # b /\ p \notin ToSet(r.ep) /\ r.ep \in Seq(MdPages) /\ r.nep \in Nat
        /\ r.nep <= Len(r.ep)
    BY <1>1, BaseTypes DEF Base
  <1>3. ToSet(SubSeq(r.ep, 1, r.nep)) \subseteq ToSet(r.ep)
    BY <1>2, PrefixFacts
  <1>4. p \notin DiskPg(d, b)
    BY <1>1, <1>2, <1>3, WrittenDisk
  <1>5. e[p].kind = "zero"
    BY DEF ZeroPage
  <1>6. /\ RootAt(e, b) <=> RootAt(d, b)
        /\ LoadsAt(e, b) <=> LoadsAt(d, b)
        /\ RootAt(d, b) => e[b] = d[b]
    BY <1>2, <1>4, <1>5, Elsewhere
  <1>7. OnDisk(d, b, r, r.num, r.nep, r.pages, r.num) => OnDisk(e, b, r, r.num, r.nep, r.pages, r.num)
    BY <1>1, <1>2, <1>4, <1>5, OnDiskElsewhere
  <1>8. Written(e, b, r)
    BY <1>1, <1>6, <1>7 DEF Written, LoadsAt
  <1> QED
    BY <1>2, <1>6, <1>8

(* An extent page that the root does not name is zeroed. *)
LEMMA ExtentIsZeroed ==
  ASSUME NEW d \in [MdPages -> Page], NEW e \in [MdPages -> Page], NEW b \in MdPages, NEW r,
         Written(d, b, r), NEW p \in ItemsAfter(r.ep, r.nep),
         \A q \in MdPages : q # p => e[q] = d[q], e[p] = ZeroPage
  PROVE  p \in MdPages /\ p # b /\ Written(e, b, r) /\ e[b] = d[b] /\ (RootAt(e, b) <=> RootAt(d, b))
         /\ (LoadsAt(e, b) <=> LoadsAt(d, b))
  <1>1. /\ Base(b, r) /\ OnDisk(d, b, r, r.num, r.nep, r.pages, r.num) /\ r.st \in Alive
        /\ LoadsAt(d, b) /\ d[b].ver = r.root.ver /\ d[b].ver <= r.ver
    BY DEF Written
  <1>2. r.ep \in Seq(MdPages) /\ r.nep \in Nat /\ r.nep <= Len(r.ep) /\ IsInjective(r.ep)
    BY <1>1, BaseTypes DEF Base
  <1>3. PICK s : s = SubSeq(r.ep, 1, r.nep)
    OBVIOUS
  <1>4. /\ s \in Seq(MdPages) /\ Len(s) = r.nep /\ \A i \in 1 .. r.nep : s[i] = r.ep[i]
        /\ ToSet(s) \subseteq ToSet(r.ep) /\ ItemsAfter(r.ep, r.nep) \cap ToSet(s) = {}
        /\ ItemsAfter(r.ep, r.nep) \subseteq ToSet(r.ep)
    BY <1>2, <1>3, PrefixFacts
  <1>5. /\ p \in ToSet(r.ep) /\ p \notin ToSet(s) /\ p \in MdPages
    BY <1>2, <1>4, ToSetFacts
  <1>6. p # b /\ p \notin r.pages
    BY <1>1, <1>5 DEF Base
  <1>7. RootAt(d, b) => d[b].next # p
    <2>1. NoPage # p
      BY <1>5, SizesAssumption
    <2>2. ChainAt(d, b) \subseteq r.pages
      BY <1>1 DEF OnDisk
    <2> QED
      BY <1>6, <2>1, <2>2 DEF ChainAt
  <1>8. /\ e[b] = d[b] /\ (RootAt(e, b) <=> RootAt(d, b)) /\ (LoadsAt(e, b) <=> LoadsAt(d, b))
        /\ LoadsAt(d, b) => BodyAt(e, b) = BodyAt(d, b) /\ ChainAt(e, b) = ChainAt(d, b)
    BY <1>5, <1>6, <1>7, Beside
  <1>9. ASSUME NEW j \in 1 .. r.nep PROVE Fit(e, b, r, j, r.num)
    <2>1. s[j] \in ToSet(s) /\ s[j] \in MdPages /\ s[j] = r.ep[j]
      BY <1>4, ToSetFacts
    <2>2. e[r.ep[j]] = d[r.ep[j]]
      BY <1>5, <2>1
    <2>3. Fit(d, b, r, j, r.num)
      BY <1>1 DEF OnDisk
    <2> QED
      BY <2>2, <2>3 DEF Fit
  <1>10. OnDisk(e, b, r, r.num, r.nep, r.pages, r.num)
    BY <1>1, <1>8, <1>9 DEF OnDisk
  <1> QED
    BY <1>1, <1>5, <1>6, <1>8, <1>10 DEF Written

(* A page of the chain of a blob that is being deleted is zeroed. *)
LEMMA DyingIsZeroed ==
  ASSUME NEW d \in [MdPages -> Page], NEW e \in [MdPages -> Page], NEW b \in MdPages, NEW r,
         MemDying(d, b, r), r.io = "zero", NEW p \in r.left,
         \A q \in MdPages : q # p => e[q] = d[q], e[p] = ZeroPage
  PROVE  /\ p \in MdPages /\ Unwritten(e, b, r) /\ (RootAt(e, b) => b \in r.left \ {p})
         /\ RootAt(e, b) => RootAt(d, b) /\ e[b] = d[b]
         /\ LoadsAt(e, b) => LoadsAt(d, b)
  <1>1. /\ Base(b, r) /\ OnDisk(d, b, r, r.clean_num, r.clean_nep, r.clean_pages, Len(r.cl))
        /\ RootAt(d, b) => d[b].ver <= r.ver
        /\ r.st = "deleting" /\ p \in r.clean_pages \cup {b} /\ (RootAt(d, b) => b \in r.left)
    BY DEF MemDying, Unwritten
  <1>2. p \in MdPages /\ p \notin ToSet(r.ep) /\ r.clean_nep \in Nat /\ r.clean_nep <= Len(r.ep)
        /\ Len(r.ep) \in Nat
    BY <1>1, BaseTypes DEF Base, OnDisk
  <1>3. e[p].kind = "zero"
    BY DEF ZeroPage
  <1>4. RootAt(e, b) => p # b /\ RootAt(d, b) /\ e[b] = d[b]
    BY <1>2, <1>3 DEF RootAt
  <1>5. ASSUME LoadsAt(e, b)
        PROVE  LoadsAt(d, b) /\ BodyAt(e, b) = BodyAt(d, b) /\ ChainAt(e, b) = ChainAt(d, b)
    <2>1. RootAt(e, b) /\ (e[b].next # NoPage => e[e[b].next].kind = "chain" /\ e[e[b].next].id = b)
      BY <1>5 DEF LoadsAt
    <2>2. e[b] = d[b] /\ RootAt(d, b) /\ d[b].next \in MdPages \cup {NoPage}
      BY <1>4, <2>1, PageTypes DEF RootAt
    <2>3. d[b].next # NoPage => d[b].next # p /\ d[b].next \in MdPages
      BY <1>3, <2>1, <2>2
    <2>4. d[b].next # NoPage => e[d[b].next] = d[d[b].next]
      BY <2>3
    <2> QED
      BY <2>1, <2>2, <2>4 DEF LoadsAt, BodyAt, LastAt, ChainAt
  <1>6. ASSUME NEW j \in 1 .. r.clean_nep PROVE Fit(e, b, r, j, Len(r.cl))
    <2>1. j \in 1 .. Len(r.ep)
      BY <1>2
    <2>2. r.ep[j] \in ToSet(r.ep) /\ r.ep[j] \in MdPages
      BY <1>1, <2>1, BaseTypes
    <2>3. e[r.ep[j]] = d[r.ep[j]]
      BY <1>2, <2>2
    <2>4. Fit(d, b, r, j, Len(r.cl))
      BY <1>1 DEF OnDisk
    <2> QED
      BY <2>3, <2>4 DEF Fit
  <1>7. OnDisk(e, b, r, r.clean_num, r.clean_nep, r.clean_pages, Len(r.cl))
    BY <1>1, <1>5, <1>6 DEF OnDisk
  <1>8. Unwritten(e, b, r)
    BY <1>1, <1>4, <1>7 DEF Unwritten
  <1> QED
    BY <1>1, <1>2, <1>4, <1>5, <1>8

-----------------------------------------------------------------------------
(* Steps. *)

(* What blobs other than b have. *)
OthersPg(b) == UNION ({Pg(c) : c \in MdPages \ {b}} \cup {ToSet(r.ep) : r \in deleted})
OthersCl(b) == UNION ({Cg(c) : c \in MdPages \ {b}} \cup {ToSet(r.cl) : r \in deleted})

(* The same, element by element. *)
LEMMA OthersIs ==
  ASSUME NEW b, NEW y
  PROVE  /\ y \in OthersPg(b) <=> \/ \E c \in MdPages \ {b} : y \in Pg(c)
                                  \/ \E r \in deleted : y \in ToSet(r.ep)
         /\ y \in OthersCl(b) <=> \/ \E c \in MdPages \ {b} : y \in Cg(c)
                                  \/ \E r \in deleted : y \in ToSet(r.cl)
  <1>1. y \in OthersPg(b) <=> \/ \E c \in MdPages \ {b} : y \in Pg(c)
                              \/ \E r \in deleted : y \in ToSet(r.ep)
    BY DEF OthersPg
  <1>2. y \in OthersCl(b) <=> \/ \E c \in MdPages \ {b} : y \in Cg(c)
                              \/ \E r \in deleted : y \in ToSet(r.cl)
    BY DEF OthersCl
  <1> QED
    BY <1>1, <1>2

(* What a blob has is marked in the masks, and is its own. *)
LEMMA OwnNow ==
  ASSUME IndInv, Running, NEW b \in MdPages
  PROVE  Own(used, OthersPg(b), OthersCl(b), Pg(b), Cg(b))
  <1>1. used \in Masks
    BY DEF IndInv, Types
  <1>2. /\ \A c \in MdPages : Pg(c) \subseteq used.md /\ Cg(c) \subseteq used.clusters
        /\ \A r \in deleted : ToSet(r.ep) \subseteq used.md /\ ToSet(r.cl) \subseteq used.clusters
    BY DEF IndInv, Claimed
  <1>3. /\ \A c \in MdPages \ {b} : Pg(b) \cap Pg(c) = {} /\ Cg(b) \cap Cg(c) = {}
        /\ \A r \in deleted : Pg(b) \cap ToSet(r.ep) = {} /\ Cg(b) \cap ToSet(r.cl) = {}
    BY DEF IndInv, Apart
  <1>4. OthersPg(b) \subseteq used.md /\ OthersCl(b) \subseteq used.clusters
    BY <1>2, OthersIs
  <1>5. Pg(b) \cap OthersPg(b) = {} /\ Cg(b) \cap OthersCl(b) = {}
    BY <1>3, OthersIs
  <1> QED
    BY <1>1, <1>2, <1>4, <1>5 DEF Own

(* For blob c the pages e are as good as those on disk. *)
Same(e, c) ==
  /\ DiskPg(e, c) = DiskPg(disk, c) /\ DiskCl(e, c) = DiskCl(disk, c)
  /\ (RootAt(e, c) <=> RootAt(disk, c)) /\ (LoadsAt(e, c) <=> LoadsAt(disk, c))
  /\ RootAt(disk, c) => e[c] = disk[c]
  /\ Closed(disk, c) => Closed(e, c)
  /\ Ack(disk, c, acked[c]) => Ack(e, c, acked[c])
  /\ InMemory(c) => Mem(e, c, blob[c])

(* The disk is as good as itself. *)
LEMMA SameDisk ==
  ASSUME IndInv, NEW c \in MdPages
  PROVE  Same(disk, c)
  BY DEF Same, IndInv, Blobs

(* A write to a page that c does not have is as good for c as no write. *)
LEMMA SameElsewhere ==
  ASSUME IndInv, NEW c \in MdPages, NEW e \in [MdPages -> Page], NEW p \in MdPages,
         \A q \in MdPages : q # p => e[q] = disk[q],
         p \notin Pg(c), e[p].kind = "root" => p # c, e[p].kind = "chain" => e[p].id # c
  PROVE  Same(e, c)
  <1>1. disk \in [MdPages -> Page] /\ (InMemory(c) => Mem(disk, c, blob[c]))
    BY DEF IndInv, Types, Blobs
  <1>2. p \notin DiskPg(disk, c) /\ (InMemory(c) => p \notin MP(blob[c]))
    BY <1>1, MemDisk DEF Pg
  <1>3. /\ RootAt(e, c) <=> RootAt(disk, c)
        /\ LoadsAt(e, c) <=> LoadsAt(disk, c)
        /\ RootAt(disk, c) => e[c] = disk[c]
    BY <1>1, <1>2, Elsewhere
  <1>4. /\ DiskPg(e, c) = DiskPg(disk, c) /\ DiskCl(e, c) = DiskCl(disk, c)
        /\ Closed(disk, c) => Closed(e, c)
        /\ Ack(disk, c, acked[c]) => Ack(e, c, acked[c])
    BY <1>1, <1>2, ElsewhereClosed
  <1>5. InMemory(c) => Mem(e, c, blob[c])
    BY <1>1, <1>2, MemElsewhere
  <1> QED
    BY <1>3, <1>4, <1>5 DEF Same

(* The new value x of blob b, and what is added to those deleted. *)
NewPg(e, b, x) == IF x # NoBlob THEN MP(x) ELSE DiskPg(e, b)
NewCl(e, b, x) == IF x # NoBlob THEN ToSet(x.cl) ELSE DiskCl(e, b)
Placed(e, b, x, X, u, O, OC, n) ==
  /\ IF x # NoBlob THEN Mem(e, b, x) /\ x.ver <= n ELSE Closed(e, b)
  /\ \A r \in X : DelOK(r)
  /\ Own(u, O, OC, NewPg(e, b, x), NewCl(e, b, x))
  /\ \A r \in X : /\ Own(u, O, OC, ToSet(r.ep), ToSet(r.cl))
                  /\ NewPg(e, b, x) \cap ToSet(r.ep) = {} /\ NewCl(e, b, x) \cap ToSet(r.cl) = {}

(* What Good says, split into the record that stays listed and the one that   *)
(* is detached.                                                               *)
LEMMA GoodPlaced ==
  ASSUME NEW e \in [MdPages -> Page], NEW b \in MdPages, NEW m, NEW O, NEW OC, NEW n,
         Good(e, b, m, O, OC, n), NEW x, x = IF Detached(m.r) THEN NoBlob ELSE m.r,
         NEW X, X = IF Detached(m.r) THEN {m.r} ELSE {}
  PROVE  /\ Placed(e, b, x, X, m.u, O, OC, n)
         /\ Detached(m.r) => ~RootAt(e, b)
  <1>1. CASE GoodNone(e, b, m, O, OC)
    <2>1. m.r = NoBlob /\ ~Detached(m.r)
      BY <1>1 DEF GoodNone, Detached, NoBlob
    <2> QED
      BY <1>1, <2>1 DEF GoodNone, Placed, NewPg, NewCl
  <1>2. CASE GoodMem(e, b, m, O, OC, n)
    <2>1. Mem(e, b, m.r) /\ m.r.ver <= n /\ Own(m.u, O, OC, MP(m.r), ToSet(m.r.cl))
      BY <1>2 DEF GoodMem
    <2>2. Base(b, m.r)
      BY <2>1, MemShape
    <2>3. m.r # NoBlob
      BY <2>2 DEF Base, BlobRec, NoBlob, Alive
    <2>4. ~Detached(m.r)
      <3>1. m.r.io \in {"clusters", "extents"} => m.r.st \in Alive
        BY <2>1 DEF Mem, Written
      <3> QED
        BY <3>1 DEF Detached, Alive
    <2> QED
      BY <2>1, <2>3, <2>4 DEF Placed, NewPg, NewCl
  <1>3. CASE GoodGone(e, b, m, O, OC)
    <2>1. DelOK(m.r) /\ ~RootAt(e, b) /\ Own(m.u, O, OC, ToSet(m.r.ep), ToSet(m.r.cl))
      BY <1>3 DEF GoodGone
    <2>2. Detached(m.r)
      BY <2>1 DEF DelOK, Detached
    <2>3. ~LoadsAt(e, b)
      BY <2>1 DEF LoadsAt
    <2>4. DiskPg(e, b) = {} /\ DiskCl(e, b) = {} /\ Closed(e, b)
      BY <2>1, <2>3 DEF DiskPg, DiskCl, Closed
    <2>5. x = NoBlob /\ X = {m.r}
      BY <2>2
    <2>6. Own(m.u, O, OC, {}, {})
      BY <2>1 DEF Own
    <2> QED
      BY <2>1, <2>4, <2>5, <2>6 DEF Placed, NewPg, NewCl
  <1> QED
    BY <1>1, <1>2, <1>3 DEF Good

(* A step that touches only what b has. *)
Touches(b, m) ==
  /\ SetMemory(b, m)
  /\ disk' \in [MdPages -> Page]
  /\ \A c \in MdPages \ {b} : Same(disk', c)
  /\ RootAt(disk', b) => disk'[b].ver <= changes'
  /\ bs' = bs /\ masks' = masks /\ crashes' = crashes
  /\ changes' \in 0 .. MaxChanges /\ changes <= changes'
  /\ clean' \in BOOLEAN /\ super_clean' \in BOOLEAN
  /\ (~clean => ~clean') /\ (~clean' => ~super_clean')
  /\ super_clean' => super_clean /\ disk' = disk
  /\ m.r = NoBlob \/ m.r.io \in {"idle", "super"} \/ ~clean'

(* Such a step keeps the invariant if its outcome is good for b. *)
LEMMA StepGood ==
  ASSUME IndInv, bs = "loaded", NEW b \in MdPages, NEW m, Touches(b, m),
         Good(disk', b, m, OthersPg(b), OthersCl(b), changes')
  PROVE  IndInv'
  <1> DEFINE x == IF Detached(m.r) THEN NoBlob ELSE m.r
             X == IF Detached(m.r) THEN {m.r} ELSE {}
  <1>1. /\ blob' = [blob EXCEPT ![b] = x] /\ deleted' = deleted \cup X
        /\ used' = m.u /\ acked' = [acked EXCEPT ![b] = m.a]
    BY DEF Touches, SetMemory
  <1>2. disk' \in [MdPages -> Page] /\ \A c \in MdPages \ {b} : Same(disk', c)
    BY DEF Touches
  <1>3. Placed(disk', b, x, X, m.u, OthersPg(b), OthersCl(b), changes')
        /\ (Detached(m.r) => ~RootAt(disk', b))
    BY <1>2, GoodPlaced
  <1>4. Known(disk', b, m, changes')
    BY DEF Good
  <1>5. x = NoBlob \/ x = m.r
    OBVIOUS
  <1>6. \A r \in X : r = m.r /\ Detached(r) /\ Detached(m.r)
    OBVIOUS
  <1>27. X # {} => x = NoBlob
    OBVIOUS
  <1> HIDE DEF x, X
  <1>7. /\ Types /\ Blobs /\ Apart /\ Claimed /\ MasksTrue /\ Modes
    BY DEF IndInv
  <1>8. Running
    BY DEF Running
  <1>9. DOMAIN blob = MdPages /\ blob'[b] = x /\ \A c \in MdPages \ {b} : blob'[c] = blob[c]
    BY <1>1, <1>7 DEF Types
  <1>10. acked'[b] = m.a /\ \A c \in MdPages \ {b} : acked'[c] = acked[c]
    BY <1>1, <1>7 DEF Types
  <1>11. /\ Pg(b)' = NewPg(disk', b, x) /\ Cg(b)' = NewCl(disk', b, x)
         /\ \A c \in MdPages \ {b} : Pg(c)' = Pg(c) /\ Cg(c)' = Cg(c)
    <2>1. Pg(b)' = NewPg(disk', b, x) /\ Cg(b)' = NewCl(disk', b, x)
      BY <1>9 DEF Pg, Cg, InMemory, NewPg, NewCl
    <2>2. ASSUME NEW c \in MdPages \ {b} PROVE Pg(c)' = Pg(c) /\ Cg(c)' = Cg(c)
      BY <1>2, <1>9 DEF Pg, Cg, InMemory, Same
    <2> QED
      BY <2>1, <2>2
  <1>12. /\ Own(m.u, OthersPg(b), OthersCl(b), Pg(b)', Cg(b)')
         /\ \A r \in X : /\ Own(m.u, OthersPg(b), OthersCl(b), ToSet(r.ep), ToSet(r.cl))
                         /\ Pg(b)' \cap ToSet(r.ep) = {} /\ Cg(b)' \cap ToSet(r.cl) = {}
         /\ \A r \in X : DelOK(r)
    BY <1>3, <1>11 DEF Placed
  <1>13. /\ m.u \in Masks
         /\ OthersPg(b) \subseteq m.u.md /\ OthersCl(b) \subseteq m.u.clusters
         /\ Pg(b)' \subseteq m.u.md /\ Cg(b)' \subseteq m.u.clusters
         /\ Pg(b)' \cap OthersPg(b) = {} /\ Cg(b)' \cap OthersCl(b) = {}
    BY <1>12 DEF Own
  <1>14. ASSUME NEW r \in X
         PROVE  /\ ToSet(r.ep) \subseteq m.u.md /\ ToSet(r.cl) \subseteq m.u.clusters
                /\ ToSet(r.ep) \cap OthersPg(b) = {} /\ ToSet(r.cl) \cap OthersCl(b) = {}
    BY <1>12 DEF Own
  <1>15. /\ \A c \in MdPages \ {b} : Pg(c) \subseteq OthersPg(b) /\ Cg(c) \subseteq OthersCl(b)
         /\ \A r \in deleted : ToSet(r.ep) \subseteq OthersPg(b) /\ ToSet(r.cl) \subseteq OthersCl(b)
    BY OthersIs
  <1>16. Types'
    <2>1. /\ used' \in Masks /\ masks' \in Masks /\ bs' \in States /\ DOMAIN blob' = MdPages
          /\ crashes' \in 0 .. MaxCrashes /\ disk' \in [MdPages -> Page]
          /\ super_clean' \in BOOLEAN /\ clean' \in BOOLEAN /\ changes' \in 0 .. MaxChanges
      BY <1>1, <1>2, <1>7, <1>13 DEF Types, Touches
    <2>2. changes \in Nat /\ changes' \in Nat /\ changes <= changes'
      BY <1>7, BoundsAssumption DEF Types, Touches
    <2>3. m.a \in Doomed .. changes'
      BY <1>4 DEF Known
    <2>4. acked' \in [MdPages -> Int]
      <3>1. m.a \in Int
        BY <2>3
      <3> QED
        BY <1>1, <1>7, <3>1 DEF Types
    <2>5. \A c \in MdPages : acked'[c] \in Doomed .. changes'
      <3>1. \A c \in MdPages \ {b} : acked[c] \in Doomed .. changes'
        BY <1>7, <2>2 DEF Types, Doomed
      <3> QED
        BY <1>10, <2>3, <3>1
    <2>6. \A c \in MdPages : InMemory(c)' => blob'[c].ver <= changes'
      <3>1. x # NoBlob => x.ver <= changes'
        BY <1>3 DEF Placed
      <3>2. ASSUME NEW c \in MdPages \ {b}, blob[c] # NoBlob PROVE blob[c].ver <= changes'
        <4>1. blob[c].ver <= changes /\ Mem(disk, c, blob[c])
          BY <1>7, <3>2 DEF Types, InMemory, Blobs
        <4>2. blob[c].ver \in Nat
          BY <4>1, MemShape, BaseTypes
        <4> QED
          BY <2>2, <4>1, <4>2
      <3> QED
        BY <1>9, <3>1, <3>2 DEF InMemory
    <2>7. \A c \in MdPages : RootAt(disk', c) => disk'[c].ver <= changes'
      <3>1. RootAt(disk', b) => disk'[b].ver <= changes'
        BY DEF Touches
      <3>2. ASSUME NEW c \in MdPages \ {b}, RootAt(disk', c) PROVE disk'[c].ver <= changes'
        <4>1. RootAt(disk, c) /\ disk'[c] = disk[c]
          BY <1>2, <3>2 DEF Same
        <4>2. disk[c].ver <= changes /\ disk \in [MdPages -> Page]
          BY <1>7, <4>1 DEF Types
        <4>3. disk[c].ver \in Nat
          BY <4>1, <4>2, PageTypes DEF RootAt
        <4> QED
          BY <2>2, <4>1, <4>2, <4>3
      <3> QED
        BY <3>1, <3>2
    <2> QED
      BY <2>1, <2>4, <2>5, <2>6, <2>7 DEF Types
  <1>17. Blobs'
    <2>1. /\ IF x # NoBlob THEN Mem(disk', b, x) ELSE Closed(disk', b)
          /\ Ack(disk', b, m.a)
          /\ RootAt(disk', b) /\ x.st = "deleting" => m.a = Doomed
      BY <1>3, <1>4, <1>5 DEF Placed, Known, NoBlob
    <2>2. ASSUME NEW c \in MdPages \ {b}
          PROVE  /\ IF blob[c] # NoBlob THEN Mem(disk', c, blob[c]) ELSE Closed(disk', c)
                 /\ Ack(disk', c, acked[c])
                 /\ RootAt(disk', c) /\ blob[c].st = "deleting" => acked[c] = Doomed
      BY <1>2, <1>7 DEF Same, Blobs, InMemory
    <2> QED
      BY <1>9, <1>10, <2>1, <2>2 DEF Blobs, InMemory
  <1>18. Apart'
    <2>1. ASSUME NEW c \in MdPages, NEW a \in MdPages, c # a
          PROVE  Pg(c)' \cap Pg(a)' = {} /\ Cg(c)' \cap Cg(a)' = {}
      <3>1. CASE c # b /\ a # b
        BY <1>7, <1>11, <2>1, <3>1 DEF Apart
      <3>2. CASE c = b
        BY <1>11, <1>13, <1>15, <2>1, <3>2
      <3>3. CASE a = b
        BY <1>11, <1>13, <1>15, <2>1, <3>3
      <3> QED
        BY <3>1, <3>2, <3>3
    <2>2. ASSUME NEW c \in MdPages, NEW r \in deleted \cup X
          PROVE  Pg(c)' \cap ToSet(r.ep) = {} /\ Cg(c)' \cap ToSet(r.cl) = {}
      <3>1. CASE c = b /\ r \in X
        BY <1>12, <3>1
      <3>2. CASE c = b /\ r \in deleted
        BY <1>13, <1>15, <3>2
      <3>3. CASE c # b /\ r \in X
        BY <1>11, <1>14, <1>15, <3>3
      <3>4. CASE c # b /\ r \in deleted
        BY <1>7, <1>11, <3>4 DEF Apart
      <3> QED
        BY <3>1, <3>2, <3>3, <3>4
    <2>3. ASSUME NEW r \in deleted \cup X, NEW s \in deleted \cup X, r # s
          PROVE  ToSet(r.ep) \cap ToSet(s.ep) = {} /\ ToSet(r.cl) \cap ToSet(s.cl) = {}
      <3>1. CASE r \in deleted /\ s \in deleted
        BY <1>7, <2>3, <3>1 DEF Apart
      <3>2. CASE r \in X /\ s \in deleted
        BY <1>14, <1>15, <3>2
      <3>3. CASE s \in X /\ r \in deleted
        BY <1>14, <1>15, <3>3
      <3>4. CASE r \in X /\ s \in X
        BY <1>6, <2>3, <3>4
      <3> QED
        BY <3>1, <3>2, <3>3, <3>4
    <2> QED
      BY <1>1, <2>1, <2>2, <2>3 DEF Apart
  <1>19. Claimed'
    <2>1. ASSUME NEW c \in MdPages PROVE Pg(c)' \subseteq used'.md /\ Cg(c)' \subseteq used'.clusters
      BY <1>1, <1>11, <1>13, <1>15
    <2>2. ASSUME NEW r \in deleted \cup X
          PROVE  ToSet(r.ep) \subseteq used'.md /\ ToSet(r.cl) \subseteq used'.clusters
      BY <1>1, <1>13, <1>14, <1>15
    <2>3. ASSUME NEW c \in MdPages, LoadsAt(disk', c) \/ blob'[c].st \in Alive
          PROVE  c \in used'.ids \/ (blob'[c] # NoBlob /\ blob'[c].st = "deleting")
      <3>1. CASE c # b
        <4>1. LoadsAt(disk, c) \/ blob[c].st \in Alive
          BY <1>2, <1>9, <2>3, <3>1 DEF Same
        <4>2. c \in used.ids \/ (blob[c] # NoBlob /\ blob[c].st = "deleting")
          BY <1>7, <1>8, <4>1 DEF Claimed, InMemory
        <4>3. used.ids \ {b} \subseteq m.u.ids
          BY <1>4 DEF Known
        <4> QED
          BY <1>1, <1>9, <3>1, <4>2, <4>3
      <3>2. CASE c = b
        <4>1. ~Detached(m.r)
          <5>1. CASE LoadsAt(disk', b)
            BY <1>3, <5>1 DEF LoadsAt
          <5>2. CASE x.st \in Alive
            BY <5>2 DEF x, NoBlob, Alive
          <5> QED
            BY <1>9, <2>3, <3>2, <5>1, <5>2
        <4>2. x = m.r
          BY <4>1 DEF x
        <4>3. b \in m.u.ids \/ m.r.st = "deleting"
          BY <1>4, <1>9, <2>3, <3>2, <4>2 DEF Known
        <4> QED
          BY <1>1, <1>9, <3>2, <4>2, <4>3 DEF NoBlob
      <3> QED
        BY <3>1, <3>2
    <2> QED
      BY <1>1, <2>1, <2>2, <2>3 DEF Claimed, InMemory
  <1>20. MasksTrue'
    <2>1. super_clean' => super_clean /\ disk' = disk /\ masks' = masks
      BY DEF Touches
    <2> QED
      BY <1>7, <2>1 DEF MasksTrue
  <1>21. Modes'
    <2>1. /\ bs' = "loaded" /\ (~clean => ~clean') /\ (~clean' => ~super_clean')
          /\ (m.r = NoBlob \/ m.r.io \in {"idle", "super"} \/ ~clean')
      BY DEF Touches
    <2>2. X # {} => ~clean'
      <3> SUFFICES ASSUME NEW r \in X PROVE ~clean'
        OBVIOUS
      <3>1. r = m.r /\ DelOK(r)
        BY <1>6, <1>12
      <3> QED
        BY <2>1, <3>1 DEF DelOK, NoBlob
    <2>3. deleted \cup X # {} => ~clean'
      BY <1>7, <2>1, <2>2 DEF Modes
    <2>4. \A r \in deleted \cup X : DelOK(r)
      BY <1>7, <1>12 DEF Modes
    <2>5. ASSUME NEW c \in MdPages, blob'[c] # NoBlob, blob'[c].io \notin {"idle", "super"}
          PROVE  ~clean'
      <3>1. CASE c = b
        BY <1>5, <1>9, <2>1, <2>5, <3>1
      <3>2. CASE c # b
        BY <1>7, <1>9, <2>1, <2>5, <3>2 DEF Modes, InMemory
      <3> QED
        BY <3>1, <3>2
    <2> QED
      BY <1>1, <2>1, <2>3, <2>4, <2>5 DEF Modes, InMemory
  <1> QED
    BY <1>16, <1>17, <1>18, <1>19, <1>20, <1>21 DEF IndInv

-----------------------------------------------------------------------------
(* The calls of the application. *)

(* What is known of a blob, before a step. *)
LEMMA KnownNow ==
  ASSUME IndInv, Running, NEW b \in MdPages, NEW n \in Nat, changes <= n
  PROVE  Known(disk, b, Memory(b), n)
  <1>1. Memory(b).r = blob[b] /\ Memory(b).u = used /\ Memory(b).a = acked[b]
    BY DEF Memory
  <1>2. acked[b] \in Doomed .. n
    <2>1. changes \in Nat /\ acked[b] \in Doomed .. changes
      BY BoundsAssumption DEF IndInv, Types
    <2> QED
      BY <2>1 DEF Doomed
  <1>3. /\ Ack(disk, b, acked[b])
        /\ RootAt(disk, b) /\ blob[b].st = "deleting" => acked[b] = Doomed
    BY DEF IndInv, Blobs
  <1>4. LoadsAt(disk, b) \/ blob[b].st \in Alive => b \in used.ids \/ blob[b].st = "deleting"
    BY DEF IndInv, Claimed
  <1> QED
    BY <1>1, <1>2, <1>3, <1>4 DEF Known

(* The same for another record of the blob. *)
LEMMA KnownStill ==
  ASSUME IndInv, Running, NEW b \in MdPages, NEW n \in Nat, changes <= n, blob[b].st # "deleting",
         NEW m, m.u = used, m.a = acked[b], m.r.st # "deleting",
         LoadsAt(disk, b) \/ blob[b].st \in Alive
  PROVE  Known(disk, b, m, n)
  <1>1. Known(disk, b, Memory(b), n)
    BY KnownNow
  <1>2. Memory(b).r = blob[b] /\ Memory(b).u = used /\ Memory(b).a = acked[b]
    BY DEF Memory
  <1> QED
    BY <1>1, <1>2 DEF Known

(* A call leaves the disk alone. *)
LEMMA CallGood ==
  ASSUME IndInv, bs = "loaded", NEW b \in MdPages, NEW m, SetMemory(b, m), Others,
         changes' = changes \/ Changes,
         m.r = NoBlob \/ m.r.io \in {"idle", "super"} \/ ~clean,
         Good(disk, b, m, OthersPg(b), OthersCl(b), changes')
  PROVE  IndInv'
  <1>1. changes \in 0 .. MaxChanges /\ changes' \in 0 .. MaxChanges /\ changes <= changes'
    BY BoundsAssumption DEF IndInv, Types, Changes
  <1>2. /\ disk' = disk /\ super_clean' = super_clean /\ masks' = masks /\ bs' = bs
        /\ clean' = clean /\ crashes' = crashes
    BY DEF Others
  <1>3. \A c \in MdPages : Same(disk', c)
    BY <1>2, SameDisk
  <1>4. /\ disk \in [MdPages -> Page] /\ clean \in BOOLEAN /\ super_clean \in BOOLEAN
        /\ ~clean => ~super_clean
    BY DEF IndInv, Types, Modes
  <1>5. RootAt(disk', b) => disk'[b].ver <= changes'
    <2> SUFFICES ASSUME RootAt(disk, b) PROVE disk[b].ver <= changes'
      BY <1>2
    <2>1. disk[b].ver <= changes
      BY DEF IndInv, Types
    <2>2. disk[b].ver \in Nat
      BY <1>4, PageTypes DEF RootAt
    <2>3. changes \in Int /\ changes' \in Int
      BY <1>1
    <2> QED
      BY <1>1, <2>1, <2>2, <2>3
  <1>6. Touches(b, m)
    BY <1>1, <1>2, <1>3, <1>4, <1>5 DEF Touches
  <1>7. Good(disk', b, m, OthersPg(b), OthersCl(b), changes')
    BY <1>2
  <1> QED
    BY <1>6, <1>7, StepGood

(* What is true of a blob that is open. *)
LEMMA OpenNow ==
  ASSUME IndInv, NEW b \in MdPages, InMemory(b)
  PROVE  /\ bs = "loaded" /\ Running /\ Mem(disk, b, blob[b]) /\ blob[b] \in BlobRec
         /\ disk \in [MdPages -> Page] /\ changes \in Nat /\ blob[b].ver \in Nat
         /\ blob[b].ver <= changes /\ clean \in BOOLEAN
         /\ Own(used, OthersPg(b), OthersCl(b), MP(blob[b]), ToSet(blob[b].cl))
         /\ blob[b].io \in {"idle", "super"} \/ ~clean
  <1>1. bs = "loaded"
    BY DEF IndInv, Modes
  <1>2. Running
    BY <1>1 DEF Running
  <1>3. Mem(disk, b, blob[b])
    BY DEF IndInv, Blobs
  <1>4. Base(b, blob[b])
    BY <1>3, MemShape
  <1>5. Own(used, OthersPg(b), OthersCl(b), MP(blob[b]), ToSet(blob[b].cl))
    BY <1>2, OwnNow DEF Pg, Cg
  <1>6. changes \in Nat /\ clean \in BOOLEAN /\ disk \in [MdPages -> Page] /\ blob[b].ver <= changes
    BY BoundsAssumption DEF IndInv, Types
  <1>7. blob[b].io \in {"idle", "super"} \/ ~clean
    BY DEF IndInv, Modes
  <1> QED
    BY <1>1, <1>2, <1>3, <1>4, <1>5, <1>6, <1>7, BaseTypes DEF Base

(* spdk_blob_set_xattr. *)
LEMMA SetXattrKeeps ==
  ASSUME IndInv, NEW b \in MdPages, NEW big \in BOOLEAN, blob_set_xattr(b, big)
  PROVE  IndInv'
  <1> DEFINE r == blob[b]
             s == [r EXCEPT !.big = big, !.dirty = TRUE, !.ver = r.ver + 1]
             m == With(Memory(b), s)
  <1>1. /\ InMemory(b) /\ r.st = "open"
        /\ SetMemory(b, m) /\ Changes /\ Others
    BY DEF blob_set_xattr, IsOpen
  <1>2. /\ bs = "loaded" /\ Running /\ Mem(disk, b, r) /\ r \in BlobRec
        /\ disk \in [MdPages -> Page] /\ changes \in Nat /\ r.ver \in Nat /\ r.ver <= changes
        /\ Own(used, OthersPg(b), OthersCl(b), MP(r), ToSet(r.cl))
        /\ r.io \in {"idle", "super"} \/ ~clean
    BY <1>1, OpenNow
  <1>3. m.r = s /\ m.u = used /\ m.a = acked[b]
    BY WithFacts DEF Memory
  <1>4. changes' = changes + 1
    BY <1>1 DEF Changes
  <1> HIDE DEF r
  <1>5. Tweaked(r, s) /\ s.ver = r.ver + 1 /\ s.io = r.io /\ s.st = "open"
    <2>1. PICK v \in Nat : v = r.ver + 1 /\ v >= r.ver
      BY <1>2
    <2>2. s = [r EXCEPT !.big = big, !.dirty = TRUE, !.ver = v]
      BY <2>1
    <2> HIDE DEF s
    <2>3. s \in BlobRec
      BY <1>2, <2>2 DEF BlobRec
    <2> QED
      BY <1>1, <1>2, <2>1, <2>2, <2>3, SMTT(30) DEF Tweaked, BlobRec, Alive
  <1>10. blob[b].st # "deleting" /\ blob[b].st \in Alive
    BY <1>1 DEF r, Alive
  <1> HIDE DEF s, m
  <1>6. Mem(disk, b, s) /\ MP(s) = MP(r) /\ s.cl = r.cl
    BY <1>1, <1>2, <1>5, MemTweaked DEF Alive
  <1>7. Known(disk, b, m, changes')
    BY <1>2, <1>3, <1>4, <1>5, <1>10, KnownStill
  <1>8. GoodMem(disk, b, m, OthersPg(b), OthersCl(b), changes')
    BY <1>2, <1>3, <1>4, <1>5, <1>6 DEF GoodMem
  <1>9. Good(disk, b, m, OthersPg(b), OthersCl(b), changes')
    BY <1>7, <1>8 DEF Good
  <1> QED
    BY <1>1, <1>2, <1>3, <1>5, <1>9, CallGood

(* spdk_blob_resize. *)
LEMMA ResizeKeeps ==
  ASSUME IndInv, NEW b \in MdPages, NEW sz \in Nat, spdk_blob_resize(b, sz)
  PROVE  IndInv'
  <1> DEFINE r == blob[b]
             s == [r EXCEPT !.ver = r.ver + 1]
             m == With(Memory(b), s)
  <1>1. /\ InMemory(b) /\ r.st = "open" /\ r.io = "idle" /\ CanResize(r, used, sz)
        /\ SetMemory(b, blob_resize(m, sz)) /\ Changes /\ Others
    BY DEF spdk_blob_resize, IsOpen
  <1>2. /\ bs = "loaded" /\ Running /\ Mem(disk, b, r) /\ r \in BlobRec
        /\ disk \in [MdPages -> Page] /\ changes \in Nat /\ r.ver \in Nat /\ r.ver <= changes
        /\ Own(used, OthersPg(b), OthersCl(b), MP(r), ToSet(r.cl))
    BY <1>1, OpenNow
  <1>3. m.r = s /\ m.u = used /\ m.a = acked[b]
    BY WithFacts DEF Memory
  <1>4. changes' = changes + 1
    BY <1>1 DEF Changes
  <1> HIDE DEF r
  <1>5. Tweaked(r, s) /\ s.ver = r.ver + 1 /\ s.io = "idle" /\ s.st = "open"
    <2>1. PICK v \in Nat : v = r.ver + 1 /\ v >= r.ver
      BY <1>2
    <2>2. s = [r EXCEPT !.ver = v]
      BY <2>1
    <2> HIDE DEF s
    <2>3. s \in BlobRec
      BY <1>2, <2>2 DEF BlobRec
    <2> QED
      BY <1>1, <1>2, <2>1, <2>2, <2>3 DEF Tweaked, BlobRec, Alive
  <1>10. blob[b].st # "deleting" /\ blob[b].st \in Alive
    BY <1>1 DEF r, Alive
  <1> HIDE DEF s, m
  <1>6. Mem(disk, b, s) /\ MP(s) = MP(r) /\ s.cl = r.cl
    BY <1>1, <1>2, <1>5, MemTweaked DEF Alive
  <1>7. Idle(disk, b, s)
    BY <1>5, <1>6 DEF Mem
  <1>8. Unwritten(disk, b, s) /\ s.pages = s.clean_pages /\ Base(b, s)
    BY <1>7 DEF Idle, Unwritten
  <1>9. MP(s) = Kept(s) \cup s.clean_pages
    BY <1>5 DEF MP, Kept
  <1>11. CanResize(s, used, sz)
    BY <1>1, <1>5 DEF CanResize, MissingCl, MissingEp, Tweaked
  <1>12. Own(m.u, OthersPg(b), OthersCl(b), Kept(m.r) \cup m.r.clean_pages, ToSet(m.r.cl))
    BY <1>2, <1>3, <1>6, <1>9
  <1>20. Base(b, m.r) /\ CanResize(m.r, m.u, sz)
    BY <1>3, <1>8, <1>11
  <1>13. PICK g : g = blob_resize(m, sz) /\ Resized(b, m, g, sz, OthersPg(b), OthersCl(b))
    BY <1>12, <1>20, ResizeFacts
  <1>14. PICK cl \in Seq(Clusters), ep \in Seq(MdPages) :
           LET t == g.r IN
           /\ g = blob_resize(m, sz)
           /\ Base(b, t) /\ Own(g.u, OthersPg(b), OthersCl(b), Kept(t) \cup t.clean_pages, ToSet(t.cl))
           /\ g.u.ids = used.ids /\ g.a = acked[b]
           /\ t.cl = s.cl \o cl /\ t.ep = s.ep \o ep
           /\ t.st = s.st /\ t.et = s.et /\ t.ver = s.ver /\ t.pages = s.pages
           /\ t.clean_num = s.clean_num /\ t.clean_nep = s.clean_nep
           /\ t.clean_pages = s.clean_pages /\ t.io = s.io
    BY <1>3, <1>13 DEF Resized
  <1> DEFINE t == g.r
  <1>21. t.ver >= s.ver
    BY <1>2, <1>5, <1>14
  <1>15. Unwritten(disk, b, t)
    BY <1>2, <1>8, <1>14, <1>21, UnwrittenLonger
  <1>16. Idle(disk, b, t) /\ t.io = "idle" /\ t.st = "open"
    BY <1>5, <1>8, <1>14, <1>15 DEF Idle, Alive
  <1>17. Mem(disk, b, t) /\ MP(t) = Kept(t) \cup t.clean_pages
    BY <1>16 DEF Mem, MP, Kept
  <1>18. Known(disk, b, g, changes')
    <2>0. changes' \in Nat /\ changes <= changes' /\ m.r.st # "deleting"
      BY <1>2, <1>3, <1>4, <1>5
    <2>1. Known(disk, b, m, changes')
      BY <2>0, <1>2, <1>3, <1>10, KnownStill
    <2> QED
      BY <2>1, <1>3, <1>5, <1>14 DEF Known
  <1>19. Good(disk, b, g, OthersPg(b), OthersCl(b), changes')
    <2>1. t.ver <= changes'
      BY <1>2, <1>4, <1>5, <1>14
    <2>2. Own(g.u, OthersPg(b), OthersCl(b), MP(t), ToSet(t.cl))
      BY <1>14, <1>17
    <2> QED
      BY <1>17, <1>18, <2>1, <2>2 DEF Good, GoodMem
  <1> QED
    BY <1>1, <1>2, <1>14, <1>16, <1>19, CallGood

(* blob_persist of an open blob, whose state may have become "closing". *)
LEMMA SyncKeeps ==
  ASSUME IndInv, NEW b \in MdPages, IsOpen(b), NEW m, Tweaked(blob[b], m.r), m.r.ver = blob[b].ver,
         m.u = used, m.a = acked[b], SetMemory(b, blob_persist(m)), Others, UNCHANGED changes
  PROVE  IndInv'
  <1> DEFINE r == blob[b]
             s == m.r
  <1>1. InMemory(b) /\ r.st = "open" /\ r.st \in Alive /\ r.st # "deleting"
    BY DEF IsOpen, Alive
  <1>2. /\ bs = "loaded" /\ Running /\ Mem(disk, b, r) /\ r \in BlobRec
        /\ disk \in [MdPages -> Page] /\ changes \in Nat /\ r.ver \in Nat /\ r.ver <= changes
        /\ Own(used, OthersPg(b), OthersCl(b), MP(r), ToSet(r.cl))
        /\ r.io \in {"idle", "super"} \/ ~clean
        /\ clean \in BOOLEAN
    BY <1>1, OpenNow
  <1>3. Tweaked(r, s) /\ s.ver = r.ver /\ s.st \in Alive /\ s.st # "deleting" /\ s.io = r.io
    BY DEF Tweaked, Alive
  <1> HIDE DEF r, s
  <1>4. Mem(disk, b, s) /\ MP(s) = MP(r) /\ s.cl = r.cl
    BY <1>1, <1>2, <1>3, MemTweaked
  <1>5. Known(disk, b, m, changes)
    <2>1. /\ changes <= changes /\ m.r.st # "deleting" /\ blob[b].st # "deleting"
          /\ blob[b].st \in Alive
      BY <1>1, <1>2, <1>3 DEF r, s
    <2> QED
      BY <1>2, <2>1, KnownStill
  <1>6. CASE s.io # "idle"
    <2> DEFINE t == [s EXCEPT !.pend = TRUE]
               g == With(m, t)
    <2>1. blob_persist(m) = g /\ g.r = t /\ g.u = used /\ g.a = acked[b]
      BY <1>6, WithFacts DEF blob_persist, s
    <2>2. s \in BlobRec
      BY <1>3 DEF Tweaked
    <2>3. Tweaked(s, t) /\ t.io = s.io /\ t.ver = s.ver /\ t.st = s.st
      <3>1. t \in BlobRec
        BY <2>2 DEF BlobRec
      <3>2. s.ver \in Nat
        BY <1>2, <1>3
      <3> QED
        BY <1>3, <2>2, <3>1, <3>2 DEF Tweaked, BlobRec
    <2> HIDE DEF t, g
    <2>4. Mem(disk, b, t) /\ MP(t) = MP(s) /\ t.cl = s.cl
      BY <1>2, <1>3, <1>4, <2>3, MemTweaked
    <2>5. Known(disk, b, g, changes)
      BY <1>3, <1>5, <2>1, <2>3 DEF Known, s
    <2>6. GoodMem(disk, b, g, OthersPg(b), OthersCl(b), changes)
      BY <1>2, <1>3, <1>4, <2>1, <2>3, <2>4 DEF GoodMem
    <2>7. Good(disk, b, g, OthersPg(b), OthersCl(b), changes')
      BY <2>5, <2>6 DEF Good
    <2> QED
      BY <1>2, <1>3, <2>1, <2>3, <2>7, CallGood
  <1>7. CASE s.io = "idle"
    <2>1. Idle(disk, b, s)
      BY <1>4, <1>7 DEF Mem
    <2>2. Kept(s) \subseteq MP(s)
      BY DEF Kept, MP
    <2>3. Own(used, OthersPg(b), OthersCl(b), Kept(s), ToSet(s.cl))
      BY <1>2, <1>4, <2>2 DEF Own
    <2>4. ToPersist(disk, b, m, OthersPg(b), OthersCl(b), changes)
      BY <1>2, <1>3, <1>5, <2>1, <2>3 DEF ToPersist, s
    <2> DEFINE g == blob_persist(m)
    <2>5. /\ Good(disk, b, g, OthersPg(b), OthersCl(b), changes)
          /\ clean => g.r = NoBlob \/ g.r.io \in {"idle", "super"}
      BY <1>2, <1>7, <2>4, PersistGood DEF s
    <2> HIDE DEF g
    <2>6. SetMemory(b, g)
      BY DEF g
    <2>7. g.r = NoBlob \/ g.r.io \in {"idle", "super"} \/ ~clean
      BY <1>2, <2>5
    <2>8. Good(disk, b, g, OthersPg(b), OthersCl(b), changes')
      BY <2>5
    <2> QED
      BY <1>2, <2>6, <2>7, <2>8, CallGood
  <1> QED
    BY <1>6, <1>7

(* spdk_blob_sync_md and spdk_blob_close. *)
LEMMA SyncOrCloseKeeps ==
  ASSUME IndInv, NEW b \in MdPages, spdk_blob_sync_md(b) \/ spdk_blob_close(b)
  PROVE  IndInv'
  <1>1. IsOpen(b) /\ Others /\ UNCHANGED changes
    BY DEF spdk_blob_sync_md, spdk_blob_close
  <1>2. blob[b] \in BlobRec /\ blob[b].st \in Alive /\ blob[b].ver \in Nat
    BY <1>1, OpenNow DEF IsOpen, Alive
  <1>3. CASE spdk_blob_sync_md(b)
    <2> DEFINE m == Memory(b)
    <2>1. m.r = blob[b] /\ m.u = used /\ m.a = acked[b]
      BY DEF Memory
    <2>2. SetMemory(b, blob_persist(m))
      BY <1>3 DEF spdk_blob_sync_md
    <2> HIDE DEF m
    <2>3. Tweaked(blob[b], m.r) /\ m.r.ver = blob[b].ver
      BY <1>2, <2>1 DEF Tweaked
    <2> QED
      BY <1>1, <2>1, <2>2, <2>3, SyncKeeps
  <1>4. CASE spdk_blob_close(b)
    <2> DEFINE s == [blob[b] EXCEPT !.st = "closing"]
               m == With(Memory(b), s)
    <2>1. m.r = s /\ m.u = used /\ m.a = acked[b]
      BY WithFacts DEF Memory
    <2>2. SetMemory(b, blob_persist(m))
      BY <1>4 DEF spdk_blob_close
    <2>3. PICK r : r = blob[b]
      OBVIOUS
    <2>5. r \in BlobRec /\ r.ver \in Nat /\ s = [r EXCEPT !.st = "closing"]
      BY <1>2, <2>3
    <2> HIDE DEF s
    <2>6. s \in BlobRec /\ s.ver >= r.ver
      BY <2>5 DEF BlobRec, Alive
    <2>8. /\ s.id = r.id /\ s.et = r.et /\ s.ver = r.ver /\ s.st = "closing"
          /\ s.num = r.num /\ s.cl = r.cl /\ s.nep = r.nep /\ s.ep = r.ep /\ s.pages = r.pages
          /\ s.clean_num = r.clean_num /\ s.clean_nep = r.clean_nep
          /\ s.clean_pages = r.clean_pages /\ s.io = r.io /\ s.left = r.left
          /\ s.root = r.root /\ s.chain = r.chain /\ s.extent = r.extent
      BY <2>5 DEF BlobRec
    <2>7. Tweaked(r, s) /\ s.ver = r.ver
      BY <2>6, <2>8 DEF Tweaked, Alive
    <2>4. Tweaked(blob[b], s) /\ s.ver = blob[b].ver
      BY <2>3, <2>7
    <2> HIDE DEF s, m
    <2> QED
      BY <1>1, <2>1, <2>2, <2>4, SyncKeeps
  <1> QED
    BY <1>3, <1>4

(* The operators of the model that read the disk. *)
LEMMA LoadsIs ==
  ASSUME NEW b \in MdPages
  PROVE  /\ Loads(b) <=> LoadsAt(disk, b)
         /\ b \in Roots <=> RootAt(disk, b)
         /\ LastPage(b) = LastAt(disk, b)
         /\ PagesOnDisk(b) = ({b, disk[b].next} \ {NoPage}) \cup ToSet(BodyAt(disk, b).ep)
         /\ ClustersOnDisk(b) = ClustersAt(disk, b)
  BY DEF Loads, LoadsAt, Roots, RootAt, LastPage, LastAt, BodyAt, PagesOnDisk, ClustersOnDisk, ClustersAt

(* What MayOpen gives. *)
LEMMA MayOpenNow ==
  ASSUME IndInv, NEW b \in MdPages, MayOpen(b)
  PROVE  /\ bs = "loaded" /\ Running /\ LoadsAt(disk, b) /\ ~InMemory(b) /\ b \in used.ids
         /\ disk \in [MdPages -> Page] /\ changes \in Nat /\ clean \in BOOLEAN
         /\ disk[b].ver \in Nat /\ disk[b].ver <= changes
         /\ Own(used, OthersPg(b), OthersCl(b), DiskPg(disk, b), DiskCl(disk, b))
         /\ \E r : /\ r = blob_load(b) /\ Idle(disk, b, r) /\ r.io = "idle" /\ ~r.pend /\ r.st = "open"
                   /\ r.ver = disk[b].ver /\ r.id = b /\ r.clean_pages = r.pages
                   /\ Kept(r) = DiskPg(disk, b) /\ ToSet(r.cl) \subseteq DiskCl(disk, b)
  <1>1. /\ bs = "loaded" /\ b \in used.ids /\ ~InMemory(b) /\ LoadsAt(disk, b)
        /\ ExtentsLoad(LastPage(b).body.ep)
    BY LoadsIs DEF MayOpen, Loaded
  <1>2. Running
    BY <1>1 DEF Running
  <1>3. disk \in [MdPages -> Page] /\ changes \in Nat /\ clean \in BOOLEAN
    BY BoundsAssumption DEF IndInv, Types
  <1>4. RootAt(disk, b) /\ disk[b].ver <= changes
    BY <1>1 DEF IndInv, Types, LoadsAt
  <1>5. disk[b].ver \in Nat
    BY <1>3, <1>4, PageTypes DEF RootAt
  <1>6. Closed(disk, b)
    BY <1>1 DEF IndInv, Blobs
  <1>7. Own(used, OthersPg(b), OthersCl(b), DiskPg(disk, b), DiskCl(disk, b))
    BY <1>1, <1>2, OwnNow DEF Pg, Cg
  <1>8. \E r : /\ r = blob_load(b) /\ Idle(disk, b, r) /\ r.io = "idle" /\ ~r.pend /\ r.st = "open"
               /\ r.ver = disk[b].ver /\ r.id = b /\ r.clean_pages = r.pages
               /\ Kept(r) = DiskPg(disk, b) /\ ToSet(r.cl) \subseteq DiskCl(disk, b)
    BY <1>1, <1>3, <1>6, LoadFacts
  <1> QED
    BY <1>1, <1>2, <1>3, <1>4, <1>5, <1>7, <1>8

(* spdk_bs_open_blob. *)
LEMMA OpenKeeps ==
  ASSUME IndInv, NEW b \in MdPages, bs_open_blob(b)
  PROVE  IndInv'
  <1>1. MayOpen(b) /\ SetMemory(b, With(Memory(b), blob_load(b))) /\ Others /\ UNCHANGED changes
    BY DEF bs_open_blob
  <1>2. /\ bs = "loaded" /\ Running /\ ~InMemory(b) /\ LoadsAt(disk, b)
        /\ disk \in [MdPages -> Page] /\ changes \in Nat
        /\ disk[b].ver \in Nat /\ disk[b].ver <= changes
        /\ Own(used, OthersPg(b), OthersCl(b), DiskPg(disk, b), DiskCl(disk, b))
    BY <1>1, MayOpenNow
  <1>3. PICK r : /\ r = blob_load(b) /\ Idle(disk, b, r) /\ r.io = "idle" /\ ~r.pend /\ r.st = "open"
                 /\ r.ver = disk[b].ver /\ r.id = b /\ r.clean_pages = r.pages
                 /\ Kept(r) = DiskPg(disk, b) /\ ToSet(r.cl) \subseteq DiskCl(disk, b)
    BY <1>1, MayOpenNow
  <1> DEFINE m == With(Memory(b), r)
  <1>4. m.r = r /\ m.u = used /\ m.a = acked[b] /\ SetMemory(b, m)
    BY <1>1, <1>3, WithFacts DEF Memory
  <1> HIDE DEF m
  <1>5. Known(disk, b, m, changes)
    <2>1. changes <= changes /\ m.r.st # "deleting" /\ blob[b].st # "deleting"
      BY <1>2, <1>3, <1>4 DEF InMemory, NoBlob
    <2> QED
      BY <1>2, <1>4, <2>1, KnownStill
  <1>6. Mem(disk, b, r) /\ MP(r) = DiskPg(disk, b)
    BY <1>3 DEF Mem, MP, Kept
  <1>7. Own(used, OthersPg(b), OthersCl(b), MP(r), ToSet(r.cl))
    BY <1>2, <1>3, <1>6 DEF Own
  <1>8. Good(disk, b, m, OthersPg(b), OthersCl(b), changes')
    BY <1>1, <1>2, <1>3, <1>4, <1>5, <1>6, <1>7 DEF Good, GoodMem
  <1> QED
    BY <1>1, <1>2, <1>3, <1>4, <1>8, CallGood

(* The free clusters and pages can be counted. *)
LEMMA FreeFacts ==
  ASSUME NEW u \in Masks
  PROVE  Cardinality(FreeClusters(u)) \in Nat /\ Cardinality(FreeExtentPages(u)) \in Nat
  <1>1. IsFiniteSet(Clusters) /\ IsFiniteSet(MdPages)
    BY SizesAssumption, FS_Interval DEF Clusters, MdPages
  <1>2. FreeClusters(u) \in SUBSET Clusters /\ FreeExtentPages(u) \in SUBSET MdPages
    BY DEF FreeClusters, FreeExtentPages
  <1> QED
    BY <1>1, <1>2, FS_Subset, FS_CardinalityType

(* A blob can always be resized to nothing. *)
LEMMA CanResizeToNone ==
  ASSUME NEW b \in MdPages, NEW r, Base(b, r), NEW u \in Masks
  PROVE  CanResize(r, u, 0)
  <1>1. Len(r.cl) \in Nat /\ Len(r.ep) \in Nat /\ ExtentPages(0) = 0
    BY BaseTypes, ExtentPagesFacts
  <1>2. MissingCl(r, 0) = 0 /\ MissingEp(r, 0) = 0
    BY <1>1 DEF MissingCl, MissingEp
  <1> QED
    BY <1>2, FreeFacts DEF CanResize

(* bs_delete_blob_finish. *)
LEMMA DeleteKeeps ==
  ASSUME IndInv, NEW b \in MdPages, bs_delete_blob_finish(b)
  PROVE  IndInv'
  <1>1. MayOpen(b) /\ Changes /\ Others
    BY DEF bs_delete_blob_finish
  <1>2. /\ bs = "loaded" /\ Running /\ LoadsAt(disk, b) /\ ~InMemory(b)
        /\ disk \in [MdPages -> Page] /\ changes \in Nat /\ clean \in BOOLEAN
        /\ disk[b].ver \in Nat /\ disk[b].ver <= changes
        /\ Own(used, OthersPg(b), OthersCl(b), DiskPg(disk, b), DiskCl(disk, b))
    BY <1>1, MayOpenNow
  <1>3. PICK r : /\ r = blob_load(b) /\ Idle(disk, b, r) /\ r.io = "idle" /\ ~r.pend /\ r.st = "open"
                 /\ r.ver = disk[b].ver /\ r.id = b /\ r.clean_pages = r.pages
                 /\ Kept(r) = DiskPg(disk, b) /\ ToSet(r.cl) \subseteq DiskCl(disk, b)
    BY <1>1, MayOpenNow
  <1> DEFINE s == [r EXCEPT !.st = "deleting", !.dirty = TRUE, !.pages = {}]
             u == [used EXCEPT !.ids = used.ids \ {b}]
             m == [r |-> s, u |-> u, a |-> Doomed]
  <1>4. SetMemory(b, blob_persist(blob_resize(m, 0)))
    BY <1>3 DEF bs_delete_blob_finish
  <1>5. m.r = s /\ m.u = u /\ m.a = Doomed
    OBVIOUS
  <1>6. Unwritten(disk, b, r) /\ r \in BlobRec
    BY <1>3 DEF Idle, Unwritten, Base
  <1>7. s \in BlobRec
    BY <1>6 DEF BlobRec
  <1>8. /\ Alike(r, s) /\ s.pages = {} /\ s.st = "deleting" /\ s.io = "idle" /\ ~s.pend
    BY <1>3, <1>6, <1>7 DEF Alike, BlobRec
  <1>9. u \in Masks /\ u.md = used.md /\ u.clusters = used.clusters /\ u.ids = used.ids \ {b}
    <2>1. used \in Masks
      BY <1>2 DEF Own
    <2> QED
      BY <2>1 DEF Masks
  <1> HIDE DEF s, u, m
  <1>10. Unwritten(disk, b, s) /\ Base(b, s)
    <2>1. Unwritten(disk, b, s)
      BY <1>3, <1>6, <1>8, UnwrittenAlike
    <2> QED
      BY <2>1 DEF Unwritten
  <1>11. Kept(s) \cup s.clean_pages = DiskPg(disk, b) /\ s.cl = r.cl
    BY <1>3, <1>8 DEF Kept, Alike
  <1>12. Own(u, OthersPg(b), OthersCl(b), Kept(s) \cup s.clean_pages, ToSet(s.cl))
    BY <1>2, <1>3, <1>9, <1>11 DEF Own
  <1>13. CanResize(s, u, 0)
    BY <1>9, <1>10, CanResizeToNone
  <1>14. /\ Own(m.u, OthersPg(b), OthersCl(b), Kept(m.r) \cup m.r.clean_pages, ToSet(m.r.cl))
         /\ CanResize(m.r, m.u, 0) /\ Base(b, m.r)
    BY <1>5, <1>10, <1>12, <1>13
  <1>15. PICK g : g = blob_resize(m, 0) /\ Resized(b, m, g, 0, OthersPg(b), OthersCl(b))
    BY <1>14, ResizeFacts
  <1> DEFINE t == g.r
  <1>16. /\ Base(b, t) /\ Own(g.u, OthersPg(b), OthersCl(b), Kept(t) \cup t.clean_pages, ToSet(t.cl))
         /\ g.u.ids = used.ids \ {b} /\ g.a = Doomed /\ t.dirty /\ t.num = 0
         /\ t.st = "deleting" /\ t.et = s.et /\ t.ver = s.ver /\ t.pages = {}
         /\ t.clean_num = s.clean_num /\ t.clean_nep = s.clean_nep
         /\ t.clean_pages = s.clean_pages /\ t.io = "idle" /\ ~t.pend
         /\ \E cl \in Seq(Clusters), ep \in Seq(MdPages) : t.cl = s.cl \o cl /\ t.ep = s.ep \o ep
    BY <1>5, <1>8, <1>9, <1>15 DEF Resized
  <1> HIDE DEF t
  <1>17. s.ver = r.ver /\ t.ver >= s.ver /\ t.ver <= changes + 1
    BY <1>2, <1>3, <1>8, <1>16 DEF Alike
  <1>18. Unwritten(disk, b, t)
    BY <1>2, <1>8, <1>10, <1>16, <1>17, UnwrittenLonger
  <1>19. changes' = changes + 1 /\ changes' \in Nat
    BY <1>1, <1>2 DEF Changes
  <1>20. Known(disk, b, g, changes')
    <2>1. Doomed \in Doomed .. changes' /\ ~(Doomed >= 0)
      BY <1>19 DEF Doomed
    <2>2. Ack(disk, b, Doomed)
      BY <2>1 DEF Ack
    <2> QED
      BY <1>16, <2>1, <2>2 DEF Known, t
  <1>21. ToDelete(disk, b, g, OthersPg(b), OthersCl(b), changes')
    BY <1>16, <1>17, <1>18, <1>19, <1>20 DEF ToDelete, t
  <1> DEFINE h == blob_persist(g)
  <1>22. /\ Good(disk, b, h, OthersPg(b), OthersCl(b), changes')
         /\ clean => h.r = NoBlob \/ h.r.io \in {"idle", "super"}
    BY <1>2, <1>16, <1>19, <1>21, PersistGone DEF t
  <1>23. SetMemory(b, h)
    BY <1>4, <1>15
  <1> HIDE DEF h
  <1>24. h.r = NoBlob \/ h.r.io \in {"idle", "super"} \/ ~clean
    BY <1>2, <1>22
  <1> QED
    BY <1>1, <1>2, <1>22, <1>23, <1>24, CallGood

(* A record that was just allocated. *)
Fresh(r, b, et, big) == r = [blob_alloc(b, et) EXCEPT !.big = big]

(* The record bs_create_blob allocates is idle, and has only its root. *)
LEMMA NewRecord ==
  ASSUME disk \in [MdPages -> Page], NEW b \in MdPages, ~RootAt(disk, b), NEW et \in BOOLEAN, NEW big \in BOOLEAN,
         NEW r, Fresh(r, b, et, big)
  PROVE  /\ Idle(disk, b, r) /\ r.io = "idle" /\ r.st = "creating" /\ r.ver = 0 /\ Kept(r) = {b}
         /\ r.clean_pages = {} /\ ToSet(r.cl) = {}
  <1> DEFINE s == [id |-> b, st |-> "creating", dirty |-> TRUE, et |-> et, big |-> big, ver |-> 0,
                   num |-> 0, cl |-> <<>>, nep |-> 0, ep |-> <<>>, pages |-> {},
                   clean_num |-> 0, clean_nep |-> 0, clean_pages |-> {},
                   io |-> "idle", left |-> {}, pend |-> FALSE,
                   root |-> ZeroPage, chain |-> ZeroPage, extent |-> ZeroPage]
  <1>1. r = s
    BY DEF blob_alloc, Fresh
  <1>2. ZeroPage \in Page
    BY DEF Page
  <1>9. PICK z : z = ZeroPage
    OBVIOUS
  <1>3. r \in BlobRec
    <2>1. <<>> \in Seq(Clusters) /\ <<>> \in Seq(MdPages)
      OBVIOUS
    <2>5. PICK cl \in Seq(Clusters), ep \in Seq(MdPages) : cl = <<>> /\ ep = <<>>
      BY <2>1
    <2>2. r = [id |-> b, st |-> "creating", dirty |-> TRUE, et |-> et, big |-> big, ver |-> 0,
                   num |-> 0, cl |-> cl, nep |-> 0, ep |-> ep, pages |-> {},
                   clean_num |-> 0, clean_nep |-> 0, clean_pages |-> {},
                   io |-> "idle", left |-> {}, pend |-> FALSE,
                   root |-> z, chain |-> z, extent |-> z]
      BY <1>1, <1>9, <2>5
    <2>3. z \in Page
      BY <1>2, <1>9
    <2> HIDE DEF s
    <2>4. /\ "creating" \in Alive \cup {"deleting"} /\ {} \in SUBSET MdPages /\ {} \in SUBSET Nat
          /\ 0 \in Nat /\ TRUE \in BOOLEAN /\ FALSE \in BOOLEAN
      BY DEF Alive
    <2> QED
      BY <2>2, <2>3, <2>4 DEF BlobRec
  <1>4. /\ r.id = b /\ r.st = "creating" /\ r.et = et /\ r.ver = 0 /\ r.num = 0 /\ r.cl = <<>>
        /\ r.nep = 0 /\ r.ep = <<>> /\ r.pages = {} /\ r.clean_num = 0 /\ r.clean_nep = 0
        /\ r.clean_pages = {} /\ r.io = "idle"
    BY <1>1
  <1> HIDE DEF s
  <1>5. ExtentPages(0) = 0 /\ EpCount(et, 0) = 0
    BY ExtentPagesFacts DEF EpCount
  <1>6. Base(b, r)
    BY <1>3, <1>4, <1>5, EmptyFacts DEF Base
  <1>7. ~LoadsAt(disk, b)
    BY DEF LoadsAt
  <1>8. OnDisk(disk, b, r, 0, 0, {}, 0)
    BY <1>4, <1>7, EmptyFacts DEF OnDisk
  <1>10. Unwritten(disk, b, r)
    BY <1>4, <1>6, <1>8, EmptyFacts DEF Unwritten
  <1> QED
    BY <1>4, <1>10, EmptyFacts DEF Idle, Alive, Kept

(* bs_create_blob. *)
LEMMA CreateKeeps ==
  ASSUME IndInv, NEW opts \in Opts, bs_create_blob(opts)
  PROVE  IndInv'
  <1>1. PICK b : b = Min(MdPages \ used.md)
    OBVIOUS
  <1>2. PICK u : u = [used EXCEPT !.md = @ \cup {b}, !.ids = @ \cup {b}]
    OBVIOUS
  <1>3. PICK r : r = [blob_alloc(b, opts.et) EXCEPT !.big = opts.big]
    OBVIOUS
  <1> DEFINE m == [r |-> r, u |-> u, a |-> Unknown]
  <1>4. /\ bs = "loaded" /\ MdPages \ used.md # {}
        /\ CanResize(r, u, opts.sz)
        /\ SetMemory(b, blob_persist(blob_resize(m, opts.sz)))
        /\ Changes /\ Others
    BY <1>1, <1>2, <1>3 DEF bs_create_blob, Loaded
  <1>5. /\ disk \in [MdPages -> Page] /\ changes \in Nat /\ clean \in BOOLEAN /\ used \in Masks
        /\ Running
    BY <1>4, BoundsAssumption DEF IndInv, Types, Running
  <1>6. b \in MdPages /\ b \notin used.md
    <2>1. MdPages \ used.md \in SUBSET Nat
      BY SizesAssumption DEF MdPages
    <2> QED
      BY <1>1, <1>4, <2>1, MinIsIn
  <1>7. Own(used, OthersPg(b), OthersCl(b), Pg(b), Cg(b))
    BY <1>5, <1>6, OwnNow
  <1>8. b \notin Pg(b) /\ b \notin OthersPg(b)
    BY <1>6, <1>7 DEF Own
  <1>9. ~InMemory(b)
    <2> SUFFICES ASSUME InMemory(b) PROVE FALSE
      OBVIOUS
    <2>1. Mem(disk, b, blob[b])
      BY <1>6 DEF IndInv, Blobs
    <2>2. b \in MP(blob[b])
      BY <1>5, <1>6, <2>1, MemDisk
    <2> QED
      BY <1>8, <2>2 DEF Pg
  <1>10. ~RootAt(disk, b)
    BY <1>8, <1>9 DEF Pg, DiskPg, PagesAt
  <1>11. opts.et \in BOOLEAN /\ opts.big \in BOOLEAN /\ opts.sz \in Nat
    BY OptsAssumption
  <1>28. PICK et \in BOOLEAN, big \in BOOLEAN : et = opts.et /\ big = opts.big
    BY <1>11
  <1>29. Fresh(r, b, et, big)
    BY <1>3, <1>28 DEF Fresh
  <1>12. /\ Idle(disk, b, r) /\ r.io = "idle" /\ r.st = "creating" /\ r.ver = 0 /\ Kept(r) = {b}
         /\ r.clean_pages = {} /\ ToSet(r.cl) = {}
    BY <1>5, <1>6, <1>10, <1>29, NewRecord
  <1>13. /\ u \in Masks /\ u.md = used.md \cup {b} /\ u.clusters = used.clusters
         /\ u.ids = used.ids \cup {b}
    BY <1>2, <1>5, <1>6 DEF Masks
  <1>14. m.r = r /\ m.u = u /\ m.a = Unknown
    OBVIOUS
  <1> HIDE DEF m
  <1>15. Own(m.u, OthersPg(b), OthersCl(b), Kept(m.r) \cup m.r.clean_pages, ToSet(m.r.cl))
    BY <1>7, <1>8, <1>12, <1>13, <1>14 DEF Own
  <1>16. CanResize(m.r, m.u, opts.sz) /\ Base(b, m.r)
    BY <1>4, <1>12, <1>14 DEF Idle, Unwritten
  <1>17. PICK g : g = blob_resize(m, opts.sz) /\ Resized(b, m, g, opts.sz, OthersPg(b), OthersCl(b))
    BY <1>6, <1>11, <1>15, <1>16, ResizeFacts
  <1> DEFINE t == g.r
  <1>18. /\ Base(b, t) /\ Own(g.u, OthersPg(b), OthersCl(b), Kept(t) \cup t.clean_pages, ToSet(t.cl))
         /\ g.u.ids = used.ids \cup {b} /\ g.a = Unknown
         /\ t.st = r.st /\ t.et = r.et /\ t.ver = r.ver /\ t.pages = r.pages
         /\ t.clean_num = r.clean_num /\ t.clean_nep = r.clean_nep
         /\ t.clean_pages = r.clean_pages /\ t.io = "idle"
         /\ \E cl \in Seq(Clusters), ep \in Seq(MdPages) : t.cl = r.cl \o cl /\ t.ep = r.ep \o ep
    <2>1. r.io = "idle" /\ u.ids = used.ids \cup {b}
      BY <1>12, <1>13
    <2> QED
      BY <1>14, <1>17, <2>1 DEF Resized
  <1> HIDE DEF t
  <1>19. t.ver = 0 /\ t.ver >= r.ver /\ t.st \in Alive /\ t.st # "deleting"
    BY <1>12, <1>18 DEF Alive
  <1>20. Unwritten(disk, b, t)
    <2>1. Unwritten(disk, b, r)
      BY <1>12 DEF Idle
    <2> QED
      BY <1>5, <1>6, <1>18, <1>19, <2>1, UnwrittenLonger
  <1>21. Idle(disk, b, t)
    BY <1>12, <1>18, <1>19, <1>20 DEF Idle
  <1>22. changes' = changes + 1 /\ changes' \in Nat
    BY <1>4, <1>5 DEF Changes
  <1>23. Known(disk, b, g, changes')
    <2>1. Unknown \in Doomed .. changes' /\ ~(Unknown >= 0)
      BY <1>22 DEF Doomed, Unknown
    <2>2. Ack(disk, b, Unknown)
      BY <1>10, <2>1 DEF Ack
    <2> QED
      BY <1>10, <1>18, <2>1, <2>2 DEF Known, LoadsAt
  <1>24. ToPersist(disk, b, g, OthersPg(b), OthersCl(b), changes')
    <2>1. Own(g.u, OthersPg(b), OthersCl(b), Kept(t), ToSet(t.cl))
      BY <1>18 DEF Own
    <2>2. t.ver <= changes'
      BY <1>19, <1>22
    <2> QED
      BY <1>21, <1>23, <2>1, <2>2 DEF ToPersist, t
  <1> DEFINE h == blob_persist(g)
  <1>25. /\ Good(disk, b, h, OthersPg(b), OthersCl(b), changes')
         /\ clean => h.r = NoBlob \/ h.r.io \in {"idle", "super"}
    BY <1>5, <1>6, <1>18, <1>22, <1>24, PersistGood DEF t
  <1>26. SetMemory(b, h)
    BY <1>4, <1>17
  <1> HIDE DEF h
  <1>27. h.r = NoBlob \/ h.r.io \in {"idle", "super"} \/ ~clean
    BY <1>5, <1>25
  <1> QED
    BY <1>4, <1>6, <1>25, <1>26, <1>27, CallGood

-----------------------------------------------------------------------------
(* The completions of I/O. *)

(* The root of a blob on disk is what it was. *)
LEMMA KnownMoved ==
  ASSUME IndInv, NEW b \in MdPages, InMemory(b), NEW e,
         RootAt(e, b) <=> RootAt(disk, b), LoadsAt(e, b) <=> LoadsAt(disk, b), e[b] = disk[b],
         NEW m, m.u = used, m.a = acked[b], m.r.st = blob[b].st
  PROVE  /\ Known(e, b, m, changes)
         /\ RootAt(e, b) => e[b].ver <= changes
  <1>1. Running /\ changes \in Nat /\ changes <= changes
    BY OpenNow
  <1>2. Known(disk, b, Memory(b), changes)
    BY <1>1, KnownNow
  <1>3. Memory(b).r = blob[b] /\ Memory(b).u = used /\ Memory(b).a = acked[b]
    BY DEF Memory
  <1>4. RootAt(disk, b) => disk[b].ver <= changes
    BY DEF IndInv, Types
  <1> QED
    BY <1>2, <1>3, <1>4 DEF Known, Ack

(* A page of b is written. *)
LEMMA WriteGood ==
  ASSUME IndInv, NEW b \in MdPages, InMemory(b), blob[b].io \notin {"idle", "super"},
         NEW p \in Pg(b), p \in MdPages, NEW page \in Page, Write(p, page), DiskOnly,
         page.kind = "root" => p = b, page.kind = "chain" => page.id = b,
         RootAt(disk', b) => disk'[b].ver <= changes,
         NEW m, SetMemory(b, m), Good(disk', b, m, OthersPg(b), OthersCl(b), changes)
  PROVE  IndInv'
  <1>1. disk \in [MdPages -> Page] /\ bs = "loaded"
    BY OpenNow
  <1>2. /\ disk' \in [MdPages -> Page] /\ disk'[p] = page
        /\ \A q \in MdPages : q # p => disk'[q] = disk[q]
    BY <1>1 DEF Write
  <1>3. ASSUME NEW c \in MdPages \ {b} PROVE Same(disk', c)
    <2>1. p \notin Pg(c)
      BY DEF IndInv, Apart
    <2> QED
      BY <1>2, <2>1, SameElsewhere
  <1>4. clean \in BOOLEAN /\ super_clean \in BOOLEAN /\ ~clean /\ ~super_clean
    BY DEF IndInv, Types, Modes
  <1>5. /\ super_clean' = super_clean /\ masks' = masks /\ bs' = bs /\ clean' = clean
        /\ changes' = changes /\ crashes' = crashes
    BY DEF DiskOnly
  <1>6. changes \in 0 .. MaxChanges /\ changes <= changes
    BY BoundsAssumption DEF IndInv, Types
  <1>7. Touches(b, m)
    BY <1>2, <1>3, <1>4, <1>5, <1>6 DEF Touches
  <1>8. Good(disk', b, m, OthersPg(b), OthersCl(b), changes')
    BY <1>5
  <1> QED
    BY <1>1, <1>7, <1>8, StepGood

(* bs_mark_dirty_write_cpl. *)
LEMMA SuperKeeps ==
  ASSUME IndInv, NEW b \in MdPages, bs_mark_dirty_write_cpl(b)
  PROVE  IndInv'
  <1> DEFINE r == blob[b]
             m == Memory(b)
             g == blob_persist_start(m)
  <1>1. /\ InMemory(b) /\ r.io = "super" /\ super_clean' = FALSE /\ clean' = FALSE
        /\ SetMemory(b, g) /\ UNCHANGED <<disk, masks, bs, changes, crashes>>
    BY DEF bs_mark_dirty_write_cpl, InIo
  <1>2. /\ bs = "loaded" /\ Running /\ Mem(disk, b, r) /\ r \in BlobRec
        /\ disk \in [MdPages -> Page] /\ changes \in Nat /\ r.ver <= changes
        /\ Own(used, OthersPg(b), OthersCl(b), MP(r), ToSet(r.cl))
    BY <1>1, OpenNow
  <1>3. m.r = r /\ m.u = used /\ m.a = acked[b]
    BY DEF Memory
  <1>4. /\ Known(disk, b, m, changes)
        /\ RootAt(disk, b) => disk[b].ver <= changes
    BY <1>1, <1>3, KnownMoved
  <1>5. MP(r) = Kept(r) \cup r.clean_pages
    BY <1>1 DEF MP, Kept
  <1> HIDE DEF r, m
  <1>6. Good(disk, b, g, OthersPg(b), OthersCl(b), changes)
    <2>1. CASE Idle(disk, b, r)
      <3>1. Own(used, OthersPg(b), OthersCl(b), Kept(r), ToSet(r.cl))
        BY <1>2, <1>5 DEF Own
      <3>2. ToPersist(disk, b, m, OthersPg(b), OthersCl(b), changes)
        BY <1>2, <1>3, <1>4, <2>1, <3>1 DEF ToPersist
      <3> QED
        BY <1>2, <3>2, StartGood
    <2>2. CASE MemDying(disk, b, r)
      <3>1. ToDelete(disk, b, m, OthersPg(b), OthersCl(b), changes)
        BY <1>2, <1>3, <1>4, <1>5, <2>2 DEF ToDelete, MemDying
      <3> QED
        BY <1>2, <3>1, StartGone
    <2> QED
      BY <1>1, <1>2, <2>1, <2>2 DEF Mem
  <1> HIDE DEF g
  <1>7. \A c \in MdPages : Same(disk', c)
    BY <1>1, SameDisk
  <1>8. changes \in 0 .. MaxChanges /\ changes <= changes
    BY BoundsAssumption DEF IndInv, Types
  <1>9. Touches(b, g)
    BY <1>1, <1>2, <1>4, <1>7, <1>8 DEF Touches
  <1>10. Good(disk', b, g, OthersPg(b), OthersCl(b), changes')
    BY <1>1, <1>6
  <1> QED
    BY <1>2, <1>9, <1>10, StepGood

(* An extent page is written. *)
LEMMA ExtentKeeps ==
  ASSUME IndInv, NEW b \in MdPages, ExtentPageWritten(b)
  PROVE  IndInv'
  <1> DEFINE r == blob[b]
             m == Memory(b)
  <1>1. InMemory(b) /\ r.io = "extent" /\ DiskOnly
    BY DEF ExtentPageWritten, InIo
  <1>2. PICK i \in r.left : Write(r.ep[i], r.extent)
                            /\ SetMemory(b, blob_persist_write_extent_pages(m, i + 1))
    BY DEF ExtentPageWritten
  <1>3. /\ Mem(disk, b, r) /\ r \in BlobRec
        /\ disk \in [MdPages -> Page] /\ changes \in Nat /\ r.ver <= changes
        /\ Own(used, OthersPg(b), OthersCl(b), MP(r), ToSet(r.cl))
    BY <1>1, OpenNow
  <1>4. m.r = r /\ m.u = used /\ m.a = acked[b] /\ Pg(b) = MP(r)
    BY <1>1 DEF Memory, Pg
  <1> HIDE DEF r, m
  <1>5. MemExtent(disk, b, r)
    BY <1>1, <1>3 DEF Mem
  <1>6. i \in 1 .. Len(r.ep) /\ Ready(disk, b, r, i) /\ ExtentStaged(b, r, i) /\ Idle(disk, b, r)
    BY <1>2, <1>5 DEF MemExtent
  <1>7. Base(b, r) /\ r.st \in Alive /\ r.pages = r.clean_pages /\ Unwritten(disk, b, r)
    BY <1>6 DEF Idle, Unwritten
  <1>8. PICK p \in MdPages : p = r.ep[i] /\ p \in ToSet(r.ep) /\ p # b /\ p \notin r.clean_pages
    <2>1. r.ep[i] \in ToSet(r.ep) /\ ToSet(r.ep) \subseteq MdPages /\ b \notin ToSet(r.ep)
      BY <1>6, <1>7, BaseTypes
    <2> QED
      BY <1>7, <2>1 DEF Base
  <1>9. r.extent \in Page /\ r.extent.kind = "extent"
    <2>1. r.extent \in Page
      BY <1>3 DEF BlobRec
    <2>2. r.extent.kind = "extent"
      BY <1>6 DEF ExtentStaged, ExtentPage
    <2> QED
      BY <2>1, <2>2
  <1>10. /\ disk' \in [MdPages -> Page] /\ disk'[p] = r.extent
         /\ \A q \in MdPages : q # p => disk'[q] = disk[q]
    BY <1>2, <1>3, <1>8, <1>9 DEF Write
  <1>11. Idle(disk', b, r) /\ Ready(disk', b, r, i + 1)
    BY <1>3, <1>6, <1>8, <1>10, ExtentWritten
  <1>12. RootAt(disk, b) => disk[b].next # p
    <2> SUFFICES ASSUME RootAt(disk, b), disk[b].next = p PROVE FALSE
      OBVIOUS
    <2>1. LoadsAt(disk, b)
      BY <1>7 DEF Unwritten, Alive
    <2>2. ChainAt(disk, b) \subseteq r.clean_pages
      BY <1>7, <2>1 DEF Unwritten, OnDisk
    <2>3. p # NoPage
      BY SizesAssumption
    <2> QED
      BY <1>8, <2>2, <2>3 DEF ChainAt
  <1>13. /\ disk'[b] = disk[b] /\ (RootAt(disk', b) <=> RootAt(disk, b))
         /\ (LoadsAt(disk', b) <=> LoadsAt(disk, b))
    BY <1>3, <1>8, <1>10, <1>12, Beside
  <1>14. /\ Known(disk', b, m, changes)
         /\ RootAt(disk', b) => disk'[b].ver <= changes
    BY <1>1, <1>4, <1>13, KnownMoved DEF r
  <1>15. Own(used, OthersPg(b), OthersCl(b), Kept(r), ToSet(r.cl))
    BY <1>3 DEF Own, MP, Kept
  <1>16. ToPersist(disk', b, m, OthersPg(b), OthersCl(b), changes)
    BY <1>3, <1>4, <1>11, <1>14, <1>15 DEF ToPersist
  <1>17. i + 1 \in Nat \ {0}
    BY <1>6
  <1> DEFINE g == blob_persist_write_extent_pages(m, i + 1)
  <1>18. Good(disk', b, g, OthersPg(b), OthersCl(b), changes)
    BY <1>3, <1>4, <1>10, <1>11, <1>16, <1>17, WriteExtentsGood
  <1>19. SetMemory(b, g) /\ Write(p, r.extent)
    BY <1>2, <1>8
  <1> HIDE DEF g
  <1>20. p \in Pg(b)
    BY <1>4, <1>8 DEF MP
  <1>21. blob[b].io \notin {"idle", "super"}
    BY <1>1 DEF r
  <1> QED
    BY <1>1, <1>9, <1>14, <1>18, <1>19, <1>20, <1>21, WriteGood

(* The page after the root is written. *)
LEMMA ChainKeeps ==
  ASSUME IndInv, NEW b \in MdPages, ChainWritten(b)
  PROVE  IndInv'
  <1> DEFINE r == blob[b]
             s == [r EXCEPT !.io = "root"]
             m == With(Memory(b), s)
             p == r.root.next
  <1>1. InMemory(b) /\ r.io = "chain" /\ DiskOnly /\ Write(p, r.chain) /\ SetMemory(b, m)
    BY DEF ChainWritten, InIo
  <1>2. /\ Mem(disk, b, r) /\ r \in BlobRec
        /\ disk \in [MdPages -> Page] /\ changes \in Nat /\ r.ver <= changes
        /\ Own(used, OthersPg(b), OthersCl(b), MP(r), ToSet(r.cl))
    BY <1>1, OpenNow
  <1>3. m.r = s /\ m.u = used /\ m.a = acked[b] /\ Pg(b) = MP(r)
    BY <1>1, WithFacts DEF Memory, Pg
  <1>4. MemStaged(disk, b, r)
    BY <1>1, <1>2 DEF Mem
  <1>5. r.chain \in Page
    BY <1>2 DEF BlobRec
  <1>6. PICK t : t = s
    OBVIOUS
  <1>7. t = [r EXCEPT !.io = "root"]
    BY <1>6
  <1> HIDE DEF r, s, m
  <1>8. /\ \A q \in MdPages : q # p => disk'[q] = disk[q]
        /\ p \in MdPages => disk'[p] = r.chain
        /\ disk' \in [MdPages -> Page]
    BY <1>1, <1>2, <1>5 DEF Write
  <1>13. p \in MdPages
    <2>1. \/ r.root = RootPage(b, r.root.ver, NoPage, blob_serialize(r)) /\ r.io = "root"
          \/ \E q \in MdPages : r.root = RootPage(b, r.root.ver, q, NoBody)
      BY <1>4, Zenon DEF MemStaged, Staged
    <2>2. \E q \in MdPages : \E v : r.root = RootPage(b, v, q, NoBody)
      BY <1>1, <2>1, Zenon
    <2> QED
      BY <2>2 DEF RootPage
  <1>9. /\ r.pages = {p} /\ p # b
        /\ r.chain.kind = "chain" /\ r.chain.id = b
        /\ MemStaged(disk', b, t) /\ t.io = "root" /\ MP(t) = MP(r) /\ t.cl = r.cl /\ t.ver = r.ver
        /\ t.st = r.st /\ disk'[b] = disk[b]
        /\ (RootAt(disk', b) <=> RootAt(disk, b)) /\ (LoadsAt(disk', b) <=> LoadsAt(disk, b))
    BY <1>1, <1>2, <1>4, <1>7, <1>8, <1>13, ChainIsWritten
  <1>10. /\ Known(disk', b, m, changes)
         /\ RootAt(disk', b) => disk'[b].ver <= changes
    BY <1>1, <1>3, <1>6, <1>9, KnownMoved DEF r
  <1>11. Good(disk', b, m, OthersPg(b), OthersCl(b), changes)
    <2>1. Mem(disk', b, t)
      BY <1>9 DEF Mem
    <2>2. GoodMem(disk', b, m, OthersPg(b), OthersCl(b), changes)
      BY <1>2, <1>3, <1>6, <1>9, <2>1 DEF GoodMem
    <2> QED
      BY <1>10, <2>2 DEF Good
  <1>12. p \in Pg(b) /\ blob[b].io \notin {"idle", "super"}
    BY <1>1, <1>3, <1>9 DEF MP, r
  <1> HIDE DEF p
  <1> QED
    BY <1>1, <1>5, <1>9, <1>10, <1>11, <1>12, <1>13, WriteGood

(* The root is written. *)
LEMMA RootKeeps ==
  ASSUME IndInv, NEW b \in MdPages, RootWritten(b)
  PROVE  IndInv'
  <1> DEFINE r == blob[b]
             m == Memory(b)
             g == AfterRoot(m)
  <1>1. InMemory(b) /\ r.io = "root" /\ DiskOnly /\ Write(b, r.root) /\ SetMemory(b, g)
    BY DEF RootWritten, InIo
  <1>2. /\ Mem(disk, b, r) /\ r \in BlobRec /\ Running
        /\ disk \in [MdPages -> Page] /\ changes \in Nat /\ r.ver <= changes /\ r.ver \in Nat
        /\ Own(used, OthersPg(b), OthersCl(b), MP(r), ToSet(r.cl))
    BY <1>1, OpenNow
  <1>3. m.r = r /\ m.u = used /\ m.a = acked[b] /\ Pg(b) = MP(r)
    BY <1>1 DEF Memory, Pg
  <1>4. Known(disk, b, m, changes)
    BY <1>2, KnownNow
  <1>5. RootAt(disk, b) => disk[b].ver \in Nat
    BY <1>2, PageTypes DEF RootAt
  <1> HIDE DEF r, m
  <1>6. MemStaged(disk, b, r) /\ r.root \in Page
    BY <1>1, <1>2 DEF Mem, BlobRec
  <1>7. /\ disk' \in [MdPages -> Page] /\ disk'[b] = r.root
        /\ \A q \in MdPages : q # b => disk'[q] = disk[q]
    BY <1>1, <1>2, <1>6 DEF Write
  <1>8. Written(disk', b, r) /\ disk'[b].kind = "root" /\ (RootAt(disk, b) => disk[b].ver <= disk'[b].ver)
    BY <1>1, <1>2, <1>6, <1>7, RootIsWritten
  <1>9. r.st \in Alive /\ r.st # "deleting" /\ LoadsAt(disk', b) /\ disk'[b].ver <= r.ver
    BY <1>8 DEF Written, Alive
  <1>10. RootAt(disk', b) /\ disk'[b].ver \in Nat
    BY <1>7, <1>9, PageTypes DEF LoadsAt, RootAt
  <1>11. disk'[b].ver <= changes
    BY <1>2, <1>9, <1>10
  <1>12. Known(disk', b, m, changes)
    <2>1. /\ m.a \in Doomed .. changes /\ Ack(disk, b, m.a) /\ b \in m.u.ids
          /\ used.ids \ {b} \subseteq m.u.ids
      BY <1>3, <1>4, <1>9 DEF Known
    <2>2. m.a >= 0 => disk'[b].ver >= m.a
      <3> SUFFICES ASSUME m.a >= 0 PROVE disk'[b].ver >= m.a
        OBVIOUS
      <3>1. LoadsAt(disk, b) /\ disk[b].ver >= m.a
        BY <2>1 DEF Ack
      <3>2. RootAt(disk, b)
        BY <3>1 DEF LoadsAt
      <3>3. m.a \in Int
        BY <2>1
      <3> QED
        BY <1>5, <1>8, <1>10, <3>1, <3>2, <3>3
    <2>3. Ack(disk', b, m.a)
      BY <1>9, <2>2 DEF Ack
    <2> QED
      BY <1>3, <1>9, <2>1, <2>3 DEF Known
  <1>13. MP(r) = Kept(r) \cup r.clean_pages
    BY <1>1 DEF MP, Kept
  <1>14. RootOnDisk(disk', b, m, OthersPg(b), OthersCl(b), changes)
    <2>1. r.pages \cap r.clean_pages = {}
      BY <1>6 DEF MemStaged
    <2> QED
      BY <1>2, <1>3, <1>8, <1>12, <1>13, <2>1 DEF RootOnDisk
  <1>15. Good(disk', b, g, OthersPg(b), OthersCl(b), changes)
    BY <1>2, <1>7, <1>14, AfterRootGood
  <1> HIDE DEF g
  <1>16. b \in Pg(b) /\ blob[b].io \notin {"idle", "super"}
    BY <1>1, <1>2, <1>3, MemDisk DEF r
  <1>17. r.root.kind = "root"
    BY <1>7, <1>8
  <1> QED
    BY <1>1, <1>6, <1>11, <1>15, <1>16, <1>17, WriteGood

(* The record while pages of it are zeroed. *)
LEMMA RestFacts ==
  ASSUME NEW m, m.r \in BlobRec, NEW p,
         NEW h, h = With(m, [m.r EXCEPT !.left = m.r.left \ {p}])
  PROVE  /\ Alike(m.r, h.r) /\ h.u = m.u /\ h.a = m.a /\ h.r.left = m.r.left \ {p}
         /\ h.r.st = m.r.st /\ h.r.io = m.r.io /\ h.r.pages = m.r.pages /\ h.r.root = m.r.root
         /\ h.r.pend = m.r.pend
         /\ MP(h.r) = MP(m.r) /\ Kept(h.r) = Kept(m.r) /\ h.r.cl = m.r.cl
  <1>1. PICK r \in BlobRec : r = m.r
    OBVIOUS
  <1>2. PICK L \in SUBSET Nat : L = r.left \ {p}
    BY DEF BlobRec
  <1>3. PICK s : s = [r EXCEPT !.left = L]
    OBVIOUS
  <1>4. s \in BlobRec
    BY <1>3 DEF BlobRec
  <1>5. Alike(r, s) /\ s.left = L /\ s.st = r.st /\ s.io = r.io /\ s.pages = r.pages
        /\ s.root = r.root /\ s.pend = r.pend
    BY <1>3, <1>4 DEF Alike, BlobRec
  <1>6. MP(s) = MP(r) /\ Kept(s) = Kept(r) /\ s.cl = r.cl
    BY <1>5 DEF Alike, MP, Kept
  <1>7. h = With(m, s)
    BY <1>1, <1>2, <1>3
  <1>8. h.r = s /\ h.u = m.u /\ h.a = m.a
    BY <1>7, WithFacts
  <1> QED
    BY <1>1, <1>2, <1>5, <1>6, <1>8

(* A page of the old chain is zeroed. *)
LEMMA OldPageKeeps ==
  ASSUME IndInv, NEW b \in MdPages, OldPageZeroed(b)
  PROVE  IndInv'
  <1> DEFINE r == blob[b]
             m == Memory(b)
  <1>1. InMemory(b) /\ r.io = "zero" /\ DiskOnly
    BY DEF OldPageZeroed, InIo
  <1>2. PICK p \in r.left : /\ Write(p, ZeroPage)
                            /\ SetMemory(b, Zeroed(m, p, blob_persist_zero_pages_cpl))
    BY DEF OldPageZeroed
  <1>3. /\ Mem(disk, b, r) /\ r \in BlobRec /\ Running
        /\ disk \in [MdPages -> Page] /\ changes \in Nat /\ r.ver <= changes /\ r.ver \in Nat
        /\ Own(used, OthersPg(b), OthersCl(b), MP(r), ToSet(r.cl))
    BY <1>1, OpenNow
  <1>4. m.r = r /\ m.u = used /\ m.a = acked[b] /\ Pg(b) = MP(r)
    BY <1>1 DEF Memory, Pg
  <1>5. MP(r) = Kept(r) \cup r.clean_pages
    BY <1>1 DEF MP, Kept
  <1>6. PICK h : h = With(m, [m.r EXCEPT !.left = m.r.left \ {p}])
    OBVIOUS
  <1> DEFINE g == Zeroed(m, p, blob_persist_zero_pages_cpl)
  <1>7. g = IF h.r.left = {} THEN blob_persist_zero_pages_cpl(h) ELSE h
    BY <1>6 DEF Zeroed
  <1>8. m.r \in BlobRec
    BY <1>3, <1>4
  <1> HIDE DEF m
  <1>9. /\ Alike(m.r, h.r) /\ h.u = m.u /\ h.a = m.a /\ h.r.left = m.r.left \ {p}
        /\ h.r.st = m.r.st /\ h.r.io = m.r.io /\ h.r.pages = m.r.pages /\ h.r.root = m.r.root
        /\ h.r.pend = m.r.pend
        /\ MP(h.r) = MP(m.r) /\ Kept(h.r) = Kept(m.r) /\ h.r.cl = m.r.cl
    BY <1>6, <1>8, RestFacts
  <1> DEFINE s == h.r
  <1>10. /\ Alike(r, s) /\ h.u = used /\ h.a = acked[b] /\ s.left = r.left \ {p}
         /\ s.st = r.st /\ s.io = "zero" /\ s.pages = r.pages /\ s.root = r.root /\ s.pend = r.pend
         /\ MP(s) = MP(r) /\ Kept(s) = Kept(r) /\ s.cl = r.cl /\ s.ver = r.ver /\ s.num = r.num
         /\ s.clean_pages = r.clean_pages
    BY <1>1, <1>4, <1>9 DEF Alike
  <1>11. ZeroPage \in Page /\ ZeroPage.kind = "zero"
    BY DEF Page, ZeroPage
  <1>12. r.left \subseteq r.clean_pages \cup {b} /\ r.clean_pages \subseteq MdPages
    <2>1. MemZero(disk, b, r) \/ MemDying(disk, b, r)
      BY <1>1, <1>3 DEF Mem
    <2> QED
      BY <1>1, <1>3, <2>1 DEF MemZero, MemDying, BlobRec
  <1>13. p \in MdPages /\ p \in Pg(b)
    <2>1. b \in MP(r)
      BY <1>3, MemDisk
    <2> QED
      BY <1>2, <1>4, <1>5, <1>12, <2>1
  <1> HIDE DEF r, s, g
  <1>14. /\ disk' \in [MdPages -> Page] /\ disk'[p] = ZeroPage
         /\ \A q \in MdPages : q # p => disk'[q] = disk[q]
    BY <1>2, <1>3, <1>11, <1>13 DEF Write
  <1>15. /\ Good(disk', b, g, OthersPg(b), OthersCl(b), changes)
         /\ RootAt(disk', b) => disk'[b].ver <= changes
    <2>1. CASE MemZero(disk, b, r)
      <3>1. /\ Written(disk', b, r) /\ disk'[b] = disk[b] /\ (RootAt(disk', b) <=> RootAt(disk, b))
            /\ (LoadsAt(disk', b) <=> LoadsAt(disk, b))
        BY <1>3, <1>14, <2>1, OldIsZeroed
      <3>2. /\ Known(disk', b, h, changes)
            /\ RootAt(disk', b) => disk'[b].ver <= changes
        BY <1>1, <1>10, <3>1, KnownMoved DEF r, s
      <3>3. r.st \in Alive /\ r.pages \cap r.clean_pages = {} /\ r.left \subseteq r.clean_pages
        BY <2>1 DEF MemZero, Written
      <3>4. Written(disk', b, s)
        BY <1>10, <3>1, <3>3, WrittenAlike
      <3>5. CASE s.left = {}
        <4>1. RootOnDisk(disk', b, h, OthersPg(b), OthersCl(b), changes)
          BY <1>3, <1>5, <1>10, <3>2, <3>3, <3>4 DEF RootOnDisk, s
        <4>2. Good(disk', b, blob_persist_zero_pages_cpl(h), OthersPg(b), OthersCl(b), changes)
          BY <1>3, <1>14, <4>1, ZeroPagesCplGood
        <4> QED
          BY <1>7, <3>2, <3>5, <4>2 DEF s
      <3>6. CASE s.left # {}
        <4>1. MemZero(disk', b, s)
          BY <1>10, <3>3, <3>4 DEF MemZero
        <4>2. Mem(disk', b, s)
          BY <1>10, <4>1 DEF Mem
        <4>3. GoodMem(disk', b, h, OthersPg(b), OthersCl(b), changes)
          BY <1>3, <1>10, <4>2 DEF GoodMem, s
        <4> QED
          BY <1>7, <3>2, <3>6, <4>3 DEF s, Good
      <3> QED
        BY <3>5, <3>6
    <2>2. CASE MemDying(disk, b, r)
      <3>1. /\ Unwritten(disk', b, r) /\ (RootAt(disk', b) => b \in r.left \ {p})
            /\ RootAt(disk', b) => RootAt(disk, b) /\ disk'[b] = disk[b]
            /\ LoadsAt(disk', b) => LoadsAt(disk, b)
        BY <1>1, <1>3, <1>14, <2>2, DyingIsZeroed
      <3>2. /\ r.st = "deleting" /\ ~r.pend /\ r.num = 0 /\ r.pages = {}
            /\ r.left \subseteq r.clean_pages \cup {b}
        BY <1>1, <2>2 DEF MemDying
      <3>3. RootAt(disk', b) => disk'[b].ver <= changes
        BY <3>1 DEF IndInv, Types
      <3>4. Known(disk', b, h, changes)
        <4>0. Known(disk, b, Memory(b), changes)
          BY <1>3, KnownNow
        <4>1. /\ acked[b] \in Doomed .. changes /\ Ack(disk, b, acked[b])
              /\ RootAt(disk, b) => acked[b] = Doomed
          BY <3>2, <4>0 DEF Known, Memory, r
        <4>2. ~(acked[b] >= 0)
          <5> SUFFICES ASSUME acked[b] >= 0 PROVE FALSE
            OBVIOUS
          <5>1. RootAt(disk, b)
            BY <4>1 DEF Ack, LoadsAt
          <5> QED
            BY <4>1, <5>1 DEF Doomed
        <4>3. Ack(disk', b, acked[b])
          BY <3>1, <4>1, <4>2 DEF Ack
        <4> QED
          BY <1>10, <3>1, <3>2, <4>1, <4>3 DEF Known, s
      <3>5. Unwritten(disk', b, s)
        BY <1>10, <3>1, <3>2, UnwrittenAlike
      <3>6. CASE s.left = {}
        <4>1. ~RootAt(disk', b)
          BY <1>10, <3>1, <3>6
        <4>2. ToDelete(disk', b, h, OthersPg(b), OthersCl(b), changes)
          BY <1>3, <1>5, <1>10, <3>2, <3>4, <3>5 DEF ToDelete, s
        <4>3. Good(disk', b, blob_persist_zero_pages_cpl(h), OthersPg(b), OthersCl(b), changes)
          BY <1>3, <1>14, <4>1, <4>2, ZeroPagesCplGone
        <4> QED
          BY <1>7, <3>3, <3>6, <4>3 DEF s
      <3>7. CASE s.left # {}
        <4>1. MemDying(disk', b, s)
          BY <1>10, <3>1, <3>2, <3>5 DEF MemDying
        <4>2. Mem(disk', b, s)
          BY <1>10, <4>1 DEF Mem
        <4>3. GoodMem(disk', b, h, OthersPg(b), OthersCl(b), changes)
          BY <1>3, <1>10, <4>2 DEF GoodMem, s
        <4> QED
          BY <1>7, <3>3, <3>4, <3>7, <4>3 DEF s, Good
      <3> QED
        BY <3>6, <3>7
    <2> QED
      BY <1>1, <1>3, <2>1, <2>2 DEF Mem
  <1>16. SetMemory(b, g) /\ blob[b].io \notin {"idle", "super"}
    BY <1>1, <1>2 DEF g, r
  <1> QED
    BY <1>1, <1>2, <1>11, <1>13, <1>15, <1>16, WriteGood

(* An extent page that is no longer needed is zeroed. *)
LEMMA ExtentZeroedKeeps ==
  ASSUME IndInv, NEW b \in MdPages, ExtentPageZeroed(b)
  PROVE  IndInv'
  <1> DEFINE r == blob[b]
             m == Memory(b)
  <1>1. InMemory(b) /\ r.io = "extents" /\ DiskOnly
    BY DEF ExtentPageZeroed, InIo
  <1>2. PICK p \in r.left : /\ Write(p, ZeroPage)
                            /\ SetMemory(b, Zeroed(m, p, blob_persist_clear_extents_cpl))
    BY DEF ExtentPageZeroed
  <1>3. /\ Mem(disk, b, r) /\ r \in BlobRec /\ Running
        /\ disk \in [MdPages -> Page] /\ changes \in Nat /\ r.ver <= changes /\ r.ver \in Nat
        /\ Own(used, OthersPg(b), OthersCl(b), MP(r), ToSet(r.cl))
    BY <1>1, OpenNow
  <1>4. m.r = r /\ m.u = used /\ m.a = acked[b] /\ Pg(b) = MP(r)
    BY <1>1 DEF Memory, Pg
  <1>5. MP(r) = Kept(r)
    BY <1>1 DEF MP, Kept
  <1>6. PICK h : h = With(m, [m.r EXCEPT !.left = m.r.left \ {p}])
    OBVIOUS
  <1> DEFINE g == Zeroed(m, p, blob_persist_clear_extents_cpl)
  <1>7. g = IF h.r.left = {} THEN blob_persist_clear_extents_cpl(h) ELSE h
    BY <1>6 DEF Zeroed
  <1>8. m.r \in BlobRec
    BY <1>3, <1>4
  <1> HIDE DEF m
  <1>9. /\ Alike(m.r, h.r) /\ h.u = m.u /\ h.a = m.a /\ h.r.left = m.r.left \ {p}
        /\ h.r.st = m.r.st /\ h.r.io = m.r.io /\ h.r.pages = m.r.pages /\ h.r.root = m.r.root
        /\ h.r.pend = m.r.pend
        /\ MP(h.r) = MP(m.r) /\ Kept(h.r) = Kept(m.r) /\ h.r.cl = m.r.cl
    BY <1>6, <1>8, RestFacts
  <1> DEFINE s == h.r
  <1>10. /\ Alike(r, s) /\ h.u = used /\ h.a = acked[b] /\ s.left = r.left \ {p}
         /\ s.st = r.st /\ s.io = "extents" /\ s.pages = r.pages /\ s.root = r.root
         /\ MP(s) = MP(r) /\ Kept(s) = Kept(r) /\ s.cl = r.cl /\ s.ver = r.ver
         /\ s.ep = r.ep /\ s.nep = r.nep
    BY <1>1, <1>4, <1>9 DEF Alike
  <1>11. ZeroPage \in Page /\ ZeroPage.kind = "zero"
    BY DEF Page, ZeroPage
  <1>12. Written(disk, b, r) /\ r.left \subseteq ItemsAfter(r.ep, r.nep)
    BY <1>1, <1>3 DEF Mem
  <1> HIDE DEF r, s, g
  <1>13. Base(b, r) /\ r.st \in Alive /\ r.ep \in Seq(MdPages) /\ r.nep \in Nat /\ r.nep <= Len(r.ep)
    <2>1. Base(b, r) /\ r.st \in Alive /\ r.nep <= Len(r.ep)
      BY <1>12 DEF Written, Base
    <2> QED
      BY <2>1, BaseTypes
  <1>14. p \in ItemsAfter(r.ep, r.nep) /\ p \in ToSet(r.ep)
    BY <1>2, <1>12, <1>13, PrefixFacts
  <1>15. p \in MdPages /\ p \in Pg(b)
    BY <1>4, <1>13, <1>14, BaseTypes DEF MP
  <1>16. /\ disk' \in [MdPages -> Page] /\ disk'[p] = ZeroPage
         /\ \A q \in MdPages : q # p => disk'[q] = disk[q]
    BY <1>2, <1>3, <1>11, <1>15 DEF Write
  <1>17. /\ Written(disk', b, r) /\ disk'[b] = disk[b] /\ (RootAt(disk', b) <=> RootAt(disk, b))
         /\ (LoadsAt(disk', b) <=> LoadsAt(disk, b))
    BY <1>3, <1>12, <1>14, <1>16, ExtentIsZeroed
  <1>18. /\ Known(disk', b, h, changes)
         /\ RootAt(disk', b) => disk'[b].ver <= changes
    BY <1>1, <1>10, <1>17, KnownMoved DEF r, s
  <1>19. Written(disk', b, s)
    BY <1>10, <1>13, <1>17, WrittenAlike
  <1>20. Good(disk', b, g, OthersPg(b), OthersCl(b), changes)
    <2>1. CASE s.left = {}
      <3>1. Released(disk', b, h, OthersPg(b), OthersCl(b), changes)
        BY <1>3, <1>5, <1>10, <1>18, <1>19 DEF Released, s
      <3>2. Good(disk', b, blob_persist_clear_extents_cpl(h), OthersPg(b), OthersCl(b), changes)
        BY <1>3, <1>16, <3>1, ClearExtentsCplGood
      <3> QED
        BY <1>7, <2>1, <3>2 DEF s
    <2>2. CASE s.left # {}
      <3>1. Mem(disk', b, s)
        BY <1>10, <1>12, <1>19 DEF Mem
      <3>2. GoodMem(disk', b, h, OthersPg(b), OthersCl(b), changes)
        BY <1>3, <1>10, <3>1 DEF GoodMem, s
      <3> QED
        BY <1>7, <1>18, <2>2, <3>2 DEF s, Good
    <2> QED
      BY <2>1, <2>2
  <1>21. SetMemory(b, g) /\ blob[b].io \notin {"idle", "super"}
    BY <1>1, <1>2 DEF g, r
  <1> QED
    BY <1>1, <1>2, <1>11, <1>15, <1>18, <1>20, <1>21, WriteGood

(* The clusters that a blob no longer needs are cleared. *)
LEMMA ClustersKeep ==
  ASSUME IndInv, NEW b \in MdPages, ClustersCleared(b)
  PROVE  IndInv'
  <1> DEFINE r == blob[b]
             m == Memory(b)
             g == blob_persist_clear_clusters_cpl(m)
  <1>1. InMemory(b) /\ r.io = "clusters" /\ DiskOnly /\ UNCHANGED disk /\ SetMemory(b, g)
    BY DEF ClustersCleared, InIo
  <1>2. /\ Mem(disk, b, r) /\ Running /\ bs = "loaded"
        /\ disk \in [MdPages -> Page] /\ changes \in Nat /\ r.ver <= changes
        /\ Own(used, OthersPg(b), OthersCl(b), MP(r), ToSet(r.cl))
        /\ ~clean
    BY <1>1, OpenNow
  <1>3. m.r = r /\ m.u = used /\ m.a = acked[b]
    BY DEF Memory
  <1>4. Known(disk, b, m, changes)
    BY <1>2, KnownNow
  <1>5. MP(r) = Kept(r)
    BY <1>1 DEF MP, Kept
  <1> HIDE DEF r, m
  <1>6. Released(disk, b, m, OthersPg(b), OthersCl(b), changes)
    BY <1>1, <1>2, <1>3, <1>4, <1>5 DEF Mem, Released
  <1>7. Good(disk, b, g, OthersPg(b), OthersCl(b), changes)
    BY <1>2, <1>6, ClearClustersCplGood
  <1> HIDE DEF g
  <1>8. Others /\ changes' = changes
    BY <1>1 DEF DiskOnly, Others
  <1> QED
    BY <1>1, <1>2, <1>7, <1>8, CallGood

-----------------------------------------------------------------------------
(* Blobs that are deleted, and whose number may have a new owner. *)

(* What all the others have, if r is deleted. *)
RestPg(r) == UNION ({Pg(c) : c \in MdPages} \cup {ToSet(s.ep) : s \in deleted \ {r}})
RestCl(r) == UNION ({Cg(c) : c \in MdPages} \cup {ToSet(s.cl) : s \in deleted \ {r}})

(* The same, element by element. *)
LEMMA RestIs ==
  ASSUME NEW r, NEW y
  PROVE  /\ y \in RestPg(r) <=> \/ \E c \in MdPages : y \in Pg(c)
                                \/ \E s \in deleted \ {r} : y \in ToSet(s.ep)
         /\ y \in RestCl(r) <=> \/ \E c \in MdPages : y \in Cg(c)
                                \/ \E s \in deleted \ {r} : y \in ToSet(s.cl)
  <1>1. y \in RestPg(r) <=> \/ \E c \in MdPages : y \in Pg(c)
                            \/ \E s \in deleted \ {r} : y \in ToSet(s.ep)
    BY DEF RestPg
  <1>2. y \in RestCl(r) <=> \/ \E c \in MdPages : y \in Cg(c)
                            \/ \E s \in deleted \ {r} : y \in ToSet(s.cl)
    BY DEF RestCl
  <1> QED
    BY <1>1, <1>2

(* What a deleted blob still has is its own. *)
LEMMA DeletedNow ==
  ASSUME IndInv, NEW r \in deleted, NEW m, m.r = r, m.u = used
  PROVE  /\ bs = "loaded" /\ DelOK(r) /\ Fading(m, RestPg(r), RestCl(r))
         /\ disk \in [MdPages -> Page]
  <1>1. bs = "loaded" /\ DelOK(r)
    BY DEF IndInv, Modes
  <1>2. Running /\ used \in Masks /\ disk \in [MdPages -> Page]
    BY <1>1 DEF IndInv, Types, Running
  <1>3. /\ \A c \in MdPages : Pg(c) \subseteq used.md /\ Cg(c) \subseteq used.clusters
        /\ \A s \in deleted : ToSet(s.ep) \subseteq used.md /\ ToSet(s.cl) \subseteq used.clusters
    BY <1>2 DEF IndInv, Claimed
  <1>4. /\ \A c \in MdPages : Pg(c) \cap ToSet(r.ep) = {} /\ Cg(c) \cap ToSet(r.cl) = {}
        /\ \A s \in deleted \ {r} : ToSet(s.ep) \cap ToSet(r.ep) = {} /\ ToSet(s.cl) \cap ToSet(r.cl) = {}
    BY DEF IndInv, Apart
  <1>5. RestPg(r) \subseteq used.md /\ RestCl(r) \subseteq used.clusters
    BY <1>3, RestIs
  <1>6. ToSet(r.ep) \cap RestPg(r) = {} /\ ToSet(r.cl) \cap RestCl(r) = {}
    BY <1>4, RestIs
  <1>7. Own(used, RestPg(r), RestCl(r), ToSet(r.ep), ToSet(r.cl))
    BY <1>2, <1>3, <1>5, <1>6 DEF Own
  <1> QED
    BY <1>1, <1>2, <1>7 DEF Fading, DelOK

(* A step that touches only what r has. *)
LEMMA DeletedStep ==
  ASSUME IndInv, NEW r \in deleted, NEW m, m.u = used, NEW g, Faded(m, g, RestPg(r), RestCl(r)),
         SetDeleted(r, g), DiskOnly, disk' \in [MdPages -> Page], \A c \in MdPages : Same(disk', c)
  PROVE  IndInv'
  <1> DEFINE X == {g.r} \ {NoBlob}
  <1>1. /\ deleted' = (deleted \ {r}) \cup X /\ used' = g.u /\ blob' = blob /\ acked' = acked
    BY DEF SetDeleted
  <1>2. /\ super_clean' = super_clean /\ masks' = masks /\ bs' = bs /\ clean' = clean
        /\ changes' = changes /\ crashes' = crashes
    BY DEF DiskOnly
  <1>3. Own(g.u, RestPg(r), RestCl(r), {}, {}) /\ g.u.ids = used.ids
    BY DEF Faded, Own
  <1>4. ASSUME NEW s \in X
        PROVE  /\ s = g.r /\ DelOK(s)
               /\ Own(g.u, RestPg(r), RestCl(r), ToSet(s.ep), ToSet(s.cl))
    BY DEF Faded
  <1> HIDE DEF X
  <1>5. /\ Types /\ Blobs /\ Apart /\ Claimed /\ MasksTrue /\ Modes
    BY DEF IndInv
  <1>6. bs = "loaded" /\ ~clean /\ ~super_clean
    BY <1>5 DEF Modes
  <1>7. Running
    BY <1>6 DEF Running
  <1>8. ASSUME NEW c \in MdPages PROVE Pg(c)' = Pg(c) /\ Cg(c)' = Cg(c) /\ (InMemory(c)' <=> InMemory(c))
    BY <1>1 DEF Pg, Cg, InMemory, Same
  <1>9. /\ g.u \in Masks
        /\ RestPg(r) \subseteq g.u.md /\ RestCl(r) \subseteq g.u.clusters
    BY <1>3 DEF Own
  <1>10. ASSUME NEW s \in X
         PROVE  /\ ToSet(s.ep) \subseteq g.u.md /\ ToSet(s.cl) \subseteq g.u.clusters
                /\ ToSet(s.ep) \cap RestPg(r) = {} /\ ToSet(s.cl) \cap RestCl(r) = {}
    BY <1>4 DEF Own
  <1>11. /\ \A c \in MdPages : Pg(c) \subseteq RestPg(r) /\ Cg(c) \subseteq RestCl(r)
         /\ \A s \in deleted \ {r} : ToSet(s.ep) \subseteq RestPg(r) /\ ToSet(s.cl) \subseteq RestCl(r)
    BY RestIs
  <1>12. Types'
    <2>1. \A c \in MdPages : RootAt(disk', c) => disk'[c].ver <= changes
      BY <1>5 DEF Types, Same
    <2> QED
      BY <1>1, <1>2, <1>5, <1>9, <2>1 DEF Types, InMemory
  <1>13. Blobs'
    BY <1>1, <1>5 DEF Blobs, InMemory, Same
  <1>14. Apart'
    <2>1. ASSUME NEW c \in MdPages, NEW s \in (deleted \ {r}) \cup X
          PROVE  Pg(c) \cap ToSet(s.ep) = {} /\ Cg(c) \cap ToSet(s.cl) = {}
      <3>1. CASE s \in X
        BY <1>10, <1>11, <3>1
      <3>2. CASE s \in deleted
        BY <1>5, <3>2 DEF Apart
      <3> QED
        BY <3>1, <3>2
    <2>2. ASSUME NEW s \in (deleted \ {r}) \cup X, NEW t \in (deleted \ {r}) \cup X, s # t
          PROVE  ToSet(s.ep) \cap ToSet(t.ep) = {} /\ ToSet(s.cl) \cap ToSet(t.cl) = {}
      <3>1. CASE s \in X /\ t \in X
        BY <1>4, <2>2, <3>1
      <3>2. CASE s \in X /\ t \in deleted \ {r}
        BY <1>10, <1>11, <3>2
      <3>3. CASE s \in deleted \ {r} /\ t \in X
        BY <1>10, <1>11, <3>3
      <3>4. CASE s \in deleted /\ t \in deleted
        BY <1>5, <2>2, <3>4 DEF Apart
      <3> QED
        BY <3>1, <3>2, <3>3, <3>4
    <2>3. \A b, c \in MdPages : b # c => Pg(b) \cap Pg(c) = {} /\ Cg(b) \cap Cg(c) = {}
      BY <1>5 DEF Apart
    <2> QED
      BY <1>1, <1>8, <2>1, <2>2, <2>3 DEF Apart
  <1>15. Claimed'
    <2>1. ASSUME NEW c \in MdPages PROVE Pg(c) \subseteq g.u.md /\ Cg(c) \subseteq g.u.clusters
      BY <1>9, <1>11
    <2>2. ASSUME NEW s \in (deleted \ {r}) \cup X
          PROVE  ToSet(s.ep) \subseteq g.u.md /\ ToSet(s.cl) \subseteq g.u.clusters
      BY <1>9, <1>10, <1>11
    <2>3. ASSUME NEW c \in MdPages, LoadsAt(disk', c) \/ blob[c].st \in Alive
          PROVE  c \in g.u.ids \/ (InMemory(c) /\ blob[c].st = "deleting")
      BY <1>3, <1>5, <1>7, <2>3 DEF Claimed, Same
    <2> QED
      BY <1>1, <1>8, <2>1, <2>2, <2>3 DEF Claimed
  <1>16. MasksTrue'
    BY <1>2, <1>6 DEF MasksTrue
  <1>17. Modes'
    <2>1. \A s \in deleted' : DelOK(s)
      BY <1>1, <1>4, <1>5 DEF Modes
    <2> QED
      BY <1>1, <1>2, <1>5, <1>6, <1>8, <2>1 DEF Modes, InMemory
  <1> QED
    BY <1>12, <1>13, <1>14, <1>15, <1>16, <1>17 DEF IndInv

(* The clusters of a deleted blob are cleared. *)
LEMMA DeletedClustersKeep ==
  ASSUME IndInv, NEW r \in deleted, DeletedClustersCleared(r)
  PROVE  IndInv'
  <1>1. PICK m : m = [r |-> r, u |-> used, a |-> Unknown]
    OBVIOUS
  <1>2. /\ SetDeleted(r, blob_persist_clear_clusters_cpl(m)) /\ UNCHANGED disk /\ DiskOnly
        /\ m.r = r /\ m.u = used
    BY <1>1 DEF DeletedClustersCleared
  <1>3. Fading(m, RestPg(r), RestCl(r)) /\ disk \in [MdPages -> Page]
    BY <1>2, DeletedNow
  <1>4. PICK g : g = blob_persist_clear_clusters_cpl(m)
    OBVIOUS
  <1>5. Faded(m, g, RestPg(r), RestCl(r))
    BY <1>3, <1>4, FadingClustersCpl
  <1>6. \A c \in MdPages : Same(disk', c)
    BY <1>2, SameDisk
  <1> QED
    BY <1>2, <1>3, <1>4, <1>5, <1>6, DeletedStep

(* An extent page of a deleted blob is zeroed. *)
LEMMA DeletedExtentKeeps ==
  ASSUME IndInv, NEW r \in deleted, DeletedExtentZeroed(r)
  PROVE  IndInv'
  <1>1. PICK m : m = [r |-> r, u |-> used, a |-> Unknown]
    OBVIOUS
  <1>2. PICK p \in r.left : /\ Write(p, ZeroPage)
                            /\ SetDeleted(r, Zeroed(m, p, blob_persist_clear_extents_cpl))
    BY <1>1 DEF DeletedExtentZeroed
  <1>3. DiskOnly /\ r.io = "extents" /\ m.r = r /\ m.u = used
    BY <1>1 DEF DeletedExtentZeroed
  <1>4. Fading(m, RestPg(r), RestCl(r)) /\ disk \in [MdPages -> Page] /\ DelOK(r)
    BY <1>3, DeletedNow
  <1>5. /\ r \in BlobRec /\ r.cl = <<>> /\ r.left \subseteq ToSet(r.ep)
        /\ r.st = "deleting" /\ ~r.pend /\ r.num = 0 /\ r.nep = 0
    BY <1>3, <1>4 DEF DelOK
  <1>6. p \in MdPages /\ p \in ToSet(r.ep)
    <2>1. r.ep \in Seq(MdPages)
      BY <1>5 DEF BlobRec
    <2> QED
      BY <1>2, <1>5, <2>1, ToSetFacts
  <1>7. ZeroPage \in Page /\ ZeroPage.kind = "zero"
    BY DEF Page, ZeroPage
  <1>8. /\ disk' \in [MdPages -> Page] /\ disk'[p] = ZeroPage
        /\ \A q \in MdPages : q # p => disk'[q] = disk[q]
    BY <1>2, <1>4, <1>6, <1>7 DEF Write
  <1>9. ASSUME NEW c \in MdPages PROVE Same(disk', c)
    <2>1. p \notin Pg(c)
      BY <1>6 DEF IndInv, Apart
    <2> QED
      BY <1>6, <1>7, <1>8, <2>1, SameElsewhere
  <1>10. PICK h : h = With(m, [m.r EXCEPT !.left = m.r.left \ {p}])
    OBVIOUS
  <1>11. PICK g : g = Zeroed(m, p, blob_persist_clear_extents_cpl)
    OBVIOUS
  <1>12. g = IF h.r.left = {} THEN blob_persist_clear_extents_cpl(h) ELSE h
    BY <1>10, <1>11 DEF Zeroed
  <1>13. m.r \in BlobRec
    BY <1>3, <1>5
  <1>14. /\ Alike(m.r, h.r) /\ h.u = m.u /\ h.a = m.a /\ h.r.left = m.r.left \ {p}
         /\ h.r.st = m.r.st /\ h.r.io = m.r.io /\ h.r.pend = m.r.pend /\ h.r.cl = m.r.cl
    BY <1>10, <1>13, RestFacts
  <1>15. /\ h.r \in BlobRec /\ h.u = m.u /\ h.a = m.a /\ h.r.left \subseteq r.left
         /\ h.r.st = "deleting" /\ h.r.io = "extents" /\ ~h.r.pend /\ h.r.cl = <<>>
         /\ h.r.num = 0 /\ h.r.nep = 0 /\ h.r.ep = r.ep
    BY <1>3, <1>5, <1>14 DEF Alike
  <1>16. Own(h.u, RestPg(r), RestCl(r), ToSet(h.r.ep), ToSet(h.r.cl))
    BY <1>3, <1>4, <1>5, <1>15 DEF Fading
  <1>17. Faded(m, g, RestPg(r), RestCl(r))
    <2>1. CASE h.r.left = {}
      <3>1. Fading(h, RestPg(r), RestCl(r))
        BY <1>15, <1>16 DEF Fading
      <3>2. Faded(h, blob_persist_clear_extents_cpl(h), RestPg(r), RestCl(r))
        BY <1>15, <3>1, FadingExtentsCpl
      <3>3. Faded(h, g, RestPg(r), RestCl(r))
        BY <1>12, <2>1, <3>2
      <3> QED
        BY <1>15, <3>3 DEF Faded
    <2>2. CASE h.r.left # {}
      <3>1. DelOK(h.r)
        BY <1>5, <1>15 DEF DelOK
      <3> QED
        BY <1>12, <1>15, <1>16, <2>2, <3>1 DEF Faded
    <2> QED
      BY <2>1, <2>2
  <1> QED
    BY <1>2, <1>3, <1>8, <1>9, <1>11, <1>17, DeletedStep

-----------------------------------------------------------------------------
(* Loading, unloading and crashes. *)

(* Masks u list whatever the chains on disk have. *)
Covers(u) ==
  \A b \in MdPages :
    /\ DiskPg(disk, b) \subseteq u.md /\ DiskCl(disk, b) \subseteq u.clusters
    /\ LoadsAt(disk, b) => b \in u.ids

(* What is on disk of different blobs is apart. *)
LEMMA DiskApart ==
  ASSUME IndInv, NEW b \in MdPages
  PROVE  /\ Closed(disk, b) /\ DiskPg(disk, b) \subseteq Pg(b) /\ DiskCl(disk, b) \subseteq Cg(b)
  <1>1. disk \in [MdPages -> Page]
    BY DEF IndInv, Types
  <1>2. CASE InMemory(b)
    <2>1. Mem(disk, b, blob[b])
      BY <1>2 DEF IndInv, Blobs
    <2> QED
      BY <1>1, <1>2, <2>1, MemDisk DEF Pg, Cg
  <1>3. CASE ~InMemory(b)
    BY <1>3 DEF IndInv, Blobs, Pg, Cg
  <1> QED
    BY <1>2, <1>3

(* A step after which no blob is in memory. *)
LEMMA QuietStep ==
  ASSUME IndInv, disk' = disk, acked' = acked, changes' = changes, deleted' = {},
         DOMAIN blob' = MdPages, \A b \in MdPages : blob'[b] = NoBlob,
         used' \in Masks, masks' \in Masks, bs' \in States, clean' \in BOOLEAN,
         super_clean' \in BOOLEAN, crashes' \in 0 .. MaxCrashes,
         bs' \notin {"unloaded", "failed"} => Covers(used'),
         super_clean' => Covers(masks'),
         ~clean' => ~super_clean',
         bs' \in {"recover_md", "recover_ids", "recover_clusters"} => ~super_clean',
         bs' \in {"unload_ids", "unload_clusters", "unload_super"} => masks'.md = used'.md,
         bs' \in {"unload_clusters", "unload_super"} => masks'.ids = used'.ids,
         bs' = "unload_super" => masks'.clusters = used'.clusters
  PROVE  IndInv'
  <1>1. \A b \in MdPages : ~InMemory(b)' /\ blob'[b].st # "deleting" /\ blob'[b].st \notin Alive
    BY DEF InMemory, NoBlob, Alive
  <1>2. Types /\ Blobs /\ Apart
    BY DEF IndInv
  <1>3. \A b \in MdPages : Pg(b)' = DiskPg(disk, b) /\ Cg(b)' = DiskCl(disk, b)
    BY <1>1 DEF Pg, Cg
  <1>4. Types'
    BY <1>1, <1>2 DEF Types
  <1>5. Blobs'
    <2>1. \A b \in MdPages : Closed(disk, b) /\ Ack(disk, b, acked[b])
      BY <1>2, DiskApart DEF Blobs
    <2> QED
      BY <1>1, <2>1 DEF Blobs
  <1>6. Apart'
    <2>1. ASSUME NEW b \in MdPages, NEW c \in MdPages, b # c
          PROVE  DiskPg(disk, b) \cap DiskPg(disk, c) = {} /\ DiskCl(disk, b) \cap DiskCl(disk, c) = {}
      <3>1. Pg(b) \cap Pg(c) = {} /\ Cg(b) \cap Cg(c) = {}
        BY <1>2, <2>1 DEF Apart
      <3>2. /\ DiskPg(disk, b) \subseteq Pg(b) /\ DiskCl(disk, b) \subseteq Cg(b)
            /\ DiskPg(disk, c) \subseteq Pg(c) /\ DiskCl(disk, c) \subseteq Cg(c)
        BY DiskApart
      <3> QED
        BY <3>1, <3>2
    <2> QED
      BY <1>3, <2>1 DEF Apart
  <1>7. Claimed'
    BY <1>1, <1>3 DEF Claimed, Running, Covers
  <1>8. MasksTrue'
    BY DEF MasksTrue, Covers
  <1>9. Modes'
    BY <1>1 DEF Modes
  <1> QED
    BY <1>4, <1>5, <1>6, <1>7, <1>8, <1>9 DEF IndInv

(* What holds while the blobstore is not loaded, or no blob is in use. *)
LEMMA QuietNow ==
  ASSUME IndInv, deleted = {}, \A b \in MdPages : ~InMemory(b)
  PROVE  /\ Running => Covers(used)
         /\ super_clean => Covers(masks)
         /\ DOMAIN blob = MdPages /\ \A b \in MdPages : blob[b] = NoBlob
         /\ used \in Masks /\ masks \in Masks /\ crashes \in 0 .. MaxCrashes
         /\ clean \in BOOLEAN /\ super_clean \in BOOLEAN
  <1>1. \A b \in MdPages : Pg(b) = DiskPg(disk, b) /\ Cg(b) = DiskCl(disk, b)
    BY DEF Pg, Cg
  <1>2. Running => Covers(used)
    BY <1>1 DEF IndInv, Claimed, Covers
  <1>3. super_clean => Covers(masks)
    BY DEF IndInv, MasksTrue, Covers
  <1> QED
    BY <1>2, <1>3 DEF IndInv, Types, InMemory

(* What a replay finds. *)
LEMMA ReplayFinds ==
  ASSUME disk \in [MdPages -> Page], ~ReplayFails
  PROVE  Replayed \in Masks /\ Covers(Replayed)
  <1>1. ASSUME NEW p \in ReplayedMd
        PROVE  /\ p \in MdPages /\ disk[p].kind \in {"root", "chain"} /\ disk[p].body \in Body
               /\ ToSet(disk[p].body.ep) \subseteq MdPages /\ ToSet(disk[p].body.cl) \subseteq Clusters
    <2>1. p \in MdPages /\ disk[p].kind \in {"root", "chain"}
      BY DEF ReplayedMd, Roots, ValidMd
    <2>2. disk[p].body \in Body
      BY <2>1, PageTypes
    <2>3. disk[p].body.ep \in Seq(MdPages) /\ disk[p].body.cl \in Seq(Clusters)
      BY <2>2 DEF Body
    <2> QED
      BY <2>1, <2>2, <2>3, ToSetFacts
  <1>2. ReplayedMd \subseteq MdPages /\ Roots \subseteq MdPages /\ Roots \subseteq ReplayedMd
    BY DEF ReplayedMd, Roots
  <1>3. ReplayedEp \subseteq MdPages
    BY <1>1 DEF ReplayedEp
  <1>4. ASSUME NEW p \in ReplayedEp
        PROVE  disk[p].kind = "extent" /\ ToSet(disk[p].cl) \subseteq Clusters
    <2>1. disk[p].kind = "extent"
      BY DEF ReplayFails
    <2>2. disk[p].cl \in Seq(Clusters)
      BY <1>3, <2>1, PageTypes
    <2> QED
      BY <2>1, <2>2, ToSetFacts
  <1> DEFINE CS == {ToSet(disk[p].body.cl) : p \in ReplayedMd}
             ES == {ToSet(disk[p].cl) : p \in ReplayedEp}
  <1>5. /\ Replayed.md = ReplayedMd \cup ReplayedEp /\ Replayed.ids = Roots
        /\ Replayed.clusters = UNION (CS \cup ES)
        /\ Replayed = [md |-> Replayed.md, ids |-> Replayed.ids, clusters |-> Replayed.clusters]
    BY DEF Replayed
  <1>6. UNION (CS \cup ES) \subseteq Clusters
    <2>1. \A x \in CS \cup ES : x \subseteq Clusters
      BY <1>1, <1>4
    <2> HIDE DEF CS, ES
    <2> QED
      BY <2>1
  <1>7. Replayed \in Masks
    <2>1. Replayed.md \subseteq MdPages /\ Replayed.ids \subseteq MdPages /\ Replayed.clusters \subseteq Clusters
      BY <1>2, <1>3, <1>5, <1>6
    <2>2. Replayed = [md |-> Replayed.md, ids |-> Replayed.ids, clusters |-> Replayed.clusters]
      BY <1>5
    <2>3. PICK x, y, z : x = Replayed.md /\ y = Replayed.ids /\ z = Replayed.clusters
      OBVIOUS
    <2> QED
      BY <2>1, <2>2, <2>3 DEF Masks
  <1>8. ASSUME NEW b \in MdPages, LoadsAt(disk, b)
        PROVE  /\ PagesAt(disk, b) \subseteq Replayed.md /\ ClustersAt(disk, b) \subseteq Replayed.clusters
               /\ b \in Replayed.ids
    <2>1. b \in Roots
      BY <1>8 DEF LoadsAt, RootAt, Roots
    <2>2. disk[b].next # NoPage => disk[b].next \in ReplayedMd
      <3> SUFFICES ASSUME disk[b].next # NoPage PROVE disk[b].next \in ReplayedMd
        OBVIOUS
      <3>1. disk[b].next \in MdPages
        BY <2>1, PageTypes DEF Roots
      <3>2. ValidMd(disk[b].next)
        BY <1>8 DEF LoadsAt, ValidMd
      <3> QED
        BY <2>1, <3>1, <3>2 DEF ReplayedMd
    <2>3. PICK p \in ReplayedMd : BodyAt(disk, b) = disk[p].body
      BY <1>2, <2>1, <2>2 DEF BodyAt, LastAt
    <2>4. ToSet(BodyAt(disk, b).ep) \subseteq ReplayedEp
      BY <2>3 DEF ReplayedEp
    <2>5. ToSet(BodyAt(disk, b).cl) \in CS
      BY <2>3
    <2>6. ASSUME NEW q \in ToSet(BodyAt(disk, b).ep) PROVE ToSet(disk[q].cl) \in ES
      BY <2>4
    <2> HIDE DEF CS, ES
    <2>7. ClustersAt(disk, b) \subseteq UNION (CS \cup ES)
      BY <2>5, <2>6 DEF ClustersAt
    <2>8. PagesAt(disk, b) \subseteq ReplayedMd \cup ReplayedEp
      BY <1>2, <2>1, <2>2, <2>4 DEF PagesAt, ChainAt
    <2> QED
      BY <1>5, <2>1, <2>7, <2>8
  <1>9. ASSUME NEW b \in MdPages, RootAt(disk, b) PROVE b \in Replayed.md
    BY <1>2, <1>5, <1>9 DEF RootAt, Roots
  <1>10. Covers(Replayed)
    BY <1>8, <1>9 DEF Covers, DiskPg, DiskCl
  <1> QED
    BY <1>7, <1>10

(* spdk_bs_load. *)
LEMMA LoadKeeps ==
  ASSUME IndInv, spdk_bs_load
  PROVE  IndInv'
  <1>1. /\ bs = "unloaded" /\ clean' = TRUE
        /\ UNCHANGED <<disk, super_clean, masks, blob, deleted, acked, changes, crashes>>
    BY DEF spdk_bs_load
  <1>2. deleted = {} /\ \A b \in MdPages : ~InMemory(b)
    BY <1>1 DEF IndInv, Modes
  <1>3. /\ super_clean => Covers(masks)
        /\ DOMAIN blob = MdPages /\ \A b \in MdPages : blob[b] = NoBlob
        /\ used \in Masks /\ masks \in Masks /\ crashes \in 0 .. MaxCrashes
        /\ super_clean \in BOOLEAN
    BY <1>2, QuietNow
  <1>4. disk \in [MdPages -> Page]
    BY DEF IndInv, Types
  <1>5. CASE super_clean /\ used' = masks /\ bs' = "loaded"
    BY <1>1, <1>2, <1>3, <1>5, QuietStep DEF States
  <1>6. CASE ~super_clean /\ ReplayFails /\ bs' = "failed" /\ used' = used
    BY <1>1, <1>2, <1>3, <1>6, QuietStep DEF States
  <1>7. CASE ~super_clean /\ ~ReplayFails /\ used' = Replayed /\ bs' = "recover_md"
    <2>1. Replayed \in Masks /\ Covers(Replayed)
      BY <1>4, <1>7, ReplayFinds
    <2> QED
      BY <1>1, <1>2, <1>3, <1>7, <2>1, QuietStep DEF States
  <1> QED
    BY <1>5, <1>6, <1>7 DEF spdk_bs_load

(* One of the masks is written. *)
LEMMA MaskFacts ==
  ASSUME IndInv, NEW from, NEW to, NEW field \in {"md", "ids", "clusters"},
         MaskWritten(from, field, to), Running, bs # "loaded"
  PROVE  /\ deleted = {} /\ \A b \in MdPages : blob[b] = NoBlob
         /\ DOMAIN blob = MdPages
         /\ used \in Masks /\ masks' \in Masks /\ crashes \in 0 .. MaxCrashes
         /\ clean \in BOOLEAN /\ super_clean \in BOOLEAN /\ (~clean => ~super_clean)
         /\ masks'[field] = used[field]
         /\ field # "md" => masks'.md = masks.md
         /\ field # "ids" => masks'.ids = masks.ids
         /\ field # "clusters" => masks'.clusters = masks.clusters
         /\ Covers(used) /\ (super_clean => Covers(masks'))
         /\ bs = from /\ bs' = to
         /\ UNCHANGED <<disk, super_clean, clean, used, blob, deleted, acked, changes, crashes>>
  <1>1. /\ bs = from /\ bs' = to /\ masks' = [masks EXCEPT ![field] = used[field]]
        /\ UNCHANGED <<disk, super_clean, clean, used, blob, deleted, acked, changes, crashes>>
    BY DEF MaskWritten
  <1>2. deleted = {} /\ (\A b \in MdPages : ~InMemory(b)) /\ (~clean => ~super_clean)
    BY DEF IndInv, Modes
  <1>3. /\ super_clean => Covers(masks)
        /\ Covers(used)
        /\ DOMAIN blob = MdPages /\ \A b \in MdPages : blob[b] = NoBlob
        /\ used \in Masks /\ masks \in Masks /\ crashes \in 0 .. MaxCrashes
        /\ clean \in BOOLEAN /\ super_clean \in BOOLEAN
    BY <1>2, QuietNow
  <1>4. /\ masks' \in Masks
        /\ masks'[field] = used[field]
        /\ field # "md" => masks'.md = masks.md
        /\ field # "ids" => masks'.ids = masks.ids
        /\ field # "clusters" => masks'.clusters = masks.clusters
    <2>1. CASE field = "md"
      BY <1>1, <1>3, <2>1 DEF Masks
    <2>2. CASE field = "ids"
      BY <1>1, <1>3, <2>2 DEF Masks
    <2>3. CASE field = "clusters"
      BY <1>1, <1>3, <2>3 DEF Masks
    <2> QED
      BY <2>1, <2>2, <2>3
  <1>5. super_clean => Covers(masks')
    <2> SUFFICES ASSUME super_clean PROVE Covers(masks')
      OBVIOUS
    <2>1. Covers(masks) /\ Covers(used)
      BY <1>3
    <2>2. /\ masks'.md = masks.md \/ masks'.md = used.md
          /\ masks'.ids = masks.ids \/ masks'.ids = used.ids
          /\ masks'.clusters = masks.clusters \/ masks'.clusters = used.clusters
      BY <1>4
    <2> QED
      BY <2>1, <2>2 DEF Covers
  <1> QED
    BY <1>1, <1>2, <1>3, <1>4, <1>5

(* Recovery and unloading write the masks. *)
LEMMA MaskKeeps ==
  ASSUME IndInv, NEW from, NEW to \in States \ {"unloaded", "failed"},
         NEW field \in {"md", "ids", "clusters"}, MaskWritten(from, field, to),
         from \notin {"unloaded", "failed", "loaded"},
         to \in {"recover_ids", "recover_clusters"} => from \in {"recover_md", "recover_ids"},
         to # "recover_md",
         to \in {"unload_ids", "unload_clusters", "unload_super"} =>
           field = "md" \/ from \in {"unload_ids", "unload_clusters", "unload_super"},
         to \in {"unload_clusters", "unload_super"} =>
           field = "ids" \/ from \in {"unload_clusters", "unload_super"},
         to = "unload_super" => field = "clusters"
  PROVE  IndInv'
  <1>1. Running /\ bs # "loaded" /\ bs = from /\ bs' = to
    BY DEF MaskWritten, Running
  <1>2. /\ deleted = {} /\ \A b \in MdPages : blob[b] = NoBlob
        /\ DOMAIN blob = MdPages
        /\ used \in Masks /\ masks' \in Masks /\ crashes \in 0 .. MaxCrashes
        /\ clean \in BOOLEAN /\ super_clean \in BOOLEAN /\ (~clean => ~super_clean)
        /\ masks'[field] = used[field]
        /\ field # "md" => masks'.md = masks.md
        /\ field # "ids" => masks'.ids = masks.ids
        /\ field # "clusters" => masks'.clusters = masks.clusters
        /\ Covers(used) /\ (super_clean => Covers(masks'))
        /\ UNCHANGED <<disk, super_clean, clean, used, blob, deleted, acked, changes, crashes>>
    BY <1>1, MaskFacts
  <1>3. Modes
    BY DEF IndInv
  <1>4. bs' \in {"recover_md", "recover_ids", "recover_clusters"} => ~super_clean'
    BY <1>1, <1>2, <1>3 DEF Modes
  <1>5. bs' \in {"unload_ids", "unload_clusters", "unload_super"} => masks'.md = used'.md
    <2> SUFFICES ASSUME bs' \in {"unload_ids", "unload_clusters", "unload_super"}
                 PROVE  masks'.md = used'.md
      OBVIOUS
    <2>1. CASE field = "md"
      BY <1>2, <2>1
    <2>2. CASE field # "md"
      BY <1>1, <1>2, <1>3, <2>2 DEF Modes
    <2> QED
      BY <2>1, <2>2
  <1>6. bs' \in {"unload_clusters", "unload_super"} => masks'.ids = used'.ids
    <2> SUFFICES ASSUME bs' \in {"unload_clusters", "unload_super"}
                 PROVE  masks'.ids = used'.ids
      OBVIOUS
    <2>1. CASE field = "ids"
      BY <1>2, <2>1
    <2>2. CASE field # "ids"
      BY <1>1, <1>2, <1>3, <2>2 DEF Modes
    <2> QED
      BY <2>1, <2>2
  <1>7. bs' = "unload_super" => masks'.clusters = used'.clusters
    <2> SUFFICES ASSUME bs' = "unload_super" PROVE masks'.clusters = used'.clusters
      OBVIOUS
    <2>1. field = "clusters"
      BY <1>1
    <2> QED
      BY <1>2, <2>1
  <1> QED
    BY <1>1, <1>2, <1>4, <1>5, <1>6, <1>7, QuietStep

(* All the writes of masks. *)
LEMMA MasksKeep ==
  ASSUME IndInv, RecoverWrites \/ UnloadWrites
  PROVE  IndInv'
  <1>1. CASE MaskWritten("recover_md", "md", "recover_ids")
    BY <1>1, MaskKeeps DEF States
  <1>2. CASE MaskWritten("recover_ids", "ids", "recover_clusters")
    BY <1>2, MaskKeeps DEF States
  <1>3. CASE MaskWritten("recover_clusters", "clusters", "loaded")
    BY <1>3, MaskKeeps DEF States
  <1>4. CASE MaskWritten("unload_md", "md", "unload_ids")
    BY <1>4, MaskKeeps DEF States
  <1>5. CASE MaskWritten("unload_ids", "ids", "unload_clusters")
    BY <1>5, MaskKeeps DEF States
  <1>6. CASE MaskWritten("unload_clusters", "clusters", "unload_super")
    BY <1>6, MaskKeeps DEF States
  <1> QED
    BY <1>1, <1>2, <1>3, <1>4, <1>5, <1>6 DEF RecoverWrites, UnloadWrites

(* The start and the end of unloading, and a crash. *)
LEMMA UnloadKeeps ==
  ASSUME IndInv, spdk_bs_unload \/ bs_unload_write_super_cpl \/ Crash
  PROVE  IndInv'
  <1>0. Modes /\ Types /\ MasksTrue
    BY DEF IndInv
  <1>4. NoMasks \in Masks
    BY DEF NoMasks, Masks
  <1>1. CASE spdk_bs_unload
    <2>1. /\ bs = "loaded" /\ deleted = {} /\ \A b \in MdPages : ~InMemory(b)
          /\ bs' = "unload_md"
          /\ UNCHANGED <<disk, super_clean, masks, clean, used, blob, deleted, acked, changes, crashes>>
      BY <1>1 DEF spdk_bs_unload, Loaded
    <2>2. Running /\ (~clean => ~super_clean)
      BY <1>0, <2>1 DEF Running, Modes
    <2>3. /\ Covers(used)
          /\ super_clean => Covers(masks)
          /\ DOMAIN blob = MdPages /\ \A b \in MdPages : blob[b] = NoBlob
          /\ used \in Masks /\ masks \in Masks /\ crashes \in 0 .. MaxCrashes
          /\ clean \in BOOLEAN /\ super_clean \in BOOLEAN
      BY <2>1, <2>2, QuietNow
    <2> QED
      BY <2>1, <2>2, <2>3, QuietStep DEF States
  <1>2. CASE bs_unload_write_super_cpl
    <2>1. /\ bs = "unload_super" /\ bs' = "unloaded" /\ super_clean' = TRUE
          /\ used' = NoMasks /\ clean' = TRUE
          /\ UNCHANGED <<disk, masks, blob, deleted, acked, changes, crashes>>
      BY <1>2 DEF bs_unload_write_super_cpl
    <2>2. /\ Running /\ deleted = {} /\ (\A b \in MdPages : ~InMemory(b))
          /\ masks.md = used.md /\ masks.ids = used.ids /\ masks.clusters = used.clusters
      BY <1>0, <2>1 DEF Running, Modes
    <2>3. /\ Covers(used)
          /\ DOMAIN blob = MdPages /\ \A b \in MdPages : blob[b] = NoBlob
          /\ used \in Masks /\ masks \in Masks /\ crashes \in 0 .. MaxCrashes
      BY <2>2, QuietNow
    <2>4. Covers(masks)
      BY <2>2, <2>3 DEF Covers
    <2> QED
      BY <1>4, <2>1, <2>2, <2>3, <2>4, QuietStep DEF States
  <1>3. CASE Crash
    <2>1. /\ crashes' = crashes + 1 /\ crashes < MaxCrashes
          /\ bs' = "unloaded" /\ clean' = TRUE /\ used' = NoMasks
          /\ blob' = [b \in MdPages |-> NoBlob] /\ deleted' = {}
          /\ UNCHANGED <<disk, super_clean, masks, acked, changes>>
      BY <1>3 DEF Crash
    <2>2. crashes' \in 0 .. MaxCrashes
      BY <1>0, <2>1, BoundsAssumption DEF Types
    <2>3. masks \in Masks /\ super_clean \in BOOLEAN /\ (super_clean => Covers(masks))
      BY <1>0 DEF Types, MasksTrue, Covers
    <2>4. DOMAIN blob' = MdPages /\ \A b \in MdPages : blob'[b] = NoBlob
      BY <2>1
    <2> QED
      BY <1>4, <2>1, <2>2, <2>3, <2>4, QuietStep DEF States
  <1> QED
    BY <1>1, <1>2, <1>3

-----------------------------------------------------------------------------
(* The initial state. *)
LEMMA InitInv == Init => IndInv
  <1> SUFFICES ASSUME Init PROVE IndInv
    OBVIOUS
  <1>1. /\ disk = [p \in MdPages |-> ZeroPage] /\ super_clean = TRUE /\ masks = NoMasks
        /\ bs = "unloaded" /\ clean = TRUE /\ used = NoMasks
        /\ blob = [b \in MdPages |-> NoBlob] /\ deleted = {}
        /\ acked = [b \in MdPages |-> Unknown]
        /\ changes = 0 /\ crashes = 0
    BY DEF Init
  <1>2. ZeroPage \in Page /\ ZeroPage.kind = "zero"
    BY DEF Page, ZeroPage
  <1>3. disk \in [MdPages -> Page] /\ \A b \in MdPages : ~RootAt(disk, b) /\ ~LoadsAt(disk, b)
    <2>1. disk \in [MdPages -> Page] /\ \A b \in MdPages : disk[b].kind = "zero"
      BY <1>1, <1>2
    <2> QED
      BY <2>1 DEF RootAt, LoadsAt
  <1>4. \A b \in MdPages : ~InMemory(b) /\ blob[b].st = "closed"
    BY <1>1 DEF InMemory, NoBlob
  <1>5. \A b \in MdPages : DiskPg(disk, b) = {} /\ DiskCl(disk, b) = {} /\ Closed(disk, b)
    BY <1>3 DEF DiskPg, DiskCl, Closed
  <1>6. \A b \in MdPages : Pg(b) = {} /\ Cg(b) = {}
    BY <1>4, <1>5 DEF Pg, Cg
  <1>7. NoMasks \in Masks
    BY DEF NoMasks, Masks
  <1>8. Types
    <2>1. changes \in 0 .. MaxChanges /\ crashes \in 0 .. MaxCrashes
      BY <1>1, BoundsAssumption
    <2>2. acked \in [MdPages -> Int] /\ \A b \in MdPages : acked[b] \in Doomed .. changes
      BY <1>1 DEF Unknown, Doomed
    <2> QED
      BY <1>1, <1>3, <1>4, <1>7, <2>1, <2>2 DEF Types, States
  <1>9. Blobs
    <2>1. \A b \in MdPages : ~(acked[b] >= 0)
      BY <1>1 DEF Unknown
    <2> QED
      BY <1>3, <1>4, <1>5, <2>1 DEF Blobs, Ack
  <1>10. Apart /\ Claimed /\ MasksTrue
    BY <1>1, <1>3, <1>5, <1>6 DEF Apart, Claimed, MasksTrue, Running
  <1>11. Modes
    BY <1>1, <1>4 DEF Modes
  <1> QED
    BY <1>8, <1>9, <1>10, <1>11 DEF IndInv

(* A step that changes nothing. *)
LEMMA StutterKeeps ==
  ASSUME IndInv, UNCHANGED vars
  PROVE  IndInv'
  <1>1. /\ disk' = disk /\ super_clean' = super_clean /\ masks' = masks /\ bs' = bs /\ clean' = clean
        /\ used' = used /\ blob' = blob /\ deleted' = deleted /\ acked' = acked
        /\ changes' = changes /\ crashes' = crashes
    BY DEF vars
  <1>2. \A b \in MdPages : Pg(b)' = Pg(b) /\ Cg(b)' = Cg(b) /\ (InMemory(b)' <=> InMemory(b))
    BY <1>1 DEF Pg, Cg, InMemory
  <1>3. Types' /\ Blobs'
    BY <1>1, <1>2 DEF IndInv, Types, Blobs
  <1>4. Apart' /\ Claimed'
    BY <1>1, <1>2 DEF IndInv, Apart, Claimed, Running
  <1>5. MasksTrue' /\ Modes'
    BY <1>1, <1>2 DEF IndInv, MasksTrue, Modes
  <1> QED
    BY <1>3, <1>4, <1>5 DEF IndInv

(* The invariant is inductive. *)
LEMMA NextInv == IndInv /\ [Next]_vars => IndInv'
  <1> SUFFICES ASSUME IndInv, [Next]_vars PROVE IndInv'
    OBVIOUS
  <1>1. ASSUME NEW opts \in Opts, bs_create_blob(opts) PROVE IndInv'
    BY <1>1, CreateKeeps
  <1>2. ASSUME NEW b \in MdPages, Calls(b) PROVE IndInv'
    <2>1. ASSUME NEW sz \in 0 .. NClusters, spdk_blob_resize(b, sz) PROVE IndInv'
      <3>1. sz \in Nat
        BY SizesAssumption
      <3> QED
        BY <2>1, <3>1, ResizeKeeps
    <2> QED
      BY <1>2, <2>1, OpenKeeps, SyncOrCloseKeeps, DeleteKeeps, SetXattrKeeps DEF Calls
  <1>3. ASSUME NEW b \in MdPages, Completions(b) PROVE IndInv'
    BY <1>3, SuperKeeps, ExtentKeeps, ChainKeeps, RootKeeps, OldPageKeeps, ClustersKeep,
       ExtentZeroedKeeps DEF Completions
  <1>4. ASSUME NEW r \in deleted, DeletedClustersCleared(r) \/ DeletedExtentZeroed(r) PROVE IndInv'
    BY <1>4, DeletedClustersKeep, DeletedExtentKeeps
  <1>5. CASE spdk_bs_load \/ RecoverWrites \/ spdk_bs_unload \/ UnloadWrites
             \/ bs_unload_write_super_cpl \/ Crash
    BY <1>5, LoadKeeps, MasksKeep, UnloadKeeps
  <1>6. CASE UNCHANGED vars
    BY <1>6, StutterKeeps
  <1> QED
    BY <1>1, <1>2, <1>3, <1>4, <1>5, <1>6 DEF Next

-----------------------------------------------------------------------------
(* The pages and clusters of a whole chain are those the invariant counts. *)
LEMMA WholeIs ==
  ASSUME NEW c \in Whole
  PROVE  /\ c \in MdPages /\ LoadsAt(disk, c)
         /\ PagesOnDisk(c) = DiskPg(disk, c) /\ ClustersOnDisk(c) = DiskCl(disk, c)
         /\ LastPage(c).body = BodyAt(disk, c)
  <1>1. c \in MdPages /\ Loads(c)
    BY DEF Whole
  <1>2. LoadsAt(disk, c) /\ LastPage(c) = LastAt(disk, c) /\ ClustersOnDisk(c) = ClustersAt(disk, c)
    BY <1>1, LoadsIs
  <1>3. PagesOnDisk(c) = ({c, disk[c].next} \ {NoPage}) \cup ToSet(BodyAt(disk, c).ep)
    BY <1>1, LoadsIs
  <1>4. c # NoPage
    BY <1>1, SizesAssumption
  <1>5. PagesOnDisk(c) = PagesAt(disk, c)
    BY <1>3, <1>4 DEF PagesAt, ChainAt
  <1> QED
    BY <1>1, <1>2, <1>5 DEF DiskPg, DiskCl, BodyAt

(* TypeOK, with what the lists of the blobs in memory name. *)
LEMMA InvTypes ==
  ASSUME IndInv
  PROVE  TypeOK
  <1>1. Types
    BY DEF IndInv
  <1>2. /\ masks.md \subseteq MdPages /\ masks.ids \subseteq MdPages /\ masks.clusters \subseteq Clusters
        /\ used.md \subseteq MdPages /\ used.ids \subseteq MdPages /\ used.clusters \subseteq Clusters
    BY <1>1 DEF Types, Masks
  <1>3. acked \in [MdPages -> Doomed .. MaxChanges]
    <2>1. \A b \in MdPages : acked[b] \in Doomed .. MaxChanges
      <3>1. changes \in Int /\ changes <= MaxChanges /\ MaxChanges \in Int
        BY <1>1, BoundsAssumption DEF Types
      <3>2. \A b \in MdPages : acked[b] \in Doomed .. changes
        BY <1>1 DEF Types
      <3> QED
        BY <3>1, <3>2 DEF Doomed
    <2>2. acked \in [MdPages -> Int]
      BY <1>1 DEF Types
    <2> QED
      BY <2>1, <2>2
  <1>4. ASSUME NEW b \in MdPages, InMemory(b)
        PROVE  /\ blob[b].num <= Len(blob[b].cl) /\ blob[b].nep <= Len(blob[b].ep)
               /\ ToSet(blob[b].cl) \subseteq used.clusters
               /\ ToSet(blob[b].ep) \cup blob[b].pages \cup {b} \subseteq used.md
    <2>1. /\ Mem(disk, b, blob[b])
          /\ Own(used, OthersPg(b), OthersCl(b), MP(blob[b]), ToSet(blob[b].cl))
      BY <1>4, OpenNow
    <2>2. Base(b, blob[b])
      BY <2>1, MemShape
    <2>3. ToSet(blob[b].ep) \cup blob[b].pages \cup {b} \subseteq MP(blob[b])
      BY <2>2 DEF MP, Base
    <2> QED
      BY <2>1, <2>2, <2>3 DEF Own, Base
  <1>5. ASSUME NEW r \in deleted
        PROVE  ToSet(r.ep) \subseteq used.md /\ ToSet(r.cl) \subseteq used.clusters
    <2>1. Running
      BY DEF IndInv, Modes, Running
    <2> QED
      BY <2>1 DEF IndInv, Claimed
  <1> QED
    BY <1>1, <1>2, <1>3, <1>4, <1>5 DEF Types, TypeOK

(* MasksCover follows from the invariant. *)
LEMMA InvMasks ==
  ASSUME IndInv
  PROVE  MasksCover
  <1>1. InUseCovered
    <2> SUFFICES ASSUME Loaded, NEW b \in Whole
                 PROVE  PagesOnDisk(b) \subseteq used.md /\ ClustersOnDisk(b) \subseteq used.clusters
      BY DEF InUseCovered, Cover
    <2>1. Running
      BY DEF Loaded, Running
    <2>2. b \in MdPages /\ PagesOnDisk(b) = DiskPg(disk, b) /\ ClustersOnDisk(b) = DiskCl(disk, b)
      BY WholeIs
    <2>3. Pg(b) \subseteq used.md /\ Cg(b) \subseteq used.clusters
      BY <2>1, <2>2 DEF IndInv, Claimed
    <2> QED
      BY <2>2, <2>3, DiskApart
  <1>2. CleanMasksCover
    <2> SUFFICES ASSUME super_clean, NEW b \in Whole
                 PROVE  /\ PagesOnDisk(b) \subseteq masks.md /\ ClustersOnDisk(b) \subseteq masks.clusters
                        /\ b \in masks.ids
      BY DEF CleanMasksCover, Cover
    <2> QED
      BY WholeIs DEF IndInv, MasksTrue
  <1> QED
    BY <1>1, <1>2, InvTypes DEF MasksCover

(* DiskSound follows from the invariant. *)
LEMMA InvDisk ==
  ASSUME IndInv
  PROVE  DiskSound
  <1>1. OwnedOnce
    <2> SUFFICES ASSUME NEW b \in Whole, NEW c \in Whole, b # c
                 PROVE  /\ PagesOnDisk(b) \cap PagesOnDisk(c) = {}
                        /\ ClustersOnDisk(b) \cap ClustersOnDisk(c) = {}
      BY DEF OwnedOnce
    <2>1. /\ b \in MdPages /\ PagesOnDisk(b) = DiskPg(disk, b) /\ ClustersOnDisk(b) = DiskCl(disk, b)
          /\ c \in MdPages /\ PagesOnDisk(c) = DiskPg(disk, c) /\ ClustersOnDisk(c) = DiskCl(disk, c)
      BY WholeIs
    <2>2. Pg(b) \cap Pg(c) = {} /\ Cg(b) \cap Cg(c) = {}
      BY <2>1 DEF IndInv, Apart
    <2>3. /\ DiskPg(disk, b) \subseteq Pg(b) /\ DiskCl(disk, b) \subseteq Cg(b)
          /\ DiskPg(disk, c) \subseteq Pg(c) /\ DiskCl(disk, c) \subseteq Cg(c)
      BY <2>1, DiskApart
    <2> QED
      BY <2>1, <2>2, <2>3
  <1>2. \A b \in MdPages : Ack(disk, b, acked[b])
    BY DEF IndInv, Blobs
  <1>3. RootsWhole
    <2> SUFFICES ASSUME NEW b \in Roots PROVE b \in Whole \/ acked[b] = Doomed
      BY DEF RootsWhole
    <2>1. b \in MdPages /\ RootAt(disk, b)
      BY LoadsIs DEF Roots
    <2> QED
      BY <1>2, <2>1, LoadsIs DEF Ack, Whole
  <1>4. SyncedSurvives
    BY <1>2, LoadsIs DEF SyncedSurvives, Ack, Whole
  <1>5. ExtentsOwned
    <2> SUFFICES ASSUME NEW b \in Whole
                 PROVE  LET ep == LastPage(b).body.ep IN
                        \A i \in DOMAIN ep :
                          /\ disk[ep[i]].kind = "extent" /\ disk[ep[i]].id = b
                          /\ disk[ep[i]].start = (i - 1) * ExtentsPerEp
                          /\ \A j \in DOMAIN ep :
                               i # j => ToSet(disk[ep[i]].cl) \cap ToSet(disk[ep[j]].cl) = {}
      BY DEF ExtentsOwned
    <2>1. b \in MdPages /\ LoadsAt(disk, b) /\ LastPage(b).body = BodyAt(disk, b)
      BY WholeIs
    <2>2. Sound(disk, b, BodyAt(disk, b))
      BY <2>1, DiskApart DEF Closed
    <2> QED
      BY <2>1, <2>2 DEF Sound, ExtentOf
  <1> QED
    BY <1>1, <1>3, <1>4, <1>5 DEF DiskSound

(* ErasedUnreferenced follows from the invariant. *)
LEMMA InvErased ==
  ASSUME IndInv
  PROVE  ErasedUnreferenced
  <1> SUFFICES ASSUME NEW c \in Whole
               PROVE  /\ \A b \in MdPages : InMemory(b) /\ ~(b = c /\ blob[b].st = "deleting") =>
                           ErasesNothingOf(blob[b], c)
                      /\ \A r \in deleted : ErasesNothingOf(r, c)
    BY DEF ErasedUnreferenced
  <1>1. c \in MdPages /\ PagesOnDisk(c) = DiskPg(disk, c) /\ ClustersOnDisk(c) = DiskCl(disk, c)
    BY WholeIs
  <1>2. DiskPg(disk, c) \subseteq Pg(c) /\ DiskCl(disk, c) \subseteq Cg(c)
    BY <1>1, DiskApart
  <1>3. disk \in [MdPages -> Page]
    BY DEF IndInv, Types
  <1>4. ASSUME NEW b \in MdPages, InMemory(b), ~(b = c /\ blob[b].st = "deleting")
        PROVE  ErasesNothingOf(blob[b], c)
    <2> DEFINE r == blob[b]
    <2>1. Mem(disk, b, r)
      BY <1>4 DEF IndInv, Blobs
    <2>2. Pg(b) = MP(r) /\ Cg(b) = ToSet(r.cl)
      BY <1>4 DEF Pg, Cg
    <2> HIDE DEF r
    <2>3. Base(b, r)
      BY <2>1, MemShape
    <2>4. /\ r.cl \in Seq(Clusters) /\ r.ep \in Seq(MdPages) /\ r.num \in Nat /\ r.nep \in Nat
          /\ r.num <= Len(r.cl) /\ r.nep <= Len(r.ep) /\ r.id = b
          /\ IsInjective(r.cl) /\ IsInjective(r.ep)
          /\ b \notin ToSet(r.ep) /\ (r.pages \cup r.clean_pages) \cap ({b} \cup ToSet(r.ep)) = {}
      BY <2>3, BaseTypes DEF Base
    <2>5. /\ ItemsAfter(r.cl, r.num) \subseteq ToSet(r.cl) /\ ItemsAfter(r.ep, r.nep) \subseteq ToSet(r.ep)
          /\ ItemsAfter(r.cl, r.num) \cap ToSet(SubSeq(r.cl, 1, r.num)) = {}
          /\ ItemsAfter(r.ep, r.nep) \cap ToSet(SubSeq(r.ep, 1, r.nep)) = {}
          /\ ToSet(SubSeq(r.ep, 1, r.nep)) \subseteq ToSet(r.ep)
      BY <2>4, PrefixFacts
    <2>6. CASE b # c
      <3>1. Pg(b) \cap Pg(c) = {} /\ Cg(b) \cap Cg(c) = {}
        BY <1>1, <2>6 DEF IndInv, Apart
      <3>2. r.io = "zero" => r.left \subseteq r.clean_pages \cup {b}
        BY <2>1 DEF Mem, MemZero, MemDying
      <3>3. r.io = "extents" => r.left \subseteq ItemsAfter(r.ep, r.nep)
        BY <2>1 DEF Mem
      <3>4. r.io \in {"zero", "extents"} => r.left \subseteq MP(r)
        BY <2>4, <2>5, <3>2, <3>3 DEF MP
      <3> QED
        BY <1>1, <1>2, <2>2, <2>5, <3>1, <3>4 DEF ErasesNothingOf, r
    <2>7. CASE b = c
      <3>1. r.st # "deleting"
        BY <1>4, <2>7 DEF r
      <3>2. r.io \in {"zero", "clusters", "extents"} => Written(disk, b, r)
        BY <2>1, <3>1 DEF Mem, MemZero, MemDying
      <3>3. r.io = "zero" => r.left \subseteq r.clean_pages /\ r.pages \cap r.clean_pages = {}
        BY <2>1, <3>1 DEF Mem, MemZero, MemDying
      <3>4. r.io = "extents" => r.left \subseteq ItemsAfter(r.ep, r.nep)
        BY <2>1 DEF Mem
      <3> SUFFICES ASSUME r.io \in {"zero", "clusters", "extents"} PROVE ErasesNothingOf(r, b)
        BY <2>7 DEF ErasesNothingOf, r
      <3>5. /\ DiskPg(disk, b) \subseteq {b} \cup r.pages \cup ToSet(SubSeq(r.ep, 1, r.nep))
            /\ DiskCl(disk, b) \subseteq ToSet(SubSeq(r.cl, 1, r.num))
        BY <1>3, <3>2, WrittenDisk
      <3>6. r.io = "zero" => r.left \cap DiskPg(disk, b) = {}
        BY <2>4, <2>5, <3>3, <3>5
      <3>7. r.io = "extents" => r.left \cap DiskPg(disk, b) = {}
        BY <2>4, <2>5, <3>4, <3>5
      <3>8. ItemsAfter(r.cl, r.num) \cap DiskCl(disk, b) = {}
        BY <2>5, <3>5
      <3> QED
        BY <1>1, <2>7, <3>6, <3>7, <3>8 DEF ErasesNothingOf
    <2> QED
      BY <2>6, <2>7
  <1>5. ASSUME NEW r \in deleted PROVE ErasesNothingOf(r, c)
    <2>1. DelOK(r) /\ Pg(c) \cap ToSet(r.ep) = {} /\ Cg(c) \cap ToSet(r.cl) = {}
      BY <1>1 DEF IndInv, Modes, Apart
    <2>2. r.cl \in Seq(Clusters) /\ r.num = 0
      BY <2>1 DEF DelOK, BlobRec
    <2>3. ItemsAfter(r.cl, r.num) = ToSet(r.cl)
      BY <2>2, ItemsAfterNone
    <2>4. r.io \in {"zero", "extents"} => r.left \subseteq ToSet(r.ep)
      BY <2>1 DEF DelOK
    <2> QED
      BY <1>1, <1>2, <2>1, <2>3, <2>4 DEF ErasesNothingOf
  <1> QED
    BY <1>4, <1>5

-----------------------------------------------------------------------------
(* The invariant holds in every reachable state. *)
THEOREM InvAlways == Spec => []IndInv
  BY InitInv, NextInv, PTL DEF Spec

(***************************************************************************)
(* Nothing that is in use, in memory or on disk, passes for free, with any *)
(* number of pages, clusters, changes and crashes.                         *)
(***************************************************************************)
THEOREM MasksCoverAlways == Spec => []MasksCover
  <1>1. IndInv => MasksCover
    BY InvMasks
  <1> QED
    BY <1>1, InvAlways, PTL

(***************************************************************************)
(* Whatever the point at which the power fails: no page and no cluster has *)
(* two owners on disk, roots lead to whole chains and chains to their own  *)
(* extent pages, and what was acknowledged is there.                       *)
(***************************************************************************)
THEOREM DiskSoundAlways == Spec => []DiskSound
  <1>1. IndInv => DiskSound
    BY InvDisk
  <1> QED
    BY <1>1, InvAlways, PTL

(***************************************************************************)
(* A persist or a delete erases nothing that a chain still references.     *)
(***************************************************************************)
THEOREM ErasedUnreferencedAlways == Spec => []ErasedUnreferenced
  <1>1. IndInv => ErasedUnreferenced
    BY InvErased
  <1> QED
    BY <1>1, InvAlways, PTL

-----------------------------------------------------------------------------
(***************************************************************************)
(* The refinement of DurableBlobs.  First, what each operator of a persist *)
(* stages: nothing, or the blob as it is in memory.  Then, call by call    *)
(* and write by write, what becomes of the three contents of a blob.       *)
(***************************************************************************)

(* What the operators below need of a record. *)
Shaped(r) == {"io", "root", "ver", "st", "dirty"} \subseteq DOMAIN r

(* A root that is staged in m was made from what m holds. *)
Newly(m) ==
  m.r = NoBlob \/ m.r.io \notin {"chain", "root"} \/ m.r.root.ver = m.r.ver

(* When a persist ends, nothing is staged. *)
LEMMA EndedNew ==
  ASSUME NEW m, Shaped(m.r)
  PROVE  Newly(Ended(m))
  <1>1. PICK r : r = m.r
    OBVIOUS
  <1>2. CASE r.st = "open"
    <2>1. PICK s : s = [r EXCEPT !.io = "idle", !.left = {}, !.root = ZeroPage,
                                 !.chain = ZeroPage, !.extent = ZeroPage]
      OBVIOUS
    <2>2. s.io = "idle"
      BY <1>1, <2>1 DEF Shaped
    <2>3. Ended(m).r = s
      BY <1>1, <1>2, <2>1, WithFacts DEF Ended
    <2> QED
      BY <2>2, <2>3 DEF Newly
  <1>3. CASE r.st # "open"
    BY <1>1, <1>3, WithFacts DEF Ended, Newly
  <1> QED
    BY <1>2, <1>3

(* blob_persist_generate_new_md stages the version in memory. *)
LEMMA GenerateNew ==
  ASSUME NEW m, Shaped(m.r)
  PROVE  Newly(blob_persist_generate_new_md(m))
  <1> DEFINE g == blob_persist_generate_new_md(m)
  <1>1. PICK r : r = m.r
    OBVIOUS
  <1>2. PICK free : free = MdPages \ m.u.md
    OBVIOUS
  <1>3. PICK p : p = Min(free)
    OBVIOUS
  <1>4. PICK body : body = blob_serialize(r)
    OBVIOUS
  <1>5. CASE ~r.big
    <2>1. PICK root : root = RootPage(r.id, r.ver, NoPage, body)
      OBVIOUS
    <2>2. PICK s : s = [r EXCEPT !.dirty = FALSE, !.pages = {}, !.io = "root", !.root = root]
      OBVIOUS
    <2>3. g.r = s
      BY <1>1, <1>2, <1>3, <1>4, <1>5, <2>1, <2>2, WithFacts DEF blob_persist_generate_new_md
    <2>4. s.root = root /\ s.ver = r.ver
      BY <1>1, <2>2 DEF Shaped
    <2> QED
      BY <2>1, <2>3, <2>4 DEF Newly, RootPage
  <1>6. CASE r.big /\ free = {}
    <2>1. PICK s : s = [r EXCEPT !.pend = FALSE]
      OBVIOUS
    <2>2. Shaped(s)
      BY <1>1, <2>1 DEF Shaped
    <2>3. g = Ended(With(m, s))
      BY <1>1, <1>2, <1>3, <1>4, <1>6, <2>1 DEF blob_persist_generate_new_md
    <2> QED
      BY <2>2, <2>3, EndedNew, WithFacts
  <1>7. CASE r.big /\ free # {}
    <2>1. PICK root, chain : root = RootPage(r.id, r.ver, p, NoBody) /\ chain = ChainPage(r.id, r.ver, body)
      OBVIOUS
    <2>2. PICK s : s = [r EXCEPT !.dirty = FALSE, !.pages = {p}, !.io = "chain",
                                 !.root = root, !.chain = chain]
      OBVIOUS
    <2>3. g.r = s
      BY <1>1, <1>2, <1>3, <1>4, <1>7, <2>1, <2>2 DEF blob_persist_generate_new_md
    <2>4. s.root = root /\ s.ver = r.ver
      BY <1>1, <2>2 DEF Shaped
    <2> QED
      BY <2>1, <2>3, <2>4 DEF Newly, RootPage
  <1> QED
    BY <1>5, <1>6, <1>7

(* blob_persist_write_extent_pages. *)
LEMMA WriteExtentsNew ==
  ASSUME NEW m, Shaped(m.r), NEW i
  PROVE  Newly(blob_persist_write_extent_pages(m, i))
  <1> DEFINE g == blob_persist_write_extent_pages(m, i)
  <1>1. PICK r : r = m.r
    OBVIOUS
  <1>2. CASE i <= Len(r.ep)
    <2>1. PICK x : x = blob_serialize_extent_page(r, i)
      OBVIOUS
    <2>2. PICK s : s = [r EXCEPT !.dirty = TRUE, !.io = "extent", !.left = {i}, !.extent = x]
      OBVIOUS
    <2>3. g.r = s
      BY <1>1, <1>2, <2>1, <2>2, WithFacts DEF blob_persist_write_extent_pages
    <2>4. s.io = "extent"
      BY <1>1, <2>2 DEF Shaped
    <2> QED
      BY <2>3, <2>4 DEF Newly
  <1>3. CASE ~(i <= Len(r.ep))
    BY <1>1, <1>3, GenerateNew DEF blob_persist_write_extent_pages
  <1> QED
    BY <1>2, <1>3

(* blob_persist_zero_pages. *)
LEMMA ZeroPagesNew ==
  ASSUME NEW m, Shaped(m.r)
  PROVE  LET g == blob_persist_zero_pages(m) IN
         Newly(g) /\ g.r.io = "zero" /\ g.r.st = m.r.st /\ Shaped(g.r)
  <1> DEFINE g == blob_persist_zero_pages(m)
  <1>1. PICK r : r = m.r
    OBVIOUS
  <1>2. PICK L : L = r.clean_pages \cup RootIfDeleted(r)
    OBVIOUS
  <1>3. PICK s : s = [r EXCEPT !.io = "zero", !.left = L]
    OBVIOUS
  <1>4. g.r = s
    BY <1>1, <1>2, <1>3, WithFacts DEF blob_persist_zero_pages
  <1>5. s.io = "zero" /\ s.st = r.st /\ Shaped(s)
    BY <1>1, <1>3 DEF Shaped
  <1> QED
    BY <1>1, <1>4, <1>5 DEF Newly

(* blob_persist_start. *)
LEMMA StartNew ==
  ASSUME NEW m, Shaped(m.r)
  PROVE  LET g == blob_persist_start(m) IN
         /\ Newly(g)
         /\ m.r.st = "deleting" => g.r.st = "deleting" /\ g.r.io = "zero"
  <1> DEFINE g == blob_persist_start(m)
  <1>1. PICK r : r = m.r
    OBVIOUS
  <1>2. CASE r.st = "deleting"
    <2>1. PICK s : s = [r EXCEPT !.dirty = FALSE]
      OBVIOUS
    <2>2. Shaped(s) /\ s.st = "deleting"
      BY <1>1, <1>2, <2>1 DEF Shaped
    <2>3. PICK h : h = With(m, s)
      OBVIOUS
    <2>4. h.r = s
      BY <2>3, WithFacts
    <2>5. g = blob_persist_zero_pages(h)
      BY <1>1, <1>2, <2>1, <2>3 DEF blob_persist_start
    <2> QED
      BY <1>1, <2>2, <2>4, <2>5, ZeroPagesNew
  <1>3. CASE r.st # "deleting"
    <2>1. g \in {blob_persist_write_extent_pages(m, Max({1, r.clean_nep})),
                 blob_persist_write_extent_pages(m, Max({1, r.nep})),
                 blob_persist_generate_new_md(m)}
      BY <1>1, <1>3 DEF blob_persist_start
    <2> QED
      BY <1>1, <1>3, <2>1, WriteExtentsNew, GenerateNew
  <1> QED
    BY <1>2, <1>3

(* blob_persist_complete. *)
LEMMA CompleteNew ==
  ASSUME NEW m, Shaped(m.r)
  PROVE  Newly(blob_persist_complete(m))
  <1>1. PICK r : r = blob_mark_clean(m.r)
    OBVIOUS
  <1>2. Shaped(r)
    BY <1>1 DEF Shaped, blob_mark_clean
  <1>3. PICK done : done = [r |-> r, u |-> m.u, a |-> IF r.st = "deleting" THEN m.a ELSE r.root.ver]
    OBVIOUS
  <1>4. done.r = r
    BY <1>3
  <1>5. PICK s : s = [r EXCEPT !.pend = FALSE, !.dirty = TRUE]
    OBVIOUS
  <1>6. Shaped(s)
    BY <1>2, <1>5 DEF Shaped
  <1>7. blob_persist_complete(m) = IF r.pend THEN blob_persist_start(With(done, s)) ELSE Ended(done)
    BY <1>1, <1>3, <1>5 DEF blob_persist_complete
  <1> QED
    BY <1>2, <1>4, <1>6, <1>7, WithFacts, StartNew, EndedNew

(* blob_persist_clear_extents and what it completes with. *)
LEMMA ClearExtentsNew ==
  ASSUME NEW m, Shaped(m.r)
  PROVE  Newly(blob_persist_clear_extents(m)) /\ Newly(blob_persist_clear_extents_cpl(m))
  <1>1. PICK r : r = m.r
    OBVIOUS
  <1>2. Newly(blob_persist_clear_extents(m))
    <2>1. PICK L : L = ItemsAfter(r.ep, r.nep)
      OBVIOUS
    <2>2. PICK s : s = [r EXCEPT !.io = "extents", !.left = L]
      OBVIOUS
    <2>3. s.io = "extents"
      BY <1>1, <2>2 DEF Shaped
    <2>4. blob_persist_clear_extents(m) = IF L = {} THEN blob_persist_complete(m) ELSE With(m, s)
      BY <1>1, <2>1, <2>2 DEF blob_persist_clear_extents
    <2>5. Newly(With(m, s))
      BY <2>3, WithFacts DEF Newly
    <2> QED
      BY <2>4, <2>5, CompleteNew
  <1>3. Newly(blob_persist_clear_extents_cpl(m))
    <2>1. PICK ep : ep = SubSeq(r.ep, 1, r.nep)
      OBVIOUS
    <2>2. PICK s : s = [r EXCEPT !.ep = ep]
      OBVIOUS
    <2>3. Shaped(s)
      BY <1>1, <2>2 DEF Shaped
    <2>4. PICK u : u = [m.u EXCEPT !.md = m.u.md \ ItemsAfter(r.ep, r.nep)]
      OBVIOUS
    <2>5. PICK h : h = [r |-> s, u |-> u, a |-> m.a]
      OBVIOUS
    <2>6. blob_persist_clear_extents_cpl(m) = blob_persist_complete(h) /\ h.r = s
      BY <1>1, <2>1, <2>2, <2>4, <2>5 DEF blob_persist_clear_extents_cpl
    <2> QED
      BY <2>3, <2>6, CompleteNew
  <1> QED
    BY <1>2, <1>3

(* blob_persist_clear_clusters and what it completes with. *)
LEMMA ClearClustersNew ==
  ASSUME NEW m, Shaped(m.r)
  PROVE  Newly(blob_persist_clear_clusters(m)) /\ Newly(blob_persist_clear_clusters_cpl(m))
  <1>1. PICK r : r = m.r
    OBVIOUS
  <1>2. Newly(blob_persist_clear_clusters_cpl(m))
    <2>1. PICK cl : cl = SubSeq(r.cl, 1, r.num)
      OBVIOUS
    <2>2. PICK s : s = [r EXCEPT !.cl = cl]
      OBVIOUS
    <2>3. Shaped(s)
      BY <1>1, <2>2 DEF Shaped
    <2>4. PICK u : u = [m.u EXCEPT !.clusters = m.u.clusters \ ItemsAfter(r.cl, r.num)]
      OBVIOUS
    <2>5. PICK h : h = [r |-> s, u |-> u, a |-> m.a]
      OBVIOUS
    <2>6. blob_persist_clear_clusters_cpl(m) = blob_persist_clear_extents(h) /\ h.r = s
      BY <1>1, <2>1, <2>2, <2>4, <2>5 DEF blob_persist_clear_clusters_cpl
    <2> QED
      BY <2>3, <2>6, ClearExtentsNew
  <1>3. Newly(blob_persist_clear_clusters(m))
    <2>1. PICK s : s = [r EXCEPT !.io = "clusters"]
      OBVIOUS
    <2>2. s.io = "clusters"
      BY <1>1, <2>1 DEF Shaped
    <2>3. \/ blob_persist_clear_clusters(m) = blob_persist_clear_clusters_cpl(m)
          \/ blob_persist_clear_clusters(m) = With(m, s)
      BY <1>1, <2>1 DEF blob_persist_clear_clusters
    <2>4. Newly(With(m, s))
      BY <2>2, WithFacts DEF Newly
    <2> QED
      BY <1>2, <2>3, <2>4
  <1> QED
    BY <1>2, <1>3

(* blob_persist_zero_pages_cpl. *)
LEMMA ZeroPagesCplNew ==
  ASSUME NEW m, Shaped(m.r)
  PROVE  Newly(blob_persist_zero_pages_cpl(m))
  <1>1. PICK u : u = [m.u EXCEPT !.md = m.u.md \ (m.r.clean_pages \cup RootIfDeleted(m.r))]
    OBVIOUS
  <1>2. PICK h : h = [r |-> m.r, u |-> u, a |-> IF m.r.st = "deleting" THEN Unknown ELSE m.a]
    OBVIOUS
  <1>3. blob_persist_zero_pages_cpl(m) = blob_persist_clear_clusters(h) /\ h.r = m.r
    BY <1>1, <1>2 DEF blob_persist_zero_pages_cpl
  <1> QED
    BY <1>3, ClearClustersNew

(* What follows the root's write. *)
LEMMA AfterRootNew ==
  ASSUME NEW m, Shaped(m.r)
  PROVE  Newly(AfterRoot(m))
  <1>1. PICK z : z = blob_persist_zero_pages(m)
    OBVIOUS
  <1>2. AfterRoot(m) = IF z.r.left = {} THEN blob_persist_zero_pages_cpl(z) ELSE z
    BY <1>1 DEF AfterRoot
  <1>3. Newly(z) /\ Shaped(z.r)
    BY <1>1, ZeroPagesNew
  <1> QED
    BY <1>2, <1>3, ZeroPagesCplNew

(* blob_persist, when no persist is under way. *)
LEMMA PersistNew ==
  ASSUME NEW m, Shaped(m.r), m.r.io = "idle"
  PROVE  LET g == blob_persist(m) IN
         /\ Newly(g)
         /\ m.r.st = "deleting" /\ m.r.dirty => g.r.st = "deleting" /\ g.r.io \in {"super", "zero"}
  <1> DEFINE g == blob_persist(m)
  <1>1. PICK r : r = m.r
    OBVIOUS
  <1>2. PICK s : s = [r EXCEPT !.io = "super"]
    OBVIOUS
  <1>3. s.io = "super" /\ s.st = r.st
    BY <1>1, <1>2 DEF Shaped
  <1>4. PICK h : h = With(m, s)
    OBVIOUS
  <1>5. h.r = s
    BY <1>4, WithFacts
  <1>6. \/ r.dirty /\ g = h
        \/ r.dirty /\ g = blob_persist_start(m)
        \/ ~r.dirty /\ g = Ended(m)
    BY <1>1, <1>2, <1>4 DEF blob_persist, bs_mark_dirty
  <1>7. Newly(h)
    BY <1>3, <1>5 DEF Newly
  <1>8. Newly(g)
    BY <1>6, <1>7, StartNew, EndedNew
  <1>9. ASSUME r.st = "deleting", r.dirty PROVE g.r.st = "deleting" /\ g.r.io \in {"super", "zero"}
    BY <1>1, <1>3, <1>5, <1>6, <1>9, StartNew
  <1> QED
    BY <1>1, <1>8, <1>9

(* Zeroed, for the two batches that zero pages. *)
LEMMA ZeroedNew ==
  ASSUME NEW m, Shaped(m.r), m.r.io \notin {"chain", "root"}, NEW p
  PROVE  /\ Newly(Zeroed(m, p, blob_persist_zero_pages_cpl))
         /\ Newly(Zeroed(m, p, blob_persist_clear_extents_cpl))
  <1>1. PICK L : L = m.r.left \ {p}
    OBVIOUS
  <1>2. PICK r : r = m.r
    OBVIOUS
  <1>3. PICK s : s = [r EXCEPT !.left = L]
    OBVIOUS
  <1>4. PICK h : h = With(m, s)
    OBVIOUS
  <1>5. h.r = s
    BY <1>4, WithFacts
  <1>6. s.io = r.io /\ Shaped(s)
    BY <1>2, <1>3 DEF Shaped
  <1>7. Newly(h)
    BY <1>2, <1>5, <1>6 DEF Newly
  <1>8. /\ Zeroed(m, p, blob_persist_zero_pages_cpl) =
             IF h.r.left = {} THEN blob_persist_zero_pages_cpl(h) ELSE h
        /\ Zeroed(m, p, blob_persist_clear_extents_cpl) =
             IF h.r.left = {} THEN blob_persist_clear_extents_cpl(h) ELSE h
    BY <1>1, <1>2, <1>3, <1>4 DEF Zeroed
  <1> QED
    BY <1>5, <1>6, <1>7, <1>8, ZeroPagesCplNew, ClearExtentsNew
-----------------------------------------------------------------------------
(* The three contents of a blob, for any record and any pages. *)
MemOf(r) ==
  IF r = NoBlob THEN None
  ELSE IF r.st = "deleting" THEN Gone
  ELSE Content(r.ver, blob_serialize(r))
StagedOf(r) ==
  IF r # NoBlob /\ r.io \in {"chain", "root"}
  THEN Content(r.root.ver, IF r.root.next = NoPage THEN r.root.body ELSE r.chain.body)
  ELSE None
DurOf(d, b) == IF LoadsAt(d, b) THEN Content(d[b].ver, BodyAt(d, b)) ELSE None

(* They are what the refinement maps a blob to, before and after a step. *)
LEMMA ContentsAre ==
  ASSUME NEW b \in MdPages
  PROVE  /\ InMemoryContent(b) = MemOf(blob[b]) /\ InMemoryContent(b)' = MemOf(blob'[b])
         /\ StagedContent(b) = StagedOf(blob[b]) /\ StagedContent(b)' = StagedOf(blob'[b])
         /\ DurableContent(b) = DurOf(disk, b) /\ DurableContent(b)' = DurOf(disk', b)
  <1>1. InMemoryContent(b) = MemOf(blob[b]) /\ InMemoryContent(b)' = MemOf(blob'[b])
    BY DEF InMemoryContent, MemOf, InMemory
  <1>2. StagedContent(b) = StagedOf(blob[b]) /\ StagedContent(b)' = StagedOf(blob'[b])
    BY DEF StagedContent, StagedOf, InMemory
  <1>3. DurableContent(b) = DurOf(disk, b)
    BY DEF DurableContent, DurOf, Loads, LoadsAt, Roots, RootAt, LastPage, LastAt, BodyAt
  <1>4. DurableContent(b)' = DurOf(disk', b)
    BY DEF DurableContent, DurOf, Loads, LoadsAt, Roots, RootAt, LastPage, LastAt, BodyAt
  <1> QED
    BY <1>1, <1>2, <1>3, <1>4

(* What a step of DurableBlobs may do to blob b, whose record was r and becomes *)
(* s while the pages d become e.                                                *)
Moves(b, r, s, d, e) ==
  /\ MemOf(r) # None \/ MemOf(s) \in {None, Gone, DurOf(d, b)} \/ DurOf(d, b) = None
  /\ StagedOf(s) \in {StagedOf(r), None, MemOf(r), MemOf(s)}
  /\ \/ DurOf(e, b) = DurOf(d, b)
     \/ StagedOf(r) # None /\ DurOf(e, b) = StagedOf(r)
     \/ MemOf(r) = Gone /\ DurOf(e, b) = None

(* A step that does that to b, and leaves the others alone, is one of theirs. *)
LEMMA StepOf ==
  ASSUME NEW b \in MdPages, Moves(b, blob[b], blob'[b], disk, disk'),
         \A c \in MdPages \ {b} : blob'[c] = blob[c] /\ DurOf(disk', c) = DurOf(disk, c)
  PROVE  Durable!Next
  <1>1. /\ InMemoryContent(b) # None \/ InMemoryContent(b)' \in {None, Gone, DurableContent(b)}
                                     \/ DurableContent(b) = None
        /\ StagedContent(b)' \in {StagedContent(b), None, InMemoryContent(b), InMemoryContent(b)'}
        /\ \/ DurableContent(b)' = DurableContent(b)
           \/ StagedContent(b) # None /\ DurableContent(b)' = StagedContent(b)
           \/ InMemoryContent(b) = Gone /\ DurableContent(b)' = None
    BY ContentsAre DEF Moves
  <1>2. \A c \in MdPages \ {b} : /\ InMemoryContent(c)' = InMemoryContent(c)
                                 /\ StagedContent(c)' = StagedContent(c)
                                 /\ DurableContent(c)' = DurableContent(c)
    BY ContentsAre
  <1>3. Durable!Step(b)
    BY <1>1, <1>2 DEF Durable!Step, Durable!Remember, Durable!Stage, Durable!Commit
  <1> QED
    BY <1>3 DEF Durable!Next

(* A step that changes no record and no content on disk stutters. *)
LEMMA StutterOf ==
  ASSUME blob' = blob, \A c \in MdPages : DurOf(disk', c) = DurOf(disk, c)
  PROVE  UNCHANGED Durable!vars
  <1>1. \A c \in MdPages : /\ InMemoryContent(c)' = InMemoryContent(c)
                           /\ StagedContent(c)' = StagedContent(c)
                           /\ DurableContent(c)' = DurableContent(c)
    BY ContentsAre
  <1> QED
    BY <1>1 DEF Durable!vars

(* A blob that is in memory has a content there, and what is staged is that, *)
(* perhaps of an earlier version.                                            *)
LEMMA StagesOf ==
  ASSUME NEW d, NEW b \in MdPages, NEW r, Mem(d, b, r)
  PROVE  /\ r # NoBlob /\ Shaped(r) /\ MemOf(r) # None
         /\ r.st = "deleting" => MemOf(r) = Gone
         /\ r.io \in {"chain", "root"} =>
              /\ r.st # "deleting" /\ StagedOf(r) # None
              /\ StagedOf(r) = Content(r.root.ver, blob_serialize(r))
  <1>1. r \in BlobRec
    BY MemShape DEF Base
  <1>2. r # NoBlob
    BY <1>1 DEF BlobRec, NoBlob, Alive
  <1>3. Shaped(r)
    BY <1>1 DEF Shaped, BlobRec
  <1>4. MemOf(r) # None
    <2>1. r.ver \in Nat
      BY <1>1 DEF BlobRec
    <2>2. PICK body : body = blob_serialize(r)
      OBVIOUS
    <2>3. MemOf(r) \in {Content(Doomed, NoBody), Content(r.ver, body)}
      BY <1>2, <2>2 DEF MemOf, Gone
    <2> QED
      BY <2>1, <2>3 DEF None, Content, Unknown, Doomed
  <1>5. ASSUME r.io \in {"chain", "root"}
        PROVE  /\ r.st # "deleting" /\ StagedOf(r) # None
               /\ StagedOf(r) = Content(r.root.ver, blob_serialize(r))
    <2>1. MemStaged(d, b, r)
      BY <1>5 DEF Mem
    <2>2. r.st # "deleting" /\ Staged(d, b, r)
      BY <2>1 DEF MemStaged, Alive
    <2>3. PICK body, v : body = blob_serialize(r) /\ v = r.root.ver
      OBVIOUS
    <2>4. \/ r.root = RootPage(b, v, NoPage, body)
          \/ \E p \in MdPages : r.root = RootPage(b, v, p, NoBody) /\ r.chain = ChainPage(b, v, body)
      BY <2>2, <2>3 DEF Staged
    <2>5. v \in Nat
      <3>1. r.root \in Page /\ r.root.kind = "root"
        BY <1>1, <2>4 DEF BlobRec, RootPage
      <3> QED
        BY <2>3, <3>1 DEF Page, ZeroPage
    <2>6. StagedOf(r) = Content(v, body)
      <3>1. NoPage \notin MdPages
        BY SizesAssumption
      <3>2. (IF r.root.next = NoPage THEN r.root.body ELSE r.chain.body) = body
        <4>1. CASE r.root = RootPage(b, v, NoPage, body)
          BY <4>1 DEF RootPage
        <4>2. CASE \E p \in MdPages : r.root = RootPage(b, v, p, NoBody) /\ r.chain = ChainPage(b, v, body)
          <5>1. PICK p \in MdPages : r.root = RootPage(b, v, p, NoBody) /\ r.chain = ChainPage(b, v, body)
            BY <4>2
          <5>2. r.root.next = p /\ r.chain.body = body /\ p # NoPage
            BY <3>1, <5>1 DEF RootPage, ChainPage
          <5> QED
            BY <5>2
        <4> QED
          BY <2>4, <4>1, <4>2
      <3> QED
        BY <1>2, <1>5, <2>3, <3>2 DEF StagedOf
    <2>7. StagedOf(r) # None
      BY <2>5, <2>6 DEF None, Content, Unknown
    <2> QED
      BY <2>2, <2>3, <2>6, <2>7
  <1>6. r.st = "deleting" => MemOf(r) = Gone
    BY <1>2 DEF MemOf
  <1> QED
    BY <1>2, <1>3, <1>4, <1>5, <1>6

(* What is newly staged is what is in memory. *)
LEMMA NewlyStaged ==
  ASSUME NEW e, NEW b \in MdPages, NEW m, Newly(m), m.r = NoBlob \/ Mem(e, b, m.r)
  PROVE  StagedOf(m.r) \in {None, MemOf(m.r)}
  <1>1. CASE m.r = NoBlob \/ m.r.io \notin {"chain", "root"}
    BY <1>1 DEF StagedOf
  <1>2. CASE m.r # NoBlob /\ m.r.io \in {"chain", "root"}
    <2>1. m.r.root.ver = m.r.ver
      BY <1>2 DEF Newly
    <2>2. StagedOf(m.r) = Content(m.r.root.ver, blob_serialize(m.r)) /\ m.r.st # "deleting"
      BY <1>2, StagesOf
    <2> QED
      BY <1>2, <2>1, <2>2 DEF MemOf
  <1> QED
    BY <1>1, <1>2

(* A step of a blob that is in memory. *)
LEMMA MemoryMoves ==
  ASSUME IndInv, IndInv', NEW b \in MdPages, InMemory(b), NEW m, SetMemory(b, m),
         Newly(m) \/ StagedOf(m.r) = StagedOf(blob[b]),
         \/ DurOf(disk', b) = DurOf(disk, b)
         \/ StagedOf(blob[b]) # None /\ DurOf(disk', b) = StagedOf(blob[b])
         \/ blob[b].st = "deleting" /\ DurOf(disk', b) = None,
         \A c \in MdPages \ {b} : DurOf(disk', c) = DurOf(disk, c)
  PROVE  Durable!Next
  <1>1. PICK x : x = IF Detached(m.r) THEN NoBlob ELSE m.r
    OBVIOUS
  <1>2. DOMAIN blob = MdPages /\ Mem(disk, b, blob[b])
    BY DEF IndInv, Types, Blobs
  <1>3. blob'[b] = x /\ \A c \in MdPages \ {b} : blob'[c] = blob[c]
    BY <1>1, <1>2 DEF SetMemory
  <1>4. x = NoBlob \/ Mem(disk', b, x)
    BY <1>3 DEF IndInv, Blobs, InMemory
  <1>5. MemOf(blob[b]) # None /\ (blob[b].st = "deleting" => MemOf(blob[b]) = Gone)
    BY <1>2, StagesOf
  <1>6. StagedOf(x) \in {StagedOf(blob[b]), None, MemOf(x)}
    <2>1. CASE x = NoBlob
      BY <2>1 DEF StagedOf
    <2>2. CASE x # NoBlob
      BY <1>1, <1>4, <2>2, NewlyStaged
    <2> QED
      BY <2>1, <2>2
  <1>7. Moves(b, blob[b], blob'[b], disk, disk')
    BY <1>3, <1>5, <1>6 DEF Moves
  <1> QED
    BY <1>3, <1>7, StepOf

(* A write to a page that c does not have leaves its content on disk. *)
LEMMA DurElsewhere ==
  ASSUME IndInv, NEW c \in MdPages, NEW e \in [MdPages -> Page], NEW p \in MdPages,
         \A q \in MdPages : q # p => e[q] = disk[q],
         p \notin Pg(c), e[p].kind = "root" => p # c, e[p].kind = "chain" => e[p].id # c
  PROVE  DurOf(e, c) = DurOf(disk, c)
  <1>1. disk \in [MdPages -> Page] /\ (InMemory(c) => Mem(disk, c, blob[c]))
    BY DEF IndInv, Types, Blobs
  <1>2. p \notin DiskPg(disk, c)
    BY <1>1, MemDisk DEF Pg
  <1>3. /\ LoadsAt(e, c) <=> LoadsAt(disk, c)
        /\ RootAt(disk, c) => e[c] = disk[c]
        /\ LoadsAt(disk, c) => BodyAt(e, c) = BodyAt(disk, c)
    BY <1>1, <1>2, Elsewhere
  <1> QED
    BY <1>3 DEF DurOf, LoadsAt

(* A page of b is written: the other blobs keep what they have on disk. *)
LEMMA WriteApart ==
  ASSUME IndInv, NEW b \in MdPages, NEW p \in Pg(b), p \in MdPages, NEW page \in Page,
         Write(p, page), page.kind = "root" => p = b, page.kind = "chain" => page.id = b
  PROVE  /\ disk' \in [MdPages -> Page] /\ disk'[p] = page
         /\ \A q \in MdPages : q # p => disk'[q] = disk[q]
         /\ \A c \in MdPages \ {b} : DurOf(disk', c) = DurOf(disk, c)
  <1>1. disk \in [MdPages -> Page]
    BY DEF IndInv, Types
  <1>2. /\ disk' \in [MdPages -> Page] /\ disk'[p] = page
        /\ \A q \in MdPages : q # p => disk'[q] = disk[q]
    BY <1>1 DEF Write
  <1>3. ASSUME NEW c \in MdPages \ {b} PROVE DurOf(disk', c) = DurOf(disk, c)
    <2>1. p \notin Pg(c)
      BY DEF IndInv, Apart
    <2> QED
      BY <1>2, <2>1, DurElsewhere
  <1> QED
    BY <1>2, <1>3
-----------------------------------------------------------------------------
(* The calls. *)

(* blob_resize leaves the persist of a blob alone. *)
LEMMA ResizeNew ==
  ASSUME NEW m, Shaped(m.r), NEW sz
  PROVE  LET g == blob_resize(m, sz) IN
         Shaped(g.r) /\ g.r.io = m.r.io /\ g.r.st = m.r.st /\ g.r.dirty
  <1>1. PICK r : r = m.r
    OBVIOUS
  <1>2. PICK cl, ep, k : /\ cl = FirstFree(FreeClusters(m.u), MissingCl(r, sz))
                         /\ ep = FirstFree(FreeExtentPages(m.u), MissingEp(r, sz))
                         /\ k = IF r.et THEN ExtentPages(sz) ELSE 0
    OBVIOUS
  <1>3. PICK lcl, lep : lcl = r.cl \o cl /\ lep = r.ep \o ep
    OBVIOUS
  <1>4. PICK s : s = [r EXCEPT !.num = sz, !.nep = k, !.cl = lcl, !.ep = lep, !.dirty = TRUE]
    OBVIOUS
  <1>5. blob_resize(m, sz).r = s
    BY <1>1, <1>2, <1>3, <1>4 DEF blob_resize
  <1>6. Shaped(s) /\ s.io = r.io /\ s.st = r.st /\ s.dirty
    BY <1>1, <1>4 DEF Shaped
  <1> QED
    BY <1>1, <1>5, <1>6

(* A blob that is loaded is clean. *)
LEMMA LoadIsClean ==
  ASSUME NEW b
  PROVE  blob_load(b).num = blob_load(b).clean_num /\ blob_load(b).nep = blob_load(b).clean_nep
  <1>1. PICK body : body = LastPage(b).body
    OBVIOUS
  <1>2. PICK cl : cl = IF body.et THEN ListedClusters(body.ep) ELSE body.cl
    OBVIOUS
  <1>3. PICK pages, big : pages = {disk[b].next} \ {NoPage} /\ big = (pages # {})
    OBVIOUS
  <1>4. PICK n, ne, v : n = Len(cl) /\ ne = Len(body.ep) /\ v = disk[b].ver
    OBVIOUS
  <1>5. PICK a : a = blob_alloc(b, body.et)
    OBVIOUS
  <1>6. PICK ep : ep = body.ep
    OBVIOUS
  <1>7. blob_load(b) = [a EXCEPT !.st = "open", !.dirty = FALSE, !.big = big, !.ver = v,
                                 !.num = n, !.cl = cl, !.nep = ne, !.ep = ep, !.pages = pages,
                                 !.clean_num = n, !.clean_nep = ne, !.clean_pages = pages]
    BY <1>1, <1>2, <1>3, <1>4, <1>5, <1>6 DEF blob_load
  <1>8. {"num", "nep", "clean_num", "clean_nep"} \subseteq DOMAIN a
    BY <1>5 DEF blob_alloc
  <1> QED
    BY <1>7, <1>8

(* A blob comes into memory. *)
LEMMA NewMoves ==
  ASSUME IndInv, IndInv', NEW b \in MdPages, ~InMemory(b), NEW m, SetMemory(b, m), Newly(m),
         disk' = disk, DurOf(disk, b) = None \/ MemOf(m.r) \in {Gone, DurOf(disk, b)}
  PROVE  Durable!Next
  <1>1. PICK x : x = IF Detached(m.r) THEN NoBlob ELSE m.r
    OBVIOUS
  <1>2. DOMAIN blob = MdPages
    BY DEF IndInv, Types
  <1>3. blob'[b] = x /\ \A c \in MdPages \ {b} : blob'[c] = blob[c]
    BY <1>1, <1>2 DEF SetMemory
  <1>4. x = NoBlob \/ (x = m.r /\ Mem(disk', b, m.r))
    BY <1>1, <1>3 DEF IndInv, Blobs, InMemory
  <1>5. StagedOf(x) \in {None, MemOf(x)} /\ (x = NoBlob => MemOf(x) = None)
    BY <1>4, NewlyStaged DEF StagedOf, MemOf
  <1>6. Moves(b, blob[b], blob'[b], disk, disk')
    BY <1>3, <1>4, <1>5 DEF Moves
  <1>7. \A c \in MdPages : DurOf(disk', c) = DurOf(disk, c)
    OBVIOUS
  <1> QED
    BY <1>3, <1>6, <1>7, StepOf

(* spdk_bs_create_blob: the number of the blob has no root. *)
LEMMA CreateMoves ==
  ASSUME IndInv, IndInv', NEW opts \in Opts, bs_create_blob(opts)
  PROVE  Durable!Next
  <1>1. PICK b : b = Min(MdPages \ used.md)
    OBVIOUS
  <1>2. PICK u : u = [used EXCEPT !.md = @ \cup {b}, !.ids = @ \cup {b}]
    OBVIOUS
  <1>3. PICK r : r = [blob_alloc(b, opts.et) EXCEPT !.big = opts.big]
    OBVIOUS
  <1>4. PICK m : m = [r |-> r, u |-> u, a |-> Unknown]
    OBVIOUS
  <1>5. /\ bs = "loaded" /\ MdPages \ used.md # {}
        /\ SetMemory(b, blob_persist(blob_resize(m, opts.sz))) /\ Others
    BY <1>1, <1>2, <1>3, <1>4 DEF bs_create_blob, Loaded
  <1>6. b \in MdPages /\ b \notin used.md
    <2>1. MdPages \ used.md \in SUBSET Nat
      BY SizesAssumption DEF MdPages
    <2> QED
      BY <1>1, <1>5, <2>1, MinIsIn
  <1>7. b \notin Pg(b) /\ disk \in [MdPages -> Page]
    BY <1>5, <1>6 DEF IndInv, Claimed, Running, Types
  <1>8. ~InMemory(b)
    <2> SUFFICES ASSUME InMemory(b) PROVE FALSE
      OBVIOUS
    <2>1. Mem(disk, b, blob[b])
      BY <1>6 DEF IndInv, Blobs
    <2>2. b \in MP(blob[b])
      BY <1>6, <1>7, <2>1, MemDisk
    <2> QED
      BY <1>7, <2>2 DEF Pg
  <1>9. DurOf(disk, b) = None
    BY <1>7, <1>8 DEF Pg, DiskPg, PagesAt, DurOf
  <1>10. Shaped(r) /\ r.io = "idle" /\ r.st = "creating"
    <2>1. PICK a : a = blob_alloc(b, opts.et)
      OBVIOUS
    <2>2. Shaped(a) /\ a.io = "idle" /\ a.st = "creating"
      BY <2>1 DEF blob_alloc, Shaped
    <2> QED
      BY <1>3, <2>1, <2>2 DEF Shaped
  <1>11. m.r = r
    BY <1>4
  <1>12. PICK g : g = blob_resize(m, opts.sz)
    OBVIOUS
  <1>13. Shaped(g.r) /\ g.r.io = "idle" /\ g.r.st = "creating" /\ g.r.dirty
    BY <1>10, <1>11, <1>12, ResizeNew
  <1>14. PICK h : h = blob_persist(g)
    OBVIOUS
  <1>15. Newly(h) /\ SetMemory(b, h)
    BY <1>5, <1>12, <1>13, <1>14, PersistNew
  <1>16. disk' = disk
    BY <1>5 DEF Others
  <1> QED
    BY <1>6, <1>8, <1>9, <1>15, <1>16, NewMoves

(* spdk_bs_open_blob: what is read is what is durable. *)
LEMMA OpenMoves ==
  ASSUME IndInv, IndInv', NEW b \in MdPages, bs_open_blob(b)
  PROVE  Durable!Next
  <1>1. MayOpen(b) /\ SetMemory(b, With(Memory(b), blob_load(b))) /\ Others
    BY DEF bs_open_blob
  <1>2. ~InMemory(b) /\ LoadsAt(disk, b)
    BY <1>1, MayOpenNow
  <1>3. PICK r : /\ r = blob_load(b) /\ Idle(disk, b, r) /\ r.io = "idle" /\ r.st = "open"
                 /\ r.ver = disk[b].ver
    BY <1>1, MayOpenNow
  <1>4. PICK m : m = With(Memory(b), r)
    OBVIOUS
  <1>5. m.r = r /\ SetMemory(b, m)
    BY <1>1, <1>3, <1>4, WithFacts
  <1>6. r.num = r.clean_num /\ r.nep = r.clean_nep
    BY <1>3, LoadIsClean
  <1>7. BodyAt(disk, b) = Serial(r, r.clean_num, r.clean_nep) /\ r \in BlobRec
    BY <1>2, <1>3 DEF Idle, Unwritten, OnDisk, Base
  <1>8. blob_serialize(r) = BodyAt(disk, b)
    BY <1>6, <1>7 DEF blob_serialize, Serial
  <1>9. r # NoBlob
    BY <1>3 DEF NoBlob
  <1>10. MemOf(r) = DurOf(disk, b)
    BY <1>2, <1>3, <1>8, <1>9 DEF MemOf, DurOf
  <1>11. Newly(m) /\ disk' = disk
    BY <1>1, <1>3, <1>5 DEF Newly, Others
  <1> QED
    BY <1>2, <1>5, <1>10, <1>11, NewMoves

(* spdk_bs_delete_blob: in memory the blob is gone. *)
LEMMA DeleteMoves ==
  ASSUME IndInv, IndInv', NEW b \in MdPages, bs_delete_blob_finish(b)
  PROVE  Durable!Next
  <1>1. MayOpen(b) /\ Others
    BY DEF bs_delete_blob_finish
  <1>2. ~InMemory(b)
    BY <1>1, MayOpenNow
  <1>3. PICK r : r = blob_load(b) /\ Idle(disk, b, r) /\ r.io = "idle"
    BY <1>1, MayOpenNow
  <1>4. PICK s : s = [r EXCEPT !.st = "deleting", !.dirty = TRUE, !.pages = {}]
    OBVIOUS
  <1>5. PICK m : m = [r |-> s, u |-> [used EXCEPT !.ids = used.ids \ {b}], a |-> Doomed]
    OBVIOUS
  <1>6. m.r = s
    BY <1>5
  <1>7. SetMemory(b, blob_persist(blob_resize(m, 0)))
    BY <1>3, <1>4, <1>5 DEF bs_delete_blob_finish
  <1>8. r \in BlobRec
    BY <1>3 DEF Idle, Unwritten, Base
  <1>9. Shaped(s) /\ s.io = "idle" /\ s.st = "deleting"
    BY <1>3, <1>4, <1>8 DEF Shaped, BlobRec
  <1>10. PICK g : g = blob_resize(m, 0)
    OBVIOUS
  <1>11. Shaped(g.r) /\ g.r.io = "idle" /\ g.r.st = "deleting" /\ g.r.dirty
    BY <1>6, <1>9, <1>10, ResizeNew
  <1>12. PICK h : h = blob_persist(g)
    OBVIOUS
  <1>13. Newly(h) /\ h.r.st = "deleting" /\ h.r.io \in {"super", "zero"} /\ SetMemory(b, h)
    BY <1>7, <1>10, <1>11, <1>12, PersistNew
  <1>14. h.r # NoBlob
    BY <1>13 DEF NoBlob
  <1>15. MemOf(h.r) = Gone
    BY <1>13, <1>14 DEF MemOf
  <1>16. disk' = disk
    BY <1>1 DEF Others
  <1> QED
    BY <1>2, <1>13, <1>14, <1>15, <1>16, NewMoves

(* A step of a blob in memory that writes nothing. *)
LEMMA CallMoves ==
  ASSUME IndInv, IndInv', NEW b \in MdPages, InMemory(b), NEW m, SetMemory(b, m), disk' = disk,
         Newly(m) \/ StagedOf(m.r) = StagedOf(blob[b])
  PROVE  Durable!Next
  <1>1. \A c \in MdPages : DurOf(disk', c) = DurOf(disk, c)
    OBVIOUS
  <1> QED
    BY <1>1, MemoryMoves

(* What is staged does not depend on the rest of the record. *)
LEMMA StagedSame ==
  ASSUME NEW r, r # NoBlob, NEW s, s # NoBlob, s.root = r.root, s.chain = r.chain,
         s.io \in {"chain", "root"} <=> r.io \in {"chain", "root"}
  PROVE  StagedOf(s) = StagedOf(r)
  BY DEF StagedOf

(* spdk_blob_set_xattr. *)
LEMMA SetXattrMoves ==
  ASSUME IndInv, IndInv', NEW b \in MdPages, NEW big \in BOOLEAN, blob_set_xattr(b, big)
  PROVE  Durable!Next
  <1>1. PICK r, v : r = blob[b] /\ v = r.ver + 1
    OBVIOUS
  <1>2. PICK s : s = [r EXCEPT !.big = big, !.dirty = TRUE, !.ver = v]
    OBVIOUS
  <1>3. PICK m : m = With(Memory(b), s)
    OBVIOUS
  <1>4. InMemory(b) /\ SetMemory(b, m) /\ disk' = disk
    BY <1>1, <1>2, <1>3 DEF blob_set_xattr, IsOpen, Others
  <1>5. m.r = s /\ r \in BlobRec
    BY <1>1, <1>3, <1>4, WithFacts, OpenNow
  <1>6. s.root = r.root /\ s.chain = r.chain /\ s.io = r.io /\ s.st = r.st
    BY <1>2, <1>5 DEF BlobRec
  <1>7. r # NoBlob /\ s # NoBlob
    BY <1>1, <1>4, <1>5, <1>6, SMTT(30) DEF InMemory, NoBlob, BlobRec, Alive
  <1>8. StagedOf(m.r) = StagedOf(blob[b])
    BY <1>1, <1>5, <1>6, <1>7, StagedSame
  <1> QED
    BY <1>4, <1>8, CallMoves

(* spdk_blob_resize. *)
LEMMA ResizeMoves ==
  ASSUME IndInv, IndInv', NEW b \in MdPages, NEW sz, spdk_blob_resize(b, sz)
  PROVE  Durable!Next
  <1>1. PICK r, v : r = blob[b] /\ v = r.ver + 1
    OBVIOUS
  <1>2. PICK s : s = [r EXCEPT !.ver = v]
    OBVIOUS
  <1>3. PICK m : m = With(Memory(b), s)
    OBVIOUS
  <1>4. PICK g : g = blob_resize(m, sz)
    OBVIOUS
  <1>5. InMemory(b) /\ SetMemory(b, g) /\ r.io = "idle" /\ disk' = disk
    BY <1>1, <1>2, <1>3, <1>4 DEF spdk_blob_resize, IsOpen, Others
  <1>6. m.r = s /\ r \in BlobRec
    BY <1>1, <1>3, <1>5, WithFacts, OpenNow
  <1>7. Shaped(s) /\ s.io = "idle"
    BY <1>2, <1>5, <1>6 DEF BlobRec, Shaped
  <1>8. g.r.io = "idle"
    BY <1>4, <1>6, <1>7, ResizeNew
  <1>9. Newly(g)
    BY <1>8 DEF Newly
  <1> QED
    BY <1>5, <1>9, CallMoves

(* spdk_blob_sync_md and spdk_blob_close, of the record s. *)
LEMMA SyncMoves ==
  ASSUME IndInv, IndInv', NEW b \in MdPages, InMemory(b), NEW m, SetMemory(b, blob_persist(m)),
         m.r \in BlobRec, m.r.io = blob[b].io, m.r.root = blob[b].root, m.r.chain = blob[b].chain,
         disk' = disk
  PROVE  Durable!Next
  <1>1. PICK r, s : r = blob[b] /\ s = m.r
    OBVIOUS
  <1>2. Shaped(s)
    BY <1>1 DEF Shaped, BlobRec
  <1>3. PICK g : g = blob_persist(m)
    OBVIOUS
  <1>4. CASE s.io = "idle"
    <2>1. Newly(g)
      BY <1>1, <1>2, <1>3, <1>4, PersistNew
    <2> QED
      BY <1>3, <2>1, CallMoves
  <1>5. CASE s.io # "idle"
    <2>1. PICK t : t = [s EXCEPT !.pend = TRUE]
      OBVIOUS
    <2>2. g.r = t
      BY <1>1, <1>3, <1>5, <2>1, WithFacts DEF blob_persist
    <2>3. t.io = s.io /\ t.root = s.root /\ t.chain = s.chain /\ t.st = s.st
      BY <1>1, <2>1 DEF BlobRec
    <2>4. t # NoBlob /\ r # NoBlob
      BY <1>1, <2>3 DEF NoBlob, BlobRec, Alive, InMemory
    <2>5. StagedOf(t) = StagedOf(r)
      BY <1>1, <2>3, <2>4, StagedSame
    <2> QED
      BY <1>1, <1>3, <2>2, <2>5, CallMoves
  <1> QED
    BY <1>4, <1>5

(* spdk_blob_sync_md and spdk_blob_close. *)
LEMMA SyncOrCloseMoves ==
  ASSUME IndInv, IndInv', NEW b \in MdPages, spdk_blob_sync_md(b) \/ spdk_blob_close(b)
  PROVE  Durable!Next
  <1>1. PICK r : r = blob[b]
    OBVIOUS
  <1>2. InMemory(b) /\ disk' = disk
    BY DEF spdk_blob_sync_md, spdk_blob_close, IsOpen, Others
  <1>3. r \in BlobRec
    BY <1>1, <1>2, OpenNow
  <1>4. CASE spdk_blob_sync_md(b)
    <2>1. PICK m : m = Memory(b)
      OBVIOUS
    <2>2. SetMemory(b, blob_persist(m)) /\ m.r = r
      BY <1>1, <1>4, <2>1 DEF spdk_blob_sync_md, Memory
    <2> QED
      BY <1>1, <1>2, <1>3, <2>2, SyncMoves
  <1>5. CASE spdk_blob_close(b)
    <2>1. PICK s : s = [r EXCEPT !.st = "closing"]
      OBVIOUS
    <2>2. PICK m : m = With(Memory(b), s)
      OBVIOUS
    <2>3. SetMemory(b, blob_persist(m)) /\ m.r = s
      BY <1>1, <1>5, <2>1, <2>2, WithFacts DEF spdk_blob_close
    <2>4. s \in BlobRec
      BY <1>3, <2>1 DEF BlobRec, Alive
    <2>5. s.io = r.io /\ s.root = r.root /\ s.chain = r.chain
      BY <1>3, <2>1 DEF BlobRec
    <2> QED
      BY <1>1, <1>2, <2>3, <2>4, <2>5, SyncMoves
  <1> QED
    BY <1>4, <1>5

-----------------------------------------------------------------------------
(* The completions of I/O. *)

(* The super block is written, or clusters are cleared. *)
LEMMA NoWriteMoves ==
  ASSUME IndInv, IndInv', NEW b \in MdPages, bs_mark_dirty_write_cpl(b) \/ ClustersCleared(b)
  PROVE  Durable!Next
  <1>1. PICK m : m = Memory(b)
    OBVIOUS
  <1>2. InMemory(b) /\ disk' = disk
    BY DEF bs_mark_dirty_write_cpl, ClustersCleared, InIo
  <1>3. m.r = blob[b] /\ Shaped(m.r)
    <2>1. Mem(disk, b, blob[b])
      BY <1>2, OpenNow
    <2> QED
      BY <1>1, <2>1, StagesOf DEF Memory
  <1>4. CASE bs_mark_dirty_write_cpl(b)
    <2>1. SetMemory(b, blob_persist_start(m))
      BY <1>1, <1>4 DEF bs_mark_dirty_write_cpl
    <2>2. Newly(blob_persist_start(m))
      BY <1>3, StartNew
    <2> QED
      BY <1>2, <2>1, <2>2, CallMoves
  <1>5. CASE ClustersCleared(b)
    <2>1. SetMemory(b, blob_persist_clear_clusters_cpl(m))
      BY <1>1, <1>5 DEF ClustersCleared
    <2>2. Newly(blob_persist_clear_clusters_cpl(m))
      BY <1>3, ClearClustersNew
    <2> QED
      BY <1>2, <2>1, <2>2, CallMoves
  <1> QED
    BY <1>4, <1>5

(* A page that is not of the chain is written: the content stays. *)
LEMMA DurBeside ==
  ASSUME NEW d \in [MdPages -> Page], NEW e \in [MdPages -> Page], NEW b \in MdPages,
         NEW p \in MdPages, \A q \in MdPages : q # p => e[q] = d[q],
         p # b, NEW P, p \notin P, RootAt(d, b) => ChainAt(d, b) \subseteq P
  PROVE  DurOf(e, b) = DurOf(d, b)
  <1>1. p # NoPage
    BY SizesAssumption
  <1>2. RootAt(d, b) => d[b].next # p
    BY <1>1 DEF ChainAt
  <1>3. /\ e[b] = d[b] /\ (LoadsAt(e, b) <=> LoadsAt(d, b))
        /\ LoadsAt(d, b) => BodyAt(e, b) = BodyAt(d, b)
    BY <1>2, Beside
  <1> QED
    BY <1>3 DEF DurOf

(* Before the root is written the chain on disk is on the clean pages. *)
LEMMA CleanChain ==
  ASSUME NEW d, NEW b, NEW r, Unwritten(d, b, r), r.st \in Alive
  PROVE  RootAt(d, b) => ChainAt(d, b) \subseteq r.clean_pages
  BY DEF Unwritten, OnDisk, Alive

(* An extent page is written in place. *)
LEMMA ExtentMoves ==
  ASSUME IndInv, IndInv', NEW b \in MdPages, ExtentPageWritten(b)
  PROVE  Durable!Next
  <1>1. PICK r, m : r = blob[b] /\ m = Memory(b)
    OBVIOUS
  <1>2. InMemory(b) /\ r.io = "extent"
    BY <1>1 DEF ExtentPageWritten, InIo
  <1>3. PICK i \in r.left : Write(r.ep[i], r.extent)
                            /\ SetMemory(b, blob_persist_write_extent_pages(m, i + 1))
    BY <1>1 DEF ExtentPageWritten
  <1>4. Mem(disk, b, r) /\ r \in BlobRec /\ disk \in [MdPages -> Page]
    BY <1>1, <1>2, OpenNow
  <1>5. m.r = r /\ Shaped(m.r) /\ Pg(b) = MP(r)
    BY <1>1, <1>2, <1>4, StagesOf DEF Memory, Pg
  <1>6. MemExtent(disk, b, r)
    BY <1>2, <1>4 DEF Mem
  <1>7. i \in 1 .. Len(r.ep) /\ ExtentStaged(b, r, i) /\ Idle(disk, b, r)
    BY <1>3, <1>6 DEF MemExtent
  <1>8. Base(b, r) /\ r.st \in Alive /\ Unwritten(disk, b, r)
    BY <1>7 DEF Idle, Unwritten
  <1>9. PICK p \in MdPages : p = r.ep[i] /\ p \in ToSet(r.ep) /\ p # b /\ p \notin r.clean_pages
    <2>1. r.ep[i] \in ToSet(r.ep) /\ ToSet(r.ep) \subseteq MdPages /\ b \notin ToSet(r.ep)
      BY <1>7, <1>8, BaseTypes
    <2> QED
      BY <1>8, <2>1 DEF Base
  <1>10. r.extent \in Page /\ r.extent.kind = "extent"
    <2>1. r.extent \in Page
      BY <1>4 DEF BlobRec
    <2>2. r.extent.kind = "extent"
      BY <1>7 DEF ExtentStaged, ExtentPage
    <2> QED
      BY <2>1, <2>2
  <1>11. p \in Pg(b) /\ Write(p, r.extent)
    BY <1>3, <1>5, <1>9 DEF MP
  <1>12. /\ disk' \in [MdPages -> Page]
         /\ \A q \in MdPages : q # p => disk'[q] = disk[q]
         /\ \A c \in MdPages \ {b} : DurOf(disk', c) = DurOf(disk, c)
    BY <1>10, <1>11, WriteApart
  <1>13. DurOf(disk', b) = DurOf(disk, b)
    BY <1>4, <1>8, <1>9, <1>12, CleanChain, DurBeside
  <1>14. Newly(blob_persist_write_extent_pages(m, i + 1))
    BY <1>5, WriteExtentsNew
  <1> QED
    BY <1>2, <1>3, <1>12, <1>13, <1>14, MemoryMoves

(* The page after the root is written. *)
LEMMA ChainMoves ==
  ASSUME IndInv, IndInv', NEW b \in MdPages, ChainWritten(b)
  PROVE  Durable!Next
  <1>1. PICK r, p : r = blob[b] /\ p = r.root.next
    OBVIOUS
  <1>2. PICK s : s = [r EXCEPT !.io = "root"]
    OBVIOUS
  <1>3. PICK m : m = With(Memory(b), s)
    OBVIOUS
  <1>4. InMemory(b) /\ r.io = "chain" /\ Write(p, r.chain) /\ SetMemory(b, m)
    BY <1>1, <1>2, <1>3 DEF ChainWritten, InIo
  <1>5. Mem(disk, b, r) /\ r \in BlobRec /\ disk \in [MdPages -> Page] /\ Pg(b) = MP(r)
    BY <1>1, <1>4, OpenNow DEF Pg
  <1>6. MemStaged(disk, b, r)
    BY <1>4, <1>5 DEF Mem
  <1>7. PICK q \in MdPages : /\ r.pages = {q} /\ r.root = RootPage(b, r.root.ver, q, NoBody)
                             /\ r.chain = ChainPage(b, r.root.ver, blob_serialize(r))
    BY <1>4, <1>6 DEF MemStaged, Staged
  <1>8. p = q /\ r.chain.kind = "chain" /\ r.chain.id = b
    BY <1>1, <1>7 DEF RootPage, ChainPage
  <1>9. r.chain \in Page
    BY <1>5 DEF BlobRec
  <1>10. Unwritten(disk, b, r) /\ r.st \in Alive /\ Base(b, r) /\ r.pages \cap r.clean_pages = {}
    BY <1>6 DEF MemStaged, Unwritten
  <1>11. p \in MdPages /\ p \in Pg(b) /\ p # b /\ p \notin r.clean_pages
    BY <1>5, <1>7, <1>8, <1>10 DEF MP, Base
  <1>12. /\ disk' \in [MdPages -> Page]
         /\ \A c \in MdPages : c # p => disk'[c] = disk[c]
         /\ \A c \in MdPages \ {b} : DurOf(disk', c) = DurOf(disk, c)
    BY <1>4, <1>8, <1>9, <1>11, WriteApart
  <1>13. DurOf(disk', b) = DurOf(disk, b)
    BY <1>5, <1>10, <1>11, <1>12, CleanChain, DurBeside
  <1>14. m.r = s /\ s.root = r.root /\ s.chain = r.chain /\ s.io = "root" /\ s.st = r.st
    BY <1>2, <1>3, <1>5, WithFacts DEF BlobRec
  <1>15. r # NoBlob /\ s # NoBlob
    BY <1>1, <1>4, <1>10, <1>14 DEF InMemory, NoBlob, Alive
  <1>16. StagedOf(m.r) = StagedOf(blob[b])
    BY <1>1, <1>4, <1>14, <1>15, StagedSame
  <1> QED
    BY <1>4, <1>12, <1>13, <1>16, MemoryMoves

(* Once the root is written, the content on disk is the one that was staged. *)
LEMMA WrittenContent ==
  ASSUME NEW d, NEW b, NEW r, Written(d, b, r)
  PROVE  DurOf(d, b) = Content(r.root.ver, blob_serialize(r))
  <1>1. /\ LoadsAt(d, b) /\ d[b].ver = r.root.ver
        /\ BodyAt(d, b) = Serial(r, r.num, r.nep)
    BY DEF Written, OnDisk
  <1>2. Serial(r, r.num, r.nep) = blob_serialize(r)
    BY DEF Serial, blob_serialize
  <1> QED
    BY <1>1, <1>2 DEF DurOf

(* The root is written: what was staged is durable. *)
LEMMA RootMoves ==
  ASSUME IndInv, IndInv', NEW b \in MdPages, RootWritten(b)
  PROVE  Durable!Next
  <1>1. PICK r, m : r = blob[b] /\ m = Memory(b)
    OBVIOUS
  <1>2. InMemory(b) /\ r.io = "root" /\ Write(b, r.root) /\ SetMemory(b, AfterRoot(m))
    BY <1>1 DEF RootWritten, InIo
  <1>3. Mem(disk, b, r) /\ r \in BlobRec /\ disk \in [MdPages -> Page]
    BY <1>1, <1>2, OpenNow
  <1>4. m.r = r /\ Shaped(m.r)
    BY <1>1, <1>3, StagesOf DEF Memory
  <1>5. MemStaged(disk, b, r) /\ r.root \in Page
    BY <1>2, <1>3 DEF Mem, BlobRec
  <1>6. r.root.kind = "root"
    <2>1. Staged(disk, b, r)
      BY <1>5 DEF MemStaged
    <2>2. PICK v : v = r.root.ver
      OBVIOUS
    <2>3. \E p, body : r.root = RootPage(b, v, p, body)
      BY <2>1, <2>2 DEF Staged
    <2> QED
      BY <2>3 DEF RootPage
  <1>7. b \in Pg(b)
    BY <1>1, <1>2, <1>3, MemDisk DEF Pg
  <1>8. /\ disk' \in [MdPages -> Page] /\ disk'[b] = r.root
        /\ \A q \in MdPages : q # b => disk'[q] = disk[q]
        /\ \A c \in MdPages \ {b} : DurOf(disk', c) = DurOf(disk, c)
    BY <1>2, <1>5, <1>6, <1>7, WriteApart
  <1>9. Written(disk', b, r)
    BY <1>2, <1>3, <1>5, <1>8, RootIsWritten
  <1>10. DurOf(disk', b) = Content(r.root.ver, blob_serialize(r))
    BY <1>9, WrittenContent
  <1>11. StagedOf(r) = Content(r.root.ver, blob_serialize(r)) /\ StagedOf(r) # None
    BY <1>2, <1>3, StagesOf
  <1>12. Newly(AfterRoot(m))
    BY <1>4, AfterRootNew
  <1> QED
    BY <1>1, <1>2, <1>8, <1>10, <1>11, <1>12, MemoryMoves

(* An old page of the chain is zeroed; in a delete the content may be lost. *)
LEMMA OldPageMoves ==
  ASSUME IndInv, IndInv', NEW b \in MdPages, OldPageZeroed(b)
  PROVE  Durable!Next
  <1>1. PICK r, m : r = blob[b] /\ m = Memory(b)
    OBVIOUS
  <1>2. InMemory(b) /\ r.io = "zero"
    BY <1>1 DEF OldPageZeroed, InIo
  <1>3. PICK p \in r.left : /\ Write(p, ZeroPage)
                            /\ SetMemory(b, Zeroed(m, p, blob_persist_zero_pages_cpl))
    BY <1>1 DEF OldPageZeroed
  <1>4. Mem(disk, b, r) /\ r \in BlobRec /\ disk \in [MdPages -> Page] /\ Pg(b) = MP(r)
    BY <1>1, <1>2, OpenNow DEF Pg
  <1>5. m.r = r /\ Shaped(m.r)
    BY <1>1, <1>4, StagesOf DEF Memory
  <1>6. MemZero(disk, b, r) \/ MemDying(disk, b, r)
    BY <1>2, <1>4 DEF Mem
  <1>7. r.left \subseteq r.clean_pages \cup {b} /\ r.clean_pages \subseteq MdPages
    BY <1>2, <1>4, <1>6 DEF MemZero, MemDying, BlobRec
  <1>8. p \in MdPages /\ p \in Pg(b)
    <2>1. b \in MP(r) /\ r.clean_pages \subseteq MP(r)
      BY <1>2, <1>4, MemDisk DEF MP
    <2> QED
      BY <1>3, <1>4, <1>7, <2>1
  <1>9. ZeroPage \in Page /\ ZeroPage.kind = "zero"
    BY DEF Page, ZeroPage
  <1>10. /\ disk' \in [MdPages -> Page] /\ disk'[p] = ZeroPage
         /\ \A q \in MdPages : q # p => disk'[q] = disk[q]
         /\ \A c \in MdPages \ {b} : DurOf(disk', c) = DurOf(disk, c)
    BY <1>3, <1>8, <1>9, WriteApart
  <1>11. Newly(Zeroed(m, p, blob_persist_zero_pages_cpl))
    BY <1>2, <1>5, ZeroedNew
  <1>12. \/ DurOf(disk', b) = DurOf(disk, b)
         \/ r.st = "deleting" /\ DurOf(disk', b) = None
    <2>1. CASE MemZero(disk, b, r)
      <3>1. Written(disk, b, r) /\ Written(disk', b, r)
        BY <1>3, <1>4, <1>10, <2>1, OldIsZeroed DEF MemZero
      <3> QED
        BY <3>1, WrittenContent
    <2>2. CASE MemDying(disk, b, r)
      <3>1. /\ RootAt(disk', b) => disk'[b] = disk[b]
            /\ LoadsAt(disk', b) => LoadsAt(disk, b)
            /\ Unwritten(disk', b, r) /\ Unwritten(disk, b, r) /\ r.st = "deleting"
        BY <1>2, <1>3, <1>4, <1>10, <2>2, DyingIsZeroed DEF MemDying
      <3>2. LoadsAt(disk', b) => BodyAt(disk', b) = BodyAt(disk, b)
        BY <3>1 DEF Unwritten, OnDisk
      <3> QED
        BY <3>1, <3>2 DEF DurOf, LoadsAt
    <2> QED
      BY <1>6, <2>1, <2>2
  <1> QED
    BY <1>1, <1>2, <1>3, <1>10, <1>11, <1>12, MemoryMoves

(* An extent page that is no longer needed is zeroed. *)
LEMMA ExtentZeroedMoves ==
  ASSUME IndInv, IndInv', NEW b \in MdPages, ExtentPageZeroed(b)
  PROVE  Durable!Next
  <1>1. PICK r, m : r = blob[b] /\ m = Memory(b)
    OBVIOUS
  <1>2. InMemory(b) /\ r.io = "extents"
    BY <1>1 DEF ExtentPageZeroed, InIo
  <1>3. PICK p \in r.left : /\ Write(p, ZeroPage)
                            /\ SetMemory(b, Zeroed(m, p, blob_persist_clear_extents_cpl))
    BY <1>1 DEF ExtentPageZeroed
  <1>4. Mem(disk, b, r) /\ r \in BlobRec /\ disk \in [MdPages -> Page] /\ Pg(b) = MP(r)
    BY <1>1, <1>2, OpenNow DEF Pg
  <1>5. m.r = r /\ Shaped(m.r)
    BY <1>1, <1>4, StagesOf DEF Memory
  <1>6. Written(disk, b, r) /\ p \in ItemsAfter(r.ep, r.nep)
    BY <1>2, <1>3, <1>4 DEF Mem
  <1>7. r.ep \in Seq(MdPages) /\ r.nep \in Nat /\ r.nep <= Len(r.ep)
    <2>1. Base(b, r) /\ r.nep <= Len(r.ep)
      BY <1>6 DEF Written, Base
    <2> QED
      BY <2>1, BaseTypes
  <1>8. p \in MdPages /\ p \in Pg(b)
    <2>1. p \in ToSet(r.ep) /\ ToSet(r.ep) \subseteq MdPages
      BY <1>6, <1>7, PrefixFacts, ToSetFacts
    <2> QED
      BY <1>4, <2>1 DEF MP
  <1>9. ZeroPage \in Page /\ ZeroPage.kind = "zero"
    BY DEF Page, ZeroPage
  <1>10. /\ disk' \in [MdPages -> Page] /\ disk'[p] = ZeroPage
         /\ \A q \in MdPages : q # p => disk'[q] = disk[q]
         /\ \A c \in MdPages \ {b} : DurOf(disk', c) = DurOf(disk, c)
    BY <1>3, <1>8, <1>9, WriteApart
  <1>11. Newly(Zeroed(m, p, blob_persist_clear_extents_cpl))
    BY <1>2, <1>5, ZeroedNew
  <1>12. Written(disk', b, r)
    BY <1>4, <1>6, <1>10, ExtentIsZeroed
  <1>13. DurOf(disk', b) = DurOf(disk, b)
    BY <1>6, <1>12, WrittenContent
  <1> QED
    BY <1>2, <1>3, <1>10, <1>11, <1>13, MemoryMoves

(* A page or the clusters of a deleted blob are erased: no blob has them. *)
LEMMA DeletedStays ==
  ASSUME IndInv, NEW r \in deleted, DeletedClustersCleared(r) \/ DeletedExtentZeroed(r)
  PROVE  UNCHANGED Durable!vars
  <1>1. blob' = blob
    BY DEF DeletedClustersCleared, DeletedExtentZeroed, SetDeleted
  <1>2. CASE DeletedClustersCleared(r)
    <2>1. disk' = disk
      BY <1>2 DEF DeletedClustersCleared
    <2>2. \A c \in MdPages : DurOf(disk', c) = DurOf(disk, c)
      BY <2>1
    <2> QED
      BY <1>1, <2>2, StutterOf
  <1>3. CASE DeletedExtentZeroed(r)
    <2>1. PICK p \in r.left : Write(p, ZeroPage)
      BY <1>3 DEF DeletedExtentZeroed
    <2>2. r.io = "extents" /\ DelOK(r) /\ disk \in [MdPages -> Page]
      BY <1>3 DEF DeletedExtentZeroed, IndInv, Modes, Types
    <2>3. r.ep \in Seq(MdPages) /\ r.left \subseteq ToSet(r.ep)
      BY <2>2 DEF DelOK, BlobRec
    <2>4. p \in MdPages /\ p \in ToSet(r.ep)
      BY <2>1, <2>3, ToSetFacts
    <2>5. ZeroPage \in Page /\ ZeroPage.kind = "zero"
      BY DEF Page, ZeroPage
    <2>6. /\ disk' \in [MdPages -> Page] /\ disk'[p] = ZeroPage
          /\ \A q \in MdPages : q # p => disk'[q] = disk[q]
      BY <2>1, <2>2, <2>4, <2>5 DEF Write
    <2>7. ASSUME NEW c \in MdPages PROVE DurOf(disk', c) = DurOf(disk, c)
      <3>1. p \notin Pg(c)
        BY <2>4 DEF IndInv, Apart
      <3> QED
        BY <2>4, <2>5, <2>6, <3>1, DurElsewhere
    <2> QED
      BY <1>1, <2>7, StutterOf
  <1> QED
    BY <1>2, <1>3

(* Loading and unloading leave the blobs alone. *)
LEMMA QuietStays ==
  ASSUME spdk_bs_load \/ RecoverWrites \/ spdk_bs_unload \/ UnloadWrites
         \/ bs_unload_write_super_cpl \/ UNCHANGED vars
  PROVE  UNCHANGED Durable!vars
  <1>1. blob' = blob /\ disk' = disk
    BY DEF spdk_bs_load, RecoverWrites, spdk_bs_unload, UnloadWrites, MaskWritten,
           bs_unload_write_super_cpl, vars
  <1>2. \A c \in MdPages : DurOf(disk', c) = DurOf(disk, c)
    BY <1>1
  <1> QED
    BY <1>1, <1>2, StutterOf

(* A crash leaves what is durable. *)
LEMMA CrashMoves ==
  ASSUME Crash
  PROVE  Durable!Next
  <1>1. \A c \in MdPages : blob'[c] = NoBlob /\ DurOf(disk', c) = DurOf(disk, c)
    BY DEF Crash
  <1>2. \A c \in MdPages : /\ InMemoryContent(c)' = None /\ StagedContent(c)' = None
                           /\ DurableContent(c)' = DurableContent(c)
    BY <1>1, ContentsAre DEF MemOf, StagedOf
  <1>3. Durable!Crash
    BY <1>2 DEF Durable!Crash, Durable!Nothing
  <1> QED
    BY <1>3 DEF Durable!Next

(* Every step is one of DurableBlobs, or changes none of its state. *)
LEMMA NextMoves == IndInv /\ IndInv' /\ [Next]_vars => [Durable!Next]_Durable!vars
  <1> SUFFICES ASSUME IndInv, IndInv', [Next]_vars PROVE Durable!Next \/ UNCHANGED Durable!vars
    OBVIOUS
  <1>1. ASSUME NEW opts \in Opts, bs_create_blob(opts) PROVE Durable!Next
    BY <1>1, CreateMoves
  <1>2. ASSUME NEW b \in MdPages, Calls(b) PROVE Durable!Next
    BY <1>2, OpenMoves, SyncOrCloseMoves, DeleteMoves, SetXattrMoves, ResizeMoves DEF Calls
  <1>3. ASSUME NEW b \in MdPages, Completions(b) PROVE Durable!Next
    BY <1>3, NoWriteMoves, ExtentMoves, ChainMoves, RootMoves, OldPageMoves, ExtentZeroedMoves
       DEF Completions
  <1>4. ASSUME NEW r \in deleted, DeletedClustersCleared(r) \/ DeletedExtentZeroed(r)
        PROVE  UNCHANGED Durable!vars
    BY <1>4, DeletedStays
  <1>5. CASE spdk_bs_load \/ RecoverWrites \/ spdk_bs_unload \/ UnloadWrites
             \/ bs_unload_write_super_cpl \/ UNCHANGED vars
    BY <1>5, QuietStays
  <1>6. CASE Crash
    BY <1>6, CrashMoves
  <1> QED
    BY <1>1, <1>2, <1>3, <1>4, <1>5, <1>6 DEF Next

(* At first there is nothing, in memory or on disk. *)
LEMMA InitMoves == Init => Durable!Init
  <1> SUFFICES ASSUME Init PROVE Durable!Init
    OBVIOUS
  <1>1. \A c \in MdPages : blob[c] = NoBlob /\ disk[c] = ZeroPage
    BY DEF Init
  <1>2. ZeroPage.kind # "root"
    BY DEF ZeroPage
  <1>3. ASSUME NEW c \in MdPages
        PROVE  InMemoryContent(c) = None /\ StagedContent(c) = None /\ DurableContent(c) = None
    <2>1. MemOf(blob[c]) = None /\ StagedOf(blob[c]) = None
      BY <1>1 DEF MemOf, StagedOf
    <2>2. DurOf(disk, c) = None
      BY <1>1, <1>2 DEF DurOf, LoadsAt, RootAt
    <2> QED
      BY <2>1, <2>2, ContentsAre
  <1> QED
    BY <1>3 DEF Durable!Init, Durable!Nothing

(***************************************************************************)
(* The write of the root is the point at which a persist takes effect, as  *)
(* a whole; nothing else changes what a crash leaves of a blob, except the *)
(* deletion of that blob.                                                  *)
(***************************************************************************)
THEOREM ImplementsDurable == Spec => ImplementsDurableBlobs
  <1>1. Init => Durable!Init
    BY InitMoves
  <1>2. IndInv /\ IndInv' /\ [Next]_vars => [Durable!Next]_Durable!vars
    BY NextMoves
  <1> QED
    BY <1>1, <1>2, InvAlways, PTL DEF Spec, ImplementsDurableBlobs, Durable!Spec
=============================================================================
