----------------------------- MODULE Blobstore ------------------------------
(***************************************************************************)
(* The metadata of lib/blob/blobstore.c, in memory and on disk, with       *)
(* crashes.                                                                *)
(*                                                                         *)
(* The metadata of a blob is a chain of pages.  The first one, the root,   *)
(* is the page with the blob's number; the others are written to free      *)
(* pages.  A persist writes the chain before the root, and only then       *)
(* zeroes and releases the pages and clusters the blob no longer uses.  A  *)
(* blob lists its clusters in its last page, or in an extent page that is  *)
(* named there and written in place.  Masks of the pages, blobs and        *)
(* clusters in use are on disk too, but hold only while the super block    *)
(* says clean; otherwise loading finds them from the chains.               *)
(*                                                                         *)
(* A step is what the metadata thread does when one I/O completes, or in   *)
(* one call of the application.  A page is written atomically, the pages   *)
(* of a batch in any order, and a crash loses what is not yet written.     *)
(* I/O does not fail.  A blob has one user, who waits for the answer to a  *)
(* create, a delete or a close, and for a sync before a resize, and who    *)
(* asks for no more extent pages than are free.  Blobs are thick, are not  *)
(* snapshots or clones, and have at most two pages.  The number of a blob  *)
(* is free again once its root is zeroed, and may be taken by another one  *)
(* while the clusters of the old one are still being cleared.              *)
(***************************************************************************)
EXTENDS Integers, Sequences, FiniteSets, SequencesExt, FiniteSetsExt

CONSTANTS
  NPages,         \* md_len
  NClusters,      \* data clusters
  ExtentsPerEp,   \* SPDK_EXTENTS_PER_EP
  Opts,           \* the options of new blobs: et, big and sz
  MaxChanges,     \* bound on the blobs created, changed and deleted
  MaxCrashes,     \* bound on the crashes
  NoPage          \* SPDK_INVALID_MD_PAGE

MdPages == 0 .. NPages - 1
Clusters == 1 .. NClusters

ASSUME SizesAssumption ==
  /\ NPages \in Nat \ {0} /\ NClusters \in Nat /\ ExtentsPerEp \in Nat \ {0}
  /\ NoPage \notin MdPages
ASSUME OptsAssumption == Opts \subseteq [et : BOOLEAN, big : BOOLEAN, sz : Nat]
ASSUME BoundsAssumption == MaxChanges \in Nat /\ MaxCrashes \in Nat

VARIABLES
  \* on disk
  disk,           \* the metadata pages
  super_clean,    \* clean, of the super block
  masks,          \* used_md_pages, used_blobids, used_clusters
  \* in memory
  bs,             \* where the blobstore is in loading and unloading
  clean,          \* bs->clean
  used,           \* the masks
  blob,           \* struct spdk_blob and the persist under way
  deleted,        \* those whose root is zeroed, and which are no longer listed
  \* what the application was told, and bounds
  acked,          \* the last version of each blob whose persist has completed
  changes, crashes

vars == <<disk, super_clean, masks, bs, clean, used, blob, deleted, acked, changes, crashes>>

(* Values of acked: no version, and a deletion that is not complete. *)
Unknown == -1
Doomed == -2

-----------------------------------------------------------------------------
(* Pages: a page that was zeroed has no valid crc. *)
ZeroPage == [kind |-> "zero"]
RootPage(b, v, next, body) ==
  [kind |-> "root", id |-> b, ver |-> v, next |-> next, body |-> body]
ChainPage(b, v, body) == [kind |-> "chain", id |-> b, ver |-> v, body |-> body]
ExtentPage(b, v, start, cl) ==
  [kind |-> "extent", id |-> b, ver |-> v, start |-> start, cl |-> cl]

(* The extents are in the last page of a chain. *)
NoBody == [et |-> FALSE, cl |-> <<>>, ep |-> <<>>]

ItemsAfter(s, n) == {s[i] : i \in n + 1 .. Len(s)}

(* spdk_divide_round_up(n, SPDK_EXTENTS_PER_EP) *)
ExtentPages(n) == (n + ExtentsPerEp - 1) \div ExtentsPerEp

-----------------------------------------------------------------------------
(***************************************************************************)
(* Reading the disk.                                                       *)
(***************************************************************************)
(* bs_load_cur_md_page_valid *)
ValidMd(p) ==
  \/ disk[p].kind = "chain"
  \/ disk[p].kind = "root" /\ disk[p].id = p

Roots == {p \in MdPages : disk[p].kind = "root" /\ disk[p].id = p}

(* The pages a replay claims: roots, and what they lead to. *)
ReplayedMd ==
  Roots \cup {p \in MdPages : ValidMd(p) /\ \E r \in Roots : disk[r].next = p}

ReplayedEp == UNION {ToSet(disk[p].body.ep) : p \in ReplayedMd}

(* -EILSEQ: an extent page that is not one, or that lists no cluster. *)
ReplayFails == \E p \in ReplayedEp : disk[p].kind = "extent" => disk[p].cl = <<>>

Replayed_roots ==   \* mutant: the pages after the root are not claimed
  [md |-> Roots \cup ReplayedEp,
   ids |-> Roots,
   clusters |-> UNION ({ToSet(disk[p].body.cl) : p \in ReplayedMd}
                       \cup {ToSet(disk[p].cl) : p \in ReplayedEp})]
Replayed_table ==   \* mutant: the clusters in extent pages are not claimed
  [md |-> ReplayedMd \cup ReplayedEp,
   ids |-> Roots,
   clusters |-> UNION {ToSet(disk[p].body.cl) : p \in ReplayedMd}]
Replayed ==
  [md |-> ReplayedMd \cup ReplayedEp,
   ids |-> Roots,
   clusters |-> UNION ({ToSet(disk[p].body.cl) : p \in ReplayedMd}
                       \cup {ToSet(disk[p].cl) : p \in ReplayedEp})]

(* blob_load finds the whole chain of b (blob_parse asserts the ids). *)
Loads(b) ==
  /\ b \in Roots
  /\ disk[b].next # NoPage =>
       disk[disk[b].next].kind = "chain" /\ disk[disk[b].next].id = b

LastPage(b) == IF disk[b].next = NoPage THEN disk[b] ELSE disk[disk[b].next]

(* blob_load_cpl_extents_cpl: the extent pages are read one after the other, *)
(* and each one must list clusters and start where the one before it ends.   *)
Ends(p) == disk[p].start + Len(disk[p].cl)
ExtentsLoad(ep) ==
  /\ \A i \in DOMAIN ep : disk[ep[i]].kind = "extent" /\ disk[ep[i]].cl # <<>>
  /\ \A i \in DOMAIN ep : disk[ep[i]].start = IF i = 1 THEN 0 ELSE Ends(ep[i - 1])

ListedClusters(ep) ==
  [k \in 1 .. (IF ep = <<>> THEN 0 ELSE Ends(ep[Len(ep)])) |->
     LET i == CHOOSE i \in DOMAIN ep : disk[ep[i]].start < k /\ k <= Ends(ep[i])
     IN  disk[ep[i]].cl[k - disk[ep[i]].start]]

-----------------------------------------------------------------------------
(***************************************************************************)
(* Changes in memory.  m holds the blob r, the masks u, and the version a  *)
(* that the application knows to be on disk.                               *)
(***************************************************************************)
NoBlob == [st |-> "closed"]
InMemory(b) == blob[b] # NoBlob

(* pages and clean_pages: the pages of the chain after the first *)
blob_alloc(b, et) ==
  [id |-> b, st |-> "creating", dirty |-> TRUE, et |-> et, big |-> FALSE, ver |-> 0,
   num |-> 0, cl |-> <<>>, nep |-> 0, ep |-> <<>>, pages |-> {},
   clean_num |-> 0, clean_nep |-> 0, clean_pages |-> {},
   io |-> "idle", left |-> {}, pend |-> FALSE,
   root |-> ZeroPage, chain |-> ZeroPage, extent |-> ZeroPage]

With(m, r) == [r |-> r, u |-> m.u, a |-> m.a]

(* bs_allocate_cluster, as often as needed, takes the first free ones. *)
FirstFree(S, n) == [k \in 1 .. n |-> CHOOSE x \in S : Cardinality({y \in S : y <= x}) = k]

(* blob_resize; spare clusters of an earlier resize are used first. *)
FreeClusters(u) == Clusters \ u.clusters
FreeExtentPages(u) == MdPages \ (u.md \cup {0})
MissingEp(r, sz) == IF r.et /\ ExtentPages(sz) > Len(r.ep) THEN ExtentPages(sz) - Len(r.ep) ELSE 0
MissingCl(r, sz) == IF sz > Len(r.cl) THEN sz - Len(r.cl) ELSE 0
(* The code makes sure of the clusters, but looks for one free page only. *)
CanResize(r, u, sz) ==
  /\ MissingCl(r, sz) <= Cardinality(FreeClusters(u))
  /\ MissingEp(r, sz) <= Cardinality(FreeExtentPages(u))
blob_resize(m, sz) ==
  LET cl == FirstFree(FreeClusters(m.u), MissingCl(m.r, sz))
      ep == FirstFree(FreeExtentPages(m.u), MissingEp(m.r, sz))
  IN  [r |-> [m.r EXCEPT !.num = sz, !.nep = IF m.r.et THEN ExtentPages(sz) ELSE 0,
                         !.cl = m.r.cl \o cl, !.ep = m.r.ep \o ep, !.dirty = TRUE],
       u |-> [m.u EXCEPT !.clusters = @ \cup ToSet(cl), !.md = @ \cup ToSet(ep)],
       a |-> m.a]

-----------------------------------------------------------------------------
(***************************************************************************)
(* Persisting.  Each operator runs the code up to the next I/O.            *)
(***************************************************************************)
(* blob_persist_complete, when persists that came meanwhile do not wait.   *)
(* The callbacks close the blob, unless it was a sync.                     *)
Ended(m) ==
  With(m, IF m.r.st = "open"
          THEN [m.r EXCEPT !.io = "idle", !.left = {}, !.root = ZeroPage,
                           !.chain = ZeroPage, !.extent = ZeroPage]
          ELSE NoBlob)

(* blob_serialize and blob_serialize_extent_page *)
blob_serialize_all(r) ==   \* mutant: extent pages that are no longer used are listed
  [et |-> r.et,
   cl |-> IF r.et THEN <<>> ELSE SubSeq(r.cl, 1, r.num),
   ep |-> r.ep]
blob_serialize(r) ==
  [et |-> r.et,
   cl |-> IF r.et THEN <<>> ELSE SubSeq(r.cl, 1, r.num),
   ep |-> SubSeq(r.ep, 1, r.nep)]
blob_serialize_extent_page(r, i) ==
  ExtentPage(r.id, r.ver, (i - 1) * ExtentsPerEp,
             SubSeq(r.cl, (i - 1) * ExtentsPerEp + 1, Min({i * ExtentsPerEp, r.num})))

(* -ENOMEM: no page is free.  The state stays dirty, and the persists that *)
(* wait fail in the same way.                                              *)
blob_persist_generate_new_md(m) ==
  LET free == MdPages \ m.u.md
      p == Min(free)
      body == blob_serialize(m.r)
  IN  IF ~m.r.big
      THEN With(m, [m.r EXCEPT !.dirty = FALSE, !.pages = {}, !.io = "root",
                               !.root = RootPage(m.r.id, m.r.ver, NoPage, body)])
      ELSE IF free = {} THEN Ended(With(m, [m.r EXCEPT !.pend = FALSE]))
      ELSE [r |-> [m.r EXCEPT !.dirty = FALSE, !.pages = {p}, !.io = "chain",
                              !.root = RootPage(m.r.id, m.r.ver, p, NoBody),
                              !.chain = ChainPage(m.r.id, m.r.ver, body)],
            u |-> [m.u EXCEPT !.md = m.u.md \cup {p}],
            a |-> m.a]

(* Extent pages i and on are written, one after the other. *)
blob_persist_write_extent_pages(m, i) ==
  IF i <= Len(m.r.ep)
  THEN With(m, [m.r EXCEPT !.dirty = TRUE, !.io = "extent", !.left = {i},
                           !.extent = blob_serialize_extent_page(m.r, i)])
  ELSE blob_persist_generate_new_md(m)

(* The root itself is zeroed and released in a delete only. *)
RootIfDeleted(r) == IF r.st = "deleting" THEN {r.id} ELSE {}

blob_persist_zero_pages_active(m) ==   \* mutant: the new pages are zeroed
  With(m, [m.r EXCEPT !.io = "zero", !.left = m.r.pages \cup RootIfDeleted(m.r)])
blob_persist_zero_pages(m) ==
  With(m, [m.r EXCEPT !.io = "zero", !.left = m.r.clean_pages \cup RootIfDeleted(m.r)])

blob_persist_start(m) ==
  IF m.r.st = "deleting"
  THEN blob_persist_zero_pages(With(m, [m.r EXCEPT !.dirty = FALSE]))
  ELSE IF m.r.clean_num < m.r.num
  THEN blob_persist_write_extent_pages(m, Max({1, m.r.clean_nep}))
  ELSE IF m.r.num < Len(m.r.cl)
  THEN blob_persist_write_extent_pages(m, Max({1, m.r.nep}))
  ELSE blob_persist_generate_new_md(m)

blob_mark_clean(r) ==
  [r EXCEPT !.clean_num = r.num, !.clean_nep = r.nep, !.clean_pages = r.pages]

blob_persist_complete(m) ==
  LET r == blob_mark_clean(m.r)
      done == [r |-> r, u |-> m.u, a |-> IF r.st = "deleting" THEN m.a ELSE r.root.ver]
  IN  IF r.pend
      THEN blob_persist_start(With(done, [r EXCEPT !.pend = FALSE, !.dirty = TRUE]))
      ELSE Ended(done)

blob_persist_clear_extents(m) ==
  LET left == ItemsAfter(m.r.ep, m.r.nep)
  IN  IF left = {} THEN blob_persist_complete(m)
      ELSE With(m, [m.r EXCEPT !.io = "extents", !.left = left])

blob_persist_clear_extents_cpl(m) ==
  blob_persist_complete(
    [r |-> [m.r EXCEPT !.ep = SubSeq(m.r.ep, 1, m.r.nep)],
     u |-> [m.u EXCEPT !.md = m.u.md \ ItemsAfter(m.r.ep, m.r.nep)],
     a |-> m.a])

blob_persist_clear_clusters_cpl(m) ==
  blob_persist_clear_extents(
    [r |-> [m.r EXCEPT !.cl = SubSeq(m.r.cl, 1, m.r.num)],
     u |-> [m.u EXCEPT !.clusters = m.u.clusters \ ItemsAfter(m.r.cl, m.r.num)],
     a |-> m.a])

blob_persist_clear_clusters(m) ==
  IF ItemsAfter(m.r.cl, m.r.num) = {} THEN blob_persist_clear_clusters_cpl(m)
  ELSE With(m, [m.r EXCEPT !.io = "clusters"])

blob_persist_zero_pages_cpl(m) ==
  blob_persist_clear_clusters(
    [r |-> m.r,
     u |-> [m.u EXCEPT !.md = m.u.md \ (m.r.clean_pages \cup RootIfDeleted(m.r))],
     a |-> IF m.r.st = "deleting" THEN Unknown ELSE m.a])

(* An empty batch completes at once. *)
AfterRoot(m) ==
  LET z == blob_persist_zero_pages(m)
  IN  IF z.r.left = {} THEN blob_persist_zero_pages_cpl(z) ELSE z

bs_mark_dirty_later(m) == blob_persist_start(m)   \* mutant: the super block is not written
bs_mark_dirty(m) ==
  IF clean THEN With(m, [m.r EXCEPT !.io = "super"]) ELSE blob_persist_start(m)

blob_persist(m) ==
  IF m.r.io # "idle" THEN With(m, [m.r EXCEPT !.pend = TRUE])
  ELSE IF m.r.dirty THEN bs_mark_dirty(m)
  ELSE Ended(m)

Memory(b) == [r |-> blob[b], u |-> used, a |-> acked[b]]

(* A deleted blob whose root is zeroed leaves its number to others. *)
Detached(r) == r.st = "deleting" /\ r.io \in {"clusters", "extents"}
SetMemory(b, m) ==
  /\ blob' = [blob EXCEPT ![b] = IF Detached(m.r) THEN NoBlob ELSE m.r]
  /\ deleted' = IF Detached(m.r) THEN deleted \cup {m.r} ELSE deleted
  /\ used' = m.u
  /\ acked' = [acked EXCEPT ![b] = m.a]

-----------------------------------------------------------------------------
(***************************************************************************)
(* Calls of the application.                                               *)
(***************************************************************************)
Loaded == bs = "loaded"
Others == UNCHANGED <<disk, super_clean, masks, bs, clean, crashes>>
Changes == changes < MaxChanges /\ changes' = changes + 1

bs_create_blob(opts) ==
  LET free == MdPages \ used.md
      b == Min(free)
      u == [used EXCEPT !.md = @ \cup {b}, !.ids = @ \cup {b}]
      r == [blob_alloc(b, opts.et) EXCEPT !.big = opts.big]
  IN  /\ Loaded /\ free # {}
      /\ CanResize(r, u, opts.sz)
      /\ SetMemory(b, blob_persist(blob_resize([r |-> r, u |-> u, a |-> Unknown], opts.sz)))
      /\ Changes /\ Others

(* blob_load: what is found on disk is the clean state of the blob. *)
blob_load(b) ==
  LET body == LastPage(b).body
      cl == IF body.et THEN ListedClusters(body.ep) ELSE body.cl
      pages == {disk[b].next} \ {NoPage}
  IN  [blob_alloc(b, body.et) EXCEPT
         !.st = "open", !.dirty = FALSE, !.big = pages # {}, !.ver = disk[b].ver,
         !.num = Len(cl), !.cl = cl, !.nep = Len(body.ep), !.ep = body.ep, !.pages = pages,
         !.clean_num = Len(cl), !.clean_nep = Len(body.ep), !.clean_pages = pages]

MayOpen(b) ==
  /\ Loaded /\ b \in used.ids /\ ~InMemory(b)
  /\ Loads(b) /\ ExtentsLoad(LastPage(b).body.ep)

bs_open_blob(b) ==
  /\ MayOpen(b)
  /\ SetMemory(b, With(Memory(b), blob_load(b)))
  /\ Others /\ UNCHANGED changes

IsOpen(b) == InMemory(b) /\ blob[b].st = "open"

(* spdk_blob_set_xattr; the extended attributes fill one page or two. *)
blob_set_xattr(b, big) ==
  /\ IsOpen(b)
  /\ SetMemory(b, With(Memory(b), [blob[b] EXCEPT !.big = big, !.dirty = TRUE,
                                                  !.ver = blob[b].ver + 1]))
  /\ Changes /\ Others

spdk_blob_resize(b, sz) ==
  /\ IsOpen(b)
  /\ blob[b].io = "idle" /\ sz # blob[b].num
  /\ CanResize(blob[b], used, sz)
  /\ SetMemory(b, blob_resize(With(Memory(b), [blob[b] EXCEPT !.ver = blob[b].ver + 1]), sz))
  /\ Changes /\ Others

spdk_blob_sync_md(b) ==
  /\ IsOpen(b)
  /\ SetMemory(b, blob_persist(Memory(b)))
  /\ Others /\ UNCHANGED changes

spdk_blob_close(b) ==
  /\ IsOpen(b)
  /\ SetMemory(b, blob_persist(With(Memory(b), [blob[b] EXCEPT !.st = "closing"])))
  /\ Others /\ UNCHANGED changes

(* spdk_bs_delete_blob opens the blob; bs_delete_blob_finish resizes it to 0. *)
bs_delete_blob_finish(b) ==
  LET m == [r |-> [blob_load(b) EXCEPT !.st = "deleting", !.dirty = TRUE, !.pages = {}],
            u |-> [used EXCEPT !.ids = used.ids \ {b}],
            a |-> Doomed]
  IN  /\ MayOpen(b)
      /\ SetMemory(b, blob_persist(blob_resize(m, 0)))
      /\ Changes /\ Others

-----------------------------------------------------------------------------
(***************************************************************************)
(* Completions of the I/O of a persist.                                    *)
(***************************************************************************)
InIo(b, io) == InMemory(b) /\ blob[b].io = io
Write(p, page) == disk' = [disk EXCEPT ![p] = page]
DiskOnly == UNCHANGED <<super_clean, masks, bs, clean, changes, crashes>>

bs_mark_dirty_write_cpl(b) ==
  /\ InIo(b, "super")
  /\ super_clean' = FALSE /\ clean' = FALSE
  /\ SetMemory(b, blob_persist_start(Memory(b)))
  /\ UNCHANGED <<disk, masks, bs, changes, crashes>>

ExtentPageWritten(b) ==
  /\ InIo(b, "extent")
  /\ \E i \in blob[b].left :
       /\ Write(blob[b].ep[i], blob[b].extent)
       /\ SetMemory(b, blob_persist_write_extent_pages(Memory(b), i + 1))
  /\ DiskOnly

ChainWritten(b) ==
  /\ InIo(b, "chain")
  /\ Write(blob[b].root.next, blob[b].chain)
  /\ SetMemory(b, With(Memory(b), [blob[b] EXCEPT !.io = "root"]))
  /\ DiskOnly

RootWritten(b) ==
  /\ InIo(b, "root")
  /\ Write(b, blob[b].root)
  /\ SetMemory(b, AfterRoot(Memory(b)))
  /\ DiskOnly

(* A page of a batch is zeroed; the last one completes it. *)
Zeroed(m, p, Cpl(_)) ==
  LET rest == With(m, [m.r EXCEPT !.left = m.r.left \ {p}])
  IN  IF rest.r.left = {} THEN Cpl(rest) ELSE rest

OldPageZeroed(b) ==
  /\ InIo(b, "zero")
  /\ \E p \in blob[b].left :
       /\ Write(p, ZeroPage)
       /\ SetMemory(b, Zeroed(Memory(b), p, blob_persist_zero_pages_cpl))
  /\ DiskOnly

ExtentPageZeroed(b) ==
  /\ InIo(b, "extents")
  /\ \E p \in blob[b].left :
       /\ Write(p, ZeroPage)
       /\ SetMemory(b, Zeroed(Memory(b), p, blob_persist_clear_extents_cpl))
  /\ DiskOnly

ClustersCleared(b) ==
  /\ InIo(b, "clusters")
  /\ SetMemory(b, blob_persist_clear_clusters_cpl(Memory(b)))
  /\ UNCHANGED disk /\ DiskOnly

(* The same for a deleted blob r. *)
SetDeleted(r, m) ==
  /\ deleted' = (deleted \ {r}) \cup ({m.r} \ {NoBlob})
  /\ used' = m.u
  /\ UNCHANGED <<blob, acked>>

DeletedClustersCleared(r) ==
  /\ r.io = "clusters"
  /\ SetDeleted(r, blob_persist_clear_clusters_cpl([r |-> r, u |-> used, a |-> Unknown]))
  /\ UNCHANGED disk /\ DiskOnly

DeletedExtentZeroed(r) ==
  /\ r.io = "extents"
  /\ \E p \in r.left :
       /\ Write(p, ZeroPage)
       /\ SetDeleted(r, Zeroed([r |-> r, u |-> used, a |-> Unknown], p,
                               blob_persist_clear_extents_cpl))
  /\ DiskOnly

-----------------------------------------------------------------------------
(***************************************************************************)
(* Loading, unloading and crashes.                                         *)
(***************************************************************************)
spdk_bs_load ==
  /\ bs = "unloaded"
  /\ clean' = TRUE
  /\ \/ super_clean /\ used' = masks /\ bs' = "loaded"
     \/ ~super_clean /\ ReplayFails /\ bs' = "failed" /\ used' = used
     \/ ~super_clean /\ ~ReplayFails /\ used' = Replayed /\ bs' = "recover_md"
  /\ UNCHANGED <<disk, super_clean, masks, blob, deleted, acked, changes, crashes>>

spdk_bs_unload ==
  /\ Loaded /\ deleted = {} /\ \A b \in MdPages : ~InMemory(b)
  /\ bs' = "unload_md"
  /\ UNCHANGED <<disk, super_clean, masks, clean, used, blob, deleted, acked, changes, crashes>>

(* bs_write_used_md, bs_write_used_blobids, bs_write_used_clusters *)
MaskWritten(from, field, to) ==
  /\ bs = from /\ bs' = to
  /\ masks' = [masks EXCEPT ![field] = used[field]]
  /\ UNCHANGED <<disk, super_clean, clean, used, blob, deleted, acked, changes, crashes>>

RecoverWrites ==
  \/ MaskWritten("recover_md", "md", "recover_ids")
  \/ MaskWritten("recover_ids", "ids", "recover_clusters")
  \/ MaskWritten("recover_clusters", "clusters", "loaded")

UnloadWrites ==
  \/ MaskWritten("unload_md", "md", "unload_ids")
  \/ MaskWritten("unload_ids", "ids", "unload_clusters")
  \/ MaskWritten("unload_clusters", "clusters", "unload_super")

NoMasks == [md |-> {}, ids |-> {}, clusters |-> {}]

bs_unload_write_super_cpl ==
  /\ bs = "unload_super" /\ bs' = "unloaded"
  /\ super_clean' = TRUE
  /\ used' = NoMasks /\ clean' = TRUE
  /\ UNCHANGED <<disk, masks, blob, deleted, acked, changes, crashes>>

(* The power fails: the memory and the writes not yet on disk are lost. *)
Crash ==
  /\ bs \notin {"unloaded", "failed"} /\ crashes < MaxCrashes
  /\ crashes' = crashes + 1
  /\ bs' = "unloaded" /\ clean' = TRUE /\ used' = NoMasks
  /\ blob' = [b \in MdPages |-> NoBlob] /\ deleted' = {}
  /\ UNCHANGED <<disk, super_clean, masks, acked, changes>>

-----------------------------------------------------------------------------
Init ==
  /\ disk = [p \in MdPages |-> ZeroPage]
  /\ super_clean = TRUE /\ masks = NoMasks
  /\ bs = "unloaded" /\ clean = TRUE /\ used = NoMasks
  /\ blob = [b \in MdPages |-> NoBlob] /\ deleted = {}
  /\ acked = [b \in MdPages |-> Unknown]
  /\ changes = 0 /\ crashes = 0

Calls(b) ==
  \/ bs_open_blob(b) \/ spdk_blob_sync_md(b) \/ spdk_blob_close(b) \/ bs_delete_blob_finish(b)
  \/ \E big \in BOOLEAN : blob_set_xattr(b, big)
  \/ \E sz \in 0 .. NClusters : spdk_blob_resize(b, sz)

Completions(b) ==
  \/ bs_mark_dirty_write_cpl(b) \/ ExtentPageWritten(b) \/ ChainWritten(b) \/ RootWritten(b)
  \/ OldPageZeroed(b) \/ ClustersCleared(b) \/ ExtentPageZeroed(b)

Next ==
  \/ \E opts \in Opts : bs_create_blob(opts)
  \/ \E b \in MdPages : Calls(b) \/ Completions(b)
  \/ \E r \in deleted : DeletedClustersCleared(r) \/ DeletedExtentZeroed(r)
  \/ spdk_bs_load \/ RecoverWrites
  \/ spdk_bs_unload \/ UnloadWrites \/ bs_unload_write_super_cpl
  \/ Crash

Spec == Init /\ [][Next]_vars

-----------------------------------------------------------------------------
(***************************************************************************)
(* Type correctness; and the bit arrays list whatever the lists of a blob  *)
(* in memory name, spare clusters and extent pages included.               *)
(***************************************************************************)
TypeOK ==
  /\ {super_clean, clean} \subseteq BOOLEAN
  /\ changes \in 0 .. MaxChanges /\ crashes \in 0 .. MaxCrashes
  /\ {masks.md, masks.ids, used.md, used.ids} \subseteq SUBSET MdPages
  /\ {masks.clusters, used.clusters} \subseteq SUBSET Clusters
  /\ acked \in [MdPages -> Doomed .. MaxChanges]
  /\ \A b \in MdPages : InMemory(b) =>
       /\ blob[b].num <= Len(blob[b].cl) /\ blob[b].nep <= Len(blob[b].ep)
       /\ ToSet(blob[b].cl) \subseteq used.clusters
       /\ ToSet(blob[b].ep) \cup blob[b].pages \cup {b} \subseteq used.md
  /\ \A r \in deleted :
       /\ ToSet(r.ep) \subseteq used.md
       /\ r.io = "clusters" => ToSet(r.cl) \subseteq used.clusters

(* What is on disk of a blob whose chain is whole. *)
Whole == {b \in MdPages : Loads(b)}
PagesOnDisk(b) ==
  ({b, disk[b].next} \ {NoPage}) \cup ToSet(LastPage(b).body.ep)
ClustersOnDisk(b) ==
  LET extents == {p \in ToSet(LastPage(b).body.ep) : disk[p].kind = "extent"}
  IN  ToSet(LastPage(b).body.cl) \cup UNION {ToSet(disk[p].cl) : p \in extents}
Cover(m) ==
  \A b \in Whole : PagesOnDisk(b) \subseteq m.md /\ ClustersOnDisk(b) \subseteq m.clusters

(***************************************************************************)
(* What is referenced on disk is never free in memory: bs_allocate_cluster *)
(* and blob_persist_generate_new_md cannot hand out a cluster or a page    *)
(* that a crash would give back to its old owner.                          *)
(***************************************************************************)
InUseCovered == Loaded => Cover(used)

(***************************************************************************)
(* When the super block says clean, the masks on disk list everything the  *)
(* chains reference: spdk_bs_load may trust them (bs_mark_dirty comes      *)
(* before the first change, bs_unload_write_used_md before the mark).      *)
(***************************************************************************)
CleanMasksCover == super_clean => Cover(masks) /\ Whole \subseteq masks.ids

(*****************************************************************************)
(* Nothing that is in use, in memory or on disk, passes for free.          *)
(*****************************************************************************)
MasksCover == TypeOK /\ InUseCovered /\ CleanMasksCover

(***************************************************************************)
(* No page and no cluster belongs to two blobs on disk, whichever writes   *)
(* of whichever persists have been done when the power fails.              *)
(***************************************************************************)
OwnedOnce ==
  \A b, c \in Whole : b # c =>
    /\ PagesOnDisk(b) \cap PagesOnDisk(c) = {}
    /\ ClustersOnDisk(b) \cap ClustersOnDisk(c) = {}

(***************************************************************************)
(* What spdk_blob_sync_md has acknowledged is on disk, or something newer, *)
(* until the blob is deleted, through any crashes.                         *)
(***************************************************************************)
SyncedSurvives ==
  \A b \in MdPages : acked[b] >= 0 => b \in Whole /\ disk[b].ver >= acked[b]

(***************************************************************************)
(* A root on disk leads to its own chain: blob_persist_write_page_chain    *)
(* comes before the root and blob_persist_zero_pages after it.  Only a     *)
(* delete that was cut off leaves a root with a broken chain.              *)
(***************************************************************************)
RootsWhole == \A b \in Roots : b \in Whole \/ acked[b] = Doomed

(***************************************************************************)
(* The extent pages a chain names are extent pages of that blob, each with *)
(* its own part of the clusters, though they are written in place.         *)
(***************************************************************************)
ExtentsOwned ==
  \A b \in Whole : LET ep == LastPage(b).body.ep IN
    \A i \in DOMAIN ep :
      /\ disk[ep[i]].kind = "extent" /\ disk[ep[i]].id = b
      /\ disk[ep[i]].start = (i - 1) * ExtentsPerEp
      /\ \A j \in DOMAIN ep : i # j => ToSet(disk[ep[i]].cl) \cap ToSet(disk[ep[j]].cl) = {}

(*****************************************************************************)
(* What replay and spdk_bs_open_blob may find on disk after a crash at any *)
(* point.                                                                  *)
(*****************************************************************************)
DiskSound == OwnedOnce /\ RootsWhole /\ ExtentsOwned /\ SyncedSurvives

(***************************************************************************)
(* bs_load_replay_extent_page_cpl refuses to load only what a crash in the *)
(* middle of a shrink left: an extent page that is empty is newer than its *)
(* root.                                                                   *)
(***************************************************************************)
Emptied(p) == disk[p].kind = "extent" /\ disk[p].cl = <<>>
LoadFailsOnlyInShrink ==
  /\ \A b \in Whole : \A p \in ToSet(LastPage(b).body.ep) :
       Emptied(p) => disk[p].ver > disk[b].ver
  /\ bs = "failed" => \E b \in Whole : \E p \in ToSet(LastPage(b).body.ep) : Emptied(p)

(***************************************************************************)
(* blob_persist_zero_pages, blob_persist_clear_clusters and                *)
(* blob_persist_clear_extents erase nothing that the chain of any blob     *)
(* still references, except that of the blob being deleted.                *)
(***************************************************************************)
ErasesNothingOf(r, c) ==
  /\ r.io \in {"zero", "extents"} => r.left \cap PagesOnDisk(c) = {}
  /\ r.io = "clusters" => ItemsAfter(r.cl, r.num) \cap ClustersOnDisk(c) = {}
ErasedUnreferenced ==
  \A c \in Whole :
    /\ \A b \in MdPages : InMemory(b) /\ ~(b = c /\ blob[b].st = "deleting") =>
         ErasesNothingOf(blob[b], c)
    /\ \A r \in deleted : ErasesNothingOf(r, c)

(***************************************************************************)
(* The refinement: what a blob holds in memory, in the persist under way,  *)
(* and on disk.                                                            *)
(***************************************************************************)
Content(v, body) == [ver |-> v, body |-> body]
None == Content(Unknown, NoBody)
Gone == Content(Doomed, NoBody)

InMemoryContent(b) ==
  IF ~InMemory(b) THEN None
  ELSE IF blob[b].st = "deleting" THEN Gone
  ELSE Content(blob[b].ver, blob_serialize(blob[b]))
StagedContent(b) ==
  LET r == blob[b]
  IN  IF InMemory(b) /\ r.io \in {"chain", "root"}
      THEN Content(r.root.ver, IF r.root.next = NoPage THEN r.root.body ELSE r.chain.body)
      ELSE None
DurableContent(b) == IF Loads(b) THEN Content(disk[b].ver, LastPage(b).body) ELSE None

Durable == INSTANCE DurableBlobs WITH
  Ids <- MdPages,
  memory <- [b \in MdPages |-> InMemoryContent(b)],
  staged <- [b \in MdPages |-> StagedContent(b)],
  durable <- [b \in MdPages |-> DurableContent(b)]

(***************************************************************************)
(* The write of the root is the point at which a persist takes effect, as  *)
(* a whole: extent list, chain and version change together, everything     *)
(* else (extent pages, zeroing, masks, replay) leaves them alone.          *)
(***************************************************************************)
ImplementsDurableBlobs == Durable!Spec
=============================================================================
