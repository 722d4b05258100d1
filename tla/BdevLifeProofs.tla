--------------------------- MODULE BdevLifeProofs ---------------------------
(***************************************************************************)
(* Proofs about BdevLife, for any number of descriptors, resets, locked    *)
(* ranges, keys and events.                                                *)
(***************************************************************************)
EXTENDS BdevLife, FiniteSetTheorems, SequenceTheorems, TLAPS

-----------------------------------------------------------------------------
(* The inductive invariant. *)

Unlocked == {l \in Locks : lock[l] = "done"}
WalkToCome == IF status \in {"none", "ready"} \/ walk THEN 1 ELSE 0

(* The removal is announced once for the walk and once for each message of an
   unlocked range, which bounds the events in flight. *)
Announcements ==
  /\ walk => status \notin {"none", "ready"}
  /\ msgs <= Cardinality(Unlocked)
  /\ \A d \in Descs : refs[d] + msgs + WalkToCome <= MaxEvents + Cardinality(Unlocked) + 1

(* A bdev leaves the list with its last descriptor, and only then its io_device
   may go. *)
Removal ==
  /\ status = "removing" /\ open_descs = {} => ~listed
  /\ unregistered > 0 => status \in {"removing", "gone"} /\ open_descs = {} /\ ~listed

(* A write-one claim has at most one holder; without a claim of the second
   manner there is none. *)
Holders ==
  /\ claim_type = "write_one" => writable \subseteq claims /\ \A c, d \in claims : c = d
  /\ claim_type = "write_none" => writable = {}
  /\ claim_type = "write_shared" => writable \subseteq claims

(* What TypeOK says apart from the bounds. *)
Basic ==
  /\ status \in {"none", "ready", "unregistering", "removing", "gone"}
  /\ listed \in BOOLEAN
  /\ desc \in [Descs -> {"free", "open", "closed"}]
  /\ refs \in [Descs -> Nat]
  /\ events \in [Descs -> Seq({"remove", "resize"})]
  /\ told \subseteq Descs /\ writable \subseteq {d \in Descs : desc[d] = "open"}
  /\ claim_type \in ClaimType
  /\ claims \subseteq {d \in Descs : desc[d] = "open"} /\ dead \in BOOLEAN
  /\ key \in Keys \cup {NoKey}
  /\ examine \in {"no", "now", "done"}
  /\ reset \in [Resets -> {"idle", "running", "done"}]
  /\ lock \in [Locks -> {"idle", "locked", "unlocking", "done"}]
  /\ walk \in BOOLEAN /\ msgs \in Nat /\ unregistered \in 0 .. 2

IndInv ==
  Basic /\ FreedAfterEvents /\ Announcements /\ Removal /\ Holders /\ ClaimedWhileListed

(* The number of unlocked ranges is at most that of all ranges. *)
LEMMA UnlockedFinite ==
  Basic => IsFiniteSet(Unlocked) /\ Cardinality(Unlocked) \in Nat
             /\ Cardinality(Unlocked) <= Cardinality(Locks) /\ Cardinality(Locks) \in Nat
  BY LocksAssumption, FS_Subset, FS_CardinalityType DEF Basic, Unlocked

(* Putting an event on the way to a descriptor. *)
LEMMA AppendEvent ==
  ASSUME NEW S, NEW s \in Seq(S), NEW e \in S
  PROVE  Append(s, e) \in Seq(S) /\ Append(s, e) # << >> /\ Len(Append(s, e)) = Len(s) + 1
  <1>1. Append(s, e) \in Seq(S) /\ Len(Append(s, e)) = Len(s) + 1 /\ Len(s) \in Nat
    BY AppendProperties, LenProperties
  <1> QED
    BY <1>1, EmptySeq

(* Taking an event off. *)
LEMMA TailEvent ==
  ASSUME NEW S, NEW s \in Seq(S), s # << >>
  PROVE  /\ Tail(s) \in Seq(S) /\ Len(s) \in Nat \ {0} /\ Len(Tail(s)) = Len(s) - 1
         /\ Len(s) = 1 <=> Tail(s) = << >>
  <1>1. Tail(s) \in Seq(S) /\ Len(Tail(s)) = Len(s) - 1 /\ Len(s) \in Nat
    BY HeadTailProperties, LenProperties
  <1>2. Len(s) # 0
    BY EmptySeq
  <1>3. Tail(s) = << >> <=> Len(Tail(s)) = 0
    BY <1>1, EmptySeq
  <1> QED
    BY <1>1, <1>2, <1>3

(* Announcing an event preserves the types and the count of references. *)
LEMMA NotifyEffect ==
  ASSUME IndInv, NEW kind \in {"remove", "resize"}, event_notify(kind), desc' = desc
  PROVE  /\ refs' \in [Descs -> Nat] /\ events' \in [Descs -> Seq({"remove", "resize"})]
         /\ \A d \in Descs : refs'[d] = IF d \in open_descs THEN refs[d] + 1 ELSE refs[d]
         /\ FreedAfterEvents'
  <1>1. \A d \in Descs : /\ Append(events[d], kind) \in Seq({"remove", "resize"})
                         /\ Append(events[d], kind) # << >>
                         /\ Len(Append(events[d], kind)) = Len(events[d]) + 1
    BY AppendEvent DEF IndInv, Basic
  <1>2. /\ refs' = [d \in Descs |-> IF d \in open_descs THEN refs[d] + 1 ELSE refs[d]]
        /\ events' = [d \in Descs |->
                        IF d \in open_descs THEN Append(events[d], kind) ELSE events[d]]
    BY DEF event_notify
  <1>3. refs' \in [Descs -> Nat] /\ events' \in [Descs -> Seq({"remove", "resize"})]
    BY <1>1, <1>2 DEF IndInv, Basic
  <1>4. \A d \in Descs :
          /\ refs'[d] = IF d \in open_descs THEN refs[d] + 1 ELSE refs[d]
          /\ events'[d] = IF d \in open_descs THEN Append(events[d], kind) ELSE events[d]
    BY <1>2
  <1>5. FreedAfterEvents'
    BY <1>1, <1>4 DEF IndInv, FreedAfterEvents, open_descs
  <1> QED
    BY <1>3, <1>4, <1>5

(* The last part of an unregistration: with open descriptors nothing happens yet. *)
LEMMA UnsafeEffect ==
  ASSUME Basic, NEW open, bdev_unregister_unsafe(open)
  PROVE  /\ listed' \in BOOLEAN /\ unregistered' \in 0 .. 2
         /\ open # {} => listed' = listed /\ unregistered' = unregistered
         /\ open = {} => ~listed'
  <1>1. unregistered' \in 0 .. 2
    BY DEF bdev_unregister_unsafe, spdk_io_device_unregister, Basic
  <1>2. listed' = listed \/ listed' = FALSE
    BY DEF bdev_unregister_unsafe
  <1> QED
    BY <1>1, <1>2 DEF bdev_unregister_unsafe, Basic

(* The arithmetic of an event that the walk or a message pays for. *)
LEMMA PaidFor ==
  ASSUME NEW r \in Nat, NEW n \in Nat, NEW m \in Nat, NEW w \in {0, 1}, NEW w1 \in {0, 1},
         m + w + 1 <= n + w1, NEW r1, r1 = r + 1 \/ r1 = r
  PROVE  r1 + m + w <= r + n + w1
  OBVIOUS

(* While no range is unlocked, an event more is paid for by the walk, by a message
   or by the bound on resizes. *)
LEMMA AnnouncementsKept ==
  ASSUME IndInv, Basic', lock' = lock, msgs' <= msgs,
         walk' => status' \notin {"none", "ready"},
         \A d \in Descs : \/ refs'[d] + msgs' + WalkToCome' <= refs[d] + msgs + WalkToCome
                          \/ refs'[d] <= MaxEvents
  PROVE  Announcements'
  <1> DEFINE n == Cardinality(Unlocked)
  <1>1. Unlocked' = Unlocked
    BY DEF Unlocked
  <1>2. n \in Nat /\ msgs <= n /\ msgs \in Nat /\ msgs' \in Nat /\ WalkToCome' \in {0, 1}
        /\ WalkToCome \in {0, 1} /\ MaxEvents \in Nat
    BY UnlockedFinite, MaxEventsAssumption DEF IndInv, Announcements, Basic, WalkToCome
  <1>3. \A d \in Descs : refs[d] \in Nat /\ refs'[d] \in Nat
                           /\ refs[d] + msgs + WalkToCome <= MaxEvents + n + 1
    BY DEF IndInv, Announcements, Basic
  <1> HIDE DEF n
  <1>4. \A d \in Descs : refs'[d] + msgs' + WalkToCome' <= MaxEvents + n + 1
    BY <1>2, <1>3
  <1> QED
    BY <1>1, <1>2, <1>4 DEF Announcements, n

(* Registration opens the descriptor of the examination. *)
LEMMA RegisterInd ==
  ASSUME IndInv, spdk_bdev_register
  PROVE  IndInv'
  <1> USE DEF IndInv, Basic, spdk_bdev_register, descs, claiming, removal, open_descs
  <1>1. FreedAfterEvents'
    BY DEF FreedAfterEvents
  <1>2. Announcements'
    BY UnlockedFinite, MaxEventsAssumption DEF Announcements, Unlocked, WalkToCome
  <1>3. Removal'
    BY DEF Removal
  <1>4. Holders' /\ ClaimedWhileListed'
    BY DEF Holders, ClaimedWhileListed, V2, ClaimType
  <1>5. Basic'
    BY DEF Basic, V2, ClaimType
  <1> QED
    BY <1>1, <1>2, <1>3, <1>4, <1>5

(* spdk_bdev_unregister starts its walk. *)
LEMMA UnregisterInd ==
  ASSUME IndInv, spdk_bdev_unregister
  PROVE  IndInv'
  <1> USE DEF IndInv, Basic, spdk_bdev_unregister, descs, claiming, removal, open_descs
  <1>1. FreedAfterEvents'
    BY DEF FreedAfterEvents
  <1>2. Announcements'
    BY UnlockedFinite, MaxEventsAssumption DEF Announcements, Unlocked, WalkToCome
  <1>3. Removal'
    BY DEF Removal
  <1>4. Holders' /\ ClaimedWhileListed'
    BY DEF Holders, ClaimedWhileListed, V2, ClaimType
  <1>5. Basic'
    BY DEF Basic, V2, ClaimType
  <1> QED
    BY <1>1, <1>2, <1>3, <1>4, <1>5

(* The walk is over: the removal is announced, or a locked range holds it up. *)
LEMMA WalkDoneInd ==
  ASSUME IndInv, bdev_unregister_walk_done
  PROVE  IndInv'
  <1> USE DEF bdev_unregister_walk_done, OnAppThread, claiming
  <1> DEFINE held_up == locked_ranges # {}
  <1>1. CASE held_up
    <2>1. UNCHANGED <<status, listed, refs, events, unregistered>>
      BY <1>1 DEF bdev_unregister
    <2>2. Basic' /\ FreedAfterEvents' /\ Removal' /\ Holders' /\ ClaimedWhileListed'
      BY <2>1 DEF IndInv, Basic, FreedAfterEvents, Removal, Holders, ClaimedWhileListed,
                  open_descs
    <2>3. Announcements'
      <3>1. msgs \in Nat /\ msgs' \in Nat /\ WalkToCome \in {0, 1} /\ WalkToCome' \in {0, 1}
            /\ WalkToCome' <= WalkToCome /\ msgs' <= msgs
            /\ (walk' => status' \notin {"none", "ready"})
        BY <2>1 DEF IndInv, Basic, Announcements, WalkToCome
      <3> QED
        BY <2>1, <2>2, <3>1, AnnouncementsKept DEF IndInv, Basic
    <2> QED
      BY <2>2, <2>3 DEF IndInv
  <1>2. CASE ~ held_up
    <2>1. /\ status' = "removing" /\ event_notify("remove") /\ desc' = desc
          /\ bdev_unregister_unsafe(open_descs)
      BY <1>2 DEF bdev_unregister
    <2>2. /\ refs' \in [Descs -> Nat] /\ events' \in [Descs -> Seq({"remove", "resize"})]
          /\ FreedAfterEvents'
          /\ \A d \in Descs : refs'[d] = IF d \in open_descs THEN refs[d] + 1 ELSE refs[d]
      BY <2>1, NotifyEffect
    <2>3. /\ listed' \in BOOLEAN /\ unregistered' \in 0 .. 2
          /\ open_descs # {} => listed' = listed /\ unregistered' = unregistered
          /\ open_descs = {} => ~listed'
      BY <2>1, UnsafeEffect DEF IndInv
    <2>4. Basic'
      BY <2>1, <2>2, <2>3 DEF IndInv, Basic
    <2>5. Removal'
      BY <2>1, <2>3 DEF IndInv, Removal, open_descs, Basic
    <2>6. Holders' /\ ClaimedWhileListed'
      BY DEF IndInv, Holders, ClaimedWhileListed
    <2>7. Announcements'
      <3>1. msgs \in Nat /\ WalkToCome \in {0, 1} /\ WalkToCome' \in {0, 1}
            /\ msgs' + WalkToCome' + 1 <= msgs + WalkToCome /\ msgs' <= msgs
            /\ (walk' => status' \notin {"none", "ready"})
        BY <2>1 DEF IndInv, Basic, Announcements, WalkToCome
      <3>2. \A d \in Descs : refs'[d] + msgs' + WalkToCome' <= refs[d] + msgs + WalkToCome
        <4>1. refs \in [Descs -> Nat] /\ msgs' \in Nat
          BY <2>4 DEF IndInv, Basic
        <4>2. \A d \in Descs : refs[d] \in Nat /\ (refs'[d] = refs[d] + 1 \/ refs'[d] = refs[d])
          BY <2>2, <4>1
        <4> TAKE d \in Descs
        <4> QED
          BY <3>1, <4>1, <4>2, PaidFor
      <3> QED
        BY <2>4, <3>1, <3>2, AnnouncementsKept
    <2> QED
      BY <2>2, <2>4, <2>5, <2>6, <2>7 DEF IndInv
  <1> QED
    BY <1>1, <1>2

(* A range was unlocked: the removal is announced, or another range holds it up. *)
LEMMA MessageInd ==
  ASSUME IndInv, _bdev_unregister
  PROVE  IndInv'
  <1> USE DEF _bdev_unregister, OnAppThread, claiming
  <1> DEFINE held_up == locked_ranges # {}
  <1>1. CASE held_up
    <2>1. UNCHANGED <<status, listed, refs, events, unregistered>>
      BY <1>1 DEF bdev_unregister
    <2>2. Basic' /\ FreedAfterEvents' /\ Removal' /\ Holders' /\ ClaimedWhileListed'
      BY <2>1 DEF IndInv, Basic, FreedAfterEvents, Removal, Holders, ClaimedWhileListed,
                  open_descs
    <2>3. Announcements'
      <3>1. msgs \in Nat /\ msgs' \in Nat /\ WalkToCome \in {0, 1} /\ WalkToCome' \in {0, 1}
            /\ WalkToCome' <= WalkToCome /\ msgs' <= msgs
            /\ (walk' => status' \notin {"none", "ready"})
        BY <2>1 DEF IndInv, Basic, Announcements, WalkToCome
      <3> QED
        BY <2>1, <2>2, <3>1, AnnouncementsKept DEF IndInv, Basic
    <2> QED
      BY <2>2, <2>3 DEF IndInv
  <1>2. CASE ~ held_up
    <2>1. /\ status' = "removing" /\ event_notify("remove") /\ desc' = desc
          /\ bdev_unregister_unsafe(open_descs)
      BY <1>2 DEF bdev_unregister
    <2>2. /\ refs' \in [Descs -> Nat] /\ events' \in [Descs -> Seq({"remove", "resize"})]
          /\ FreedAfterEvents'
          /\ \A d \in Descs : refs'[d] = IF d \in open_descs THEN refs[d] + 1 ELSE refs[d]
      BY <2>1, NotifyEffect
    <2>3. /\ listed' \in BOOLEAN /\ unregistered' \in 0 .. 2
          /\ open_descs # {} => listed' = listed /\ unregistered' = unregistered
          /\ open_descs = {} => ~listed'
      BY <2>1, UnsafeEffect DEF IndInv
    <2>4. Basic'
      BY <2>1, <2>2, <2>3 DEF IndInv, Basic
    <2>5. Removal'
      BY <2>1, <2>3 DEF IndInv, Removal, open_descs, Basic
    <2>6. Holders' /\ ClaimedWhileListed'
      BY DEF IndInv, Holders, ClaimedWhileListed
    <2>7. Announcements'
      <3>1. msgs \in Nat /\ WalkToCome \in {0, 1} /\ WalkToCome' \in {0, 1}
            /\ msgs' + WalkToCome' + 1 <= msgs + WalkToCome /\ msgs' <= msgs
            /\ (walk' => status' \notin {"none", "ready"})
        BY <2>1 DEF IndInv, Basic, Announcements, WalkToCome
      <3>2. \A d \in Descs : refs'[d] + msgs' + WalkToCome' <= refs[d] + msgs + WalkToCome
        <4>1. refs \in [Descs -> Nat] /\ msgs' \in Nat
          BY <2>4 DEF IndInv, Basic
        <4>2. \A d \in Descs : refs[d] \in Nat /\ (refs'[d] = refs[d] + 1 \/ refs'[d] = refs[d])
          BY <2>2, <4>1
        <4> TAKE d \in Descs
        <4> QED
          BY <3>1, <4>1, <4>2, PaidFor
      <3> QED
        BY <2>4, <3>1, <3>2, AnnouncementsKept
    <2> QED
      BY <2>2, <2>4, <2>5, <2>6, <2>7 DEF IndInv
  <1> QED
    BY <1>1, <1>2

(* The io_device is gone. *)
LEMMA DestroyInd ==
  ASSUME IndInv, bdev_destroy_cb
  PROVE  IndInv'
  <1> USE DEF IndInv, bdev_destroy_cb, OnAppThread, descs, claiming, removal
  <1>1. Basic' /\ FreedAfterEvents' /\ Removal' /\ Holders' /\ ClaimedWhileListed'
    BY DEF Basic, FreedAfterEvents, Removal, Holders, ClaimedWhileListed, open_descs
  <1>2. Announcements'
    <2>1. /\ msgs \in Nat /\ WalkToCome \in {0, 1} /\ WalkToCome' \in {0, 1}
          /\ WalkToCome' <= WalkToCome
      BY DEF Basic, WalkToCome, Announcements
    <2> QED
      BY <1>1, <2>1, AnnouncementsKept DEF Basic
  <1> QED
    BY <1>1, <1>2

(* A descriptor is opened. *)
LEMMA OpenInd ==
  ASSUME IndInv, NEW d \in Descs, NEW write \in BOOLEAN, bdev_open(d, write)
  PROVE  IndInv'
  <1> USE DEF IndInv, Basic, bdev_open, descs, claiming, removal, open_descs
  <1>1. FreedAfterEvents'
    BY DEF FreedAfterEvents
  <1>2. Announcements'
    BY UnlockedFinite, MaxEventsAssumption DEF Announcements, Unlocked, WalkToCome
  <1>3. Removal'
    BY DEF Removal
  <1>4. Holders' /\ ClaimedWhileListed'
    BY DEF Holders, ClaimedWhileListed, V2, ClaimType
  <1>5. Basic'
    BY DEF Basic, V2, ClaimType
  <1> QED
    BY <1>1, <1>2, <1>3, <1>4, <1>5

(* A descriptor is closed, and gives up its claim; the last one takes the bdev off the list. *)
LEMMA CloseInd ==
  ASSUME IndInv, NEW d \in Descs, Close(d)
  PROVE  IndInv'
  <1> USE DEF IndInv, Basic, Close, bdev_desc_release_claims, bdev_unregister_unsafe,
              spdk_io_device_unregister, FreedNow, descs, claiming, removal, open_descs
  <1>1. FreedAfterEvents'
    BY DEF FreedAfterEvents
  <1>2. Announcements'
    BY UnlockedFinite, MaxEventsAssumption DEF Announcements, Unlocked, WalkToCome
  <1>3. Removal'
    BY DEF Removal
  <1>4. Holders' /\ ClaimedWhileListed'
    BY DEF Holders, ClaimedWhileListed, V2, ClaimType
  <1>5. Basic'
    <2>1. /\ desc' \in [Descs -> {"free", "open", "closed"}]
          /\ \A c \in Descs : c # d => desc'[c] = desc[c]
      OBVIOUS
    <2>2. writable' \subseteq writable \ {d} /\ claims' \subseteq claims \ {d}
      OBVIOUS
    <2>3. /\ writable' \subseteq {c \in Descs : desc'[c] = "open"}
          /\ claims' \subseteq {c \in Descs : desc'[c] = "open"}
      BY <2>1, <2>2
    <2>4. claim_type' \in ClaimType /\ key' \in Keys \cup {NoKey} /\ dead' \in BOOLEAN
      BY DEF ClaimType
    <2>5. told' \subseteq Descs
      OBVIOUS
    <2>6. listed' \in BOOLEAN /\ unregistered' \in 0 .. 2
      <3>1. (bdev_unregister_unsafe({}) \/ UNCHANGED <<listed, unregistered>>)
        BY DEF Close
      <3> QED
        BY <3>1, UnsafeEffect
    <2> QED
      BY <2>1, <2>3, <2>4, <2>5, <2>6 DEF Basic
  <1> QED
    BY <1>1, <1>2, <1>3, <1>4, <1>5

(* The message of an event runs; the last one frees a closed descriptor. *)
LEMMA EventInd ==
  ASSUME IndInv, NEW d \in Descs, _event_notify(d)
  PROVE  IndInv'
  <1> USE DEF _event_notify, claiming, removal
  <1>1. /\ refs[d] = Len(events[d]) /\ events[d] \in Seq({"remove", "resize"})
        /\ events[d] # << >>
    BY DEF IndInv, FreedAfterEvents, Basic
  <1>2. /\ refs[d] \in Nat \ {0}
        /\ Tail(events[d]) \in Seq({"remove", "resize"})
        /\ Len(Tail(events[d])) = refs[d] - 1 /\ (refs[d] = 1 <=> Tail(events[d]) = << >>)
    BY <1>1, TailEvent
  <1>3. /\ refs'[d] = refs[d] - 1 /\ events'[d] = Tail(events[d])
        /\ desc'[d] = IF desc[d] = "closed" /\ refs[d] = 1 THEN "free" ELSE desc[d]
        /\ \A c \in Descs : c # d => /\ desc'[c] = desc[c] /\ refs'[c] = refs[c]
                                      /\ events'[c] = events[c]
    BY DEF IndInv, Basic
  <1>4. /\ desc' \in [Descs -> {"free", "open", "closed"}] /\ refs' \in [Descs -> Nat]
        /\ events' \in [Descs -> Seq({"remove", "resize"})]
    BY <1>2 DEF IndInv, Basic
  <1>5. {c \in Descs : desc'[c] = "open"} = {c \in Descs : desc[c] = "open"}
    BY <1>3
  <1>6. Basic'
    BY <1>4, <1>5 DEF IndInv, Basic
  <1>7. FreedAfterEvents'
    <2>1. \A c \in Descs : /\ refs[c] = Len(events[c])
                           /\ desc[c] = "free" => events[c] = << >>
                           /\ desc[c] = "closed" => events[c] # << >>
      BY DEF IndInv, FreedAfterEvents
    <2>2. /\ refs'[d] = Len(events'[d])
          /\ desc'[d] = "free" => events'[d] = << >>
          /\ desc'[d] = "closed" => events'[d] # << >>
      BY <1>1, <1>2, <1>3, <2>1
    <2> QED
      BY <1>3, <2>1, <2>2 DEF FreedAfterEvents
  <1>8. Removal' /\ Holders' /\ ClaimedWhileListed'
    BY <1>5 DEF IndInv, Removal, Holders, ClaimedWhileListed, open_descs
  <1>9. Announcements'
    <2>1. msgs \in Nat /\ WalkToCome \in {0, 1} /\ WalkToCome' = WalkToCome
      BY DEF IndInv, Basic, WalkToCome
    <2>2. \A c \in Descs : refs'[c] + msgs' + WalkToCome' <= refs[c] + msgs + WalkToCome
      BY <1>2, <1>3, <2>1 DEF IndInv, Basic
    <2> QED
      BY <1>6, <2>1, <2>2, AnnouncementsKept DEF IndInv, Announcements
  <1> QED
    BY <1>6, <1>7, <1>8, <1>9 DEF IndInv

(* A resize is announced. *)
LEMMA ResizeInd ==
  ASSUME IndInv, spdk_bdev_notify_blockcnt_change
  PROVE  IndInv'
  <1> USE DEF spdk_bdev_notify_blockcnt_change, claiming, removal
  <1>1. /\ refs' \in [Descs -> Nat] /\ events' \in [Descs -> Seq({"remove", "resize"})]
        /\ \A d \in Descs : refs'[d] = IF d \in open_descs THEN refs[d] + 1 ELSE refs[d]
        /\ FreedAfterEvents'
    BY NotifyEffect
  <1>2. Basic' /\ Removal' /\ Holders' /\ ClaimedWhileListed'
    BY <1>1 DEF IndInv, Basic, Removal, Holders, ClaimedWhileListed, open_descs
  <1>3. Announcements'
    <2>1. msgs \in Nat /\ WalkToCome \in {0, 1} /\ WalkToCome' = WalkToCome
      BY DEF IndInv, Basic, WalkToCome
    <2>2. \A d \in Descs : \/ refs'[d] + msgs' + WalkToCome' <= refs[d] + msgs + WalkToCome
                           \/ refs'[d] <= MaxEvents
      <3> TAKE d \in Descs
      <3>1. CASE d \in open_descs
        BY <1>1, <3>1, MaxEventsAssumption DEF IndInv, Basic
      <3>2. CASE d \notin open_descs
        BY <1>1, <2>1, <3>2 DEF IndInv, Basic, removal
      <3> QED
        BY <3>1, <3>2
    <2> QED
      BY <1>2, <2>1, <2>2, AnnouncementsKept DEF IndInv, Announcements
  <1> QED
    BY <1>1, <1>2, <1>3 DEF IndInv

(* The bdev is claimed in the first manner. *)
LEMMA ClaimInd ==
  ASSUME IndInv, NEW d \in Descs, spdk_bdev_module_claim_bdev(d)
  PROVE  IndInv'
  <1> USE DEF IndInv, Basic, spdk_bdev_module_claim_bdev, descs, claiming, removal, open_descs
  <1>1. FreedAfterEvents'
    BY DEF FreedAfterEvents
  <1>2. Announcements'
    BY UnlockedFinite, MaxEventsAssumption DEF Announcements, Unlocked, WalkToCome
  <1>3. Removal'
    BY DEF Removal
  <1>4. Holders' /\ ClaimedWhileListed'
    BY DEF Holders, ClaimedWhileListed, V2, ClaimType
  <1>5. Basic'
    BY DEF Basic, V2, ClaimType
  <1> QED
    BY <1>1, <1>2, <1>3, <1>4, <1>5

(* A claim of the first manner is released. *)
LEMMA ReleaseInd ==
  ASSUME IndInv, spdk_bdev_module_release_bdev
  PROVE  IndInv'
  <1> USE DEF IndInv, Basic, spdk_bdev_module_release_bdev, descs, claiming, removal, open_descs
  <1>1. FreedAfterEvents'
    BY DEF FreedAfterEvents
  <1>2. Announcements'
    BY UnlockedFinite, MaxEventsAssumption DEF Announcements, Unlocked, WalkToCome
  <1>3. Removal'
    BY DEF Removal
  <1>4. Holders' /\ ClaimedWhileListed'
    BY DEF Holders, ClaimedWhileListed, V2, ClaimType
  <1>5. Basic'
    BY DEF Basic, V2, ClaimType
  <1> QED
    BY <1>1, <1>2, <1>3, <1>4, <1>5

(* The bdev is claimed in the second manner. *)
LEMMA ClaimDescInd ==
  ASSUME IndInv, NEW d \in Descs, NEW type \in V2, NEW k \in Keys \cup {NoKey},
         spdk_bdev_module_claim_bdev_desc(d, type, k)
  PROVE  IndInv'
  <1> USE DEF IndInv, Basic, spdk_bdev_module_claim_bdev_desc, claim_bdev, claim_verify_rwo,
              claim_verify_rom, claim_verify_rwm, descs, claiming, removal, open_descs
  <1>1. FreedAfterEvents'
    BY DEF FreedAfterEvents
  <1>2. Announcements'
    BY UnlockedFinite, MaxEventsAssumption DEF Announcements, Unlocked, WalkToCome
  <1>3. Removal'
    BY DEF Removal
  <1>4. Holders' /\ ClaimedWhileListed'
    BY DEF Holders, ClaimedWhileListed, V2, ClaimType
  <1>5. Basic'
    BY DEF Basic, V2, ClaimType
  <1> QED
    BY <1>1, <1>2, <1>3, <1>4, <1>5

(* An examination starts. *)
LEMMA ExamineStartInd ==
  ASSUME IndInv, bdev_examine_start
  PROVE  IndInv'
  <1> USE DEF IndInv, Basic, bdev_examine_start, descs, claiming, removal, open_descs
  <1>1. FreedAfterEvents'
    BY DEF FreedAfterEvents
  <1>2. Announcements'
    BY UnlockedFinite, MaxEventsAssumption DEF Announcements, Unlocked, WalkToCome
  <1>3. Removal'
    BY DEF Removal
  <1>4. Holders' /\ ClaimedWhileListed'
    BY DEF Holders, ClaimedWhileListed, V2, ClaimType
  <1>5. Basic'
    BY DEF Basic, V2, ClaimType
  <1> QED
    BY <1>1, <1>2, <1>3, <1>4, <1>5

(* An examination clears the dead claims away. *)
LEMMA ExamineEndInd ==
  ASSUME IndInv, bdev_examine_end
  PROVE  IndInv'
  <1> USE DEF IndInv, Basic, bdev_examine_end, descs, claiming, removal, open_descs
  <1>1. FreedAfterEvents'
    BY DEF FreedAfterEvents
  <1>2. Announcements'
    BY UnlockedFinite, MaxEventsAssumption DEF Announcements, Unlocked, WalkToCome
  <1>3. Removal'
    BY DEF Removal
  <1>4. Holders' /\ ClaimedWhileListed'
    BY DEF Holders, ClaimedWhileListed, V2, ClaimType
  <1>5. Basic'
    BY DEF Basic, V2, ClaimType
  <1> QED
    BY <1>1, <1>2, <1>3, <1>4, <1>5

(* A reset starts. *)
LEMMA ResetInd ==
  ASSUME IndInv, NEW r \in Resets, spdk_bdev_reset(r)
  PROVE  IndInv'
  <1> USE DEF IndInv, Basic, spdk_bdev_reset, descs, claiming, removal, open_descs
  <1>1. FreedAfterEvents'
    BY DEF FreedAfterEvents
  <1>2. Announcements'
    BY UnlockedFinite, MaxEventsAssumption DEF Announcements, Unlocked, WalkToCome
  <1>3. Removal'
    BY DEF Removal
  <1>4. Holders' /\ ClaimedWhileListed'
    BY DEF Holders, ClaimedWhileListed, V2, ClaimType
  <1>5. Basic'
    BY DEF Basic, V2, ClaimType
  <1> QED
    BY <1>1, <1>2, <1>3, <1>4, <1>5

(* A reset is no longer in progress. *)
LEMMA ResetCompleteInd ==
  ASSUME IndInv, NEW r \in Resets, bdev_reset_complete(r)
  PROVE  IndInv'
  <1> USE DEF IndInv, Basic, bdev_reset_complete, descs, claiming, removal, open_descs
  <1>1. FreedAfterEvents'
    BY DEF FreedAfterEvents
  <1>2. Announcements'
    BY UnlockedFinite, MaxEventsAssumption DEF Announcements, Unlocked, WalkToCome
  <1>3. Removal'
    BY DEF Removal
  <1>4. Holders' /\ ClaimedWhileListed'
    BY DEF Holders, ClaimedWhileListed, V2, ClaimType
  <1>5. Basic'
    BY DEF Basic, V2, ClaimType
  <1> QED
    BY <1>1, <1>2, <1>3, <1>4, <1>5

(* The end of a reset unregisters a bdev that was left without descriptors. *)
LEMMA ResetTailInd ==
  ASSUME IndInv, NEW r \in Resets, bdev_reset_complete_tail(r)
  PROVE  IndInv'
  <1> USE DEF IndInv, Basic, bdev_reset_complete_tail, spdk_io_device_unregister, descs, claiming,
              removal, open_descs
  <1>1. FreedAfterEvents'
    BY DEF FreedAfterEvents
  <1>2. Announcements'
    BY UnlockedFinite, MaxEventsAssumption DEF Announcements, Unlocked, WalkToCome
  <1>3. Removal'
    BY DEF Removal
  <1>4. Holders' /\ ClaimedWhileListed'
    BY DEF Holders, ClaimedWhileListed, V2, ClaimType
  <1>5. Basic'
    BY DEF Basic, V2, ClaimType
  <1> QED
    BY <1>1, <1>2, <1>3, <1>4, <1>5

(* A range is locked. *)
LEMMA QuiesceInd ==
  ASSUME IndInv, NEW l \in Locks, spdk_bdev_quiesce(l)
  PROVE  IndInv'
  <1> USE DEF IndInv, Basic, spdk_bdev_quiesce, descs, claiming, removal, open_descs
  <1>1. FreedAfterEvents'
    BY DEF FreedAfterEvents
  <1>2. Announcements'
    BY UnlockedFinite, MaxEventsAssumption DEF Announcements, Unlocked, WalkToCome
  <1>3. Removal'
    BY DEF Removal
  <1>4. Holders' /\ ClaimedWhileListed'
    BY DEF Holders, ClaimedWhileListed, V2, ClaimType
  <1>5. Basic'
    BY DEF Basic, V2, ClaimType
  <1> QED
    BY <1>1, <1>2, <1>3, <1>4, <1>5

(* A range is being unlocked. *)
LEMMA UnquiesceInd ==
  ASSUME IndInv, NEW l \in Locks, spdk_bdev_unquiesce(l)
  PROVE  IndInv'
  <1> USE DEF IndInv, Basic, spdk_bdev_unquiesce, descs, claiming, removal, open_descs
  <1>1. FreedAfterEvents'
    BY DEF FreedAfterEvents
  <1>2. Announcements'
    BY UnlockedFinite, MaxEventsAssumption DEF Announcements, Unlocked, WalkToCome
  <1>3. Removal'
    BY DEF Removal
  <1>4. Holders' /\ ClaimedWhileListed'
    BY DEF Holders, ClaimedWhileListed, V2, ClaimType
  <1>5. Basic'
    BY DEF Basic, V2, ClaimType
  <1> QED
    BY <1>1, <1>2, <1>3, <1>4, <1>5

(* A range is unlocked, and a message may go out for it. *)
LEMMA UnlockInd ==
  ASSUME IndInv, NEW l \in Locks, bdev_unlock_lba_range_cb(l)
  PROVE  IndInv'
  <1> USE DEF IndInv, Basic, bdev_unlock_lba_range_cb, Continues, descs, claiming,
              removal, open_descs
  <1>1. FreedAfterEvents'
    BY DEF FreedAfterEvents
  <1>2. Announcements'
    <2> DEFINE n == Cardinality(Unlocked)
    <2>1. Unlocked' = Unlocked \cup {l} /\ l \notin Unlocked
      BY DEF Unlocked
    <2>2. Cardinality(Unlocked') = n + 1 /\ n \in Nat
      BY <2>1, UnlockedFinite, FS_AddElement
    <2>3. /\ WalkToCome' = WalkToCome /\ WalkToCome \in {0, 1}
          /\ msgs' <= msgs + 1 /\ msgs' \in Nat
      BY DEF WalkToCome
    <2>4. \A d \in Descs : refs[d] \in Nat /\ refs[d] + msgs + WalkToCome <= MaxEvents + n + 1
      BY DEF Announcements
    <2>5. /\ msgs <= n /\ msgs \in Nat /\ MaxEvents \in Nat
          /\ walk' => status' \notin {"none", "ready"}
      BY MaxEventsAssumption DEF Announcements
    <2> HIDE DEF n
    <2>6. \A d \in Descs : refs[d] + msgs' + WalkToCome' <= MaxEvents + (n + 1) + 1
      BY <2>2, <2>3, <2>4, <2>5
    <2> QED
      BY <2>2, <2>3, <2>5, <2>6 DEF Announcements
  <1>3. Removal'
    BY DEF Removal
  <1>4. Holders' /\ ClaimedWhileListed'
    BY DEF Holders, ClaimedWhileListed, V2, ClaimType
  <1>5. Basic'
    BY DEF Basic, V2, ClaimType
  <1> QED
    BY <1>1, <1>2, <1>3, <1>4, <1>5

-----------------------------------------------------------------------------
(* The theorems. *)

(* The inductive invariant holds at the start. *)
LEMMA InitInd == Init => IndInv
  <1> SUFFICES ASSUME Init PROVE IndInv
    OBVIOUS
  <1>1. Basic
    <2>1. /\ << >> \in Seq({"remove", "resize"}) /\ "none" \in ClaimType
          /\ FALSE \in BOOLEAN /\ 0 \in Nat /\ 0 \in 0 .. 2
      BY EmptySeq DEF ClaimType
    <2>2. /\ desc \in [Descs -> {"free", "open", "closed"}] /\ refs \in [Descs -> Nat]
          /\ events \in [Descs -> Seq({"remove", "resize"})]
          /\ reset \in [Resets -> {"idle", "running", "done"}]
          /\ lock \in [Locks -> {"idle", "locked", "unlocking", "done"}]
      BY <2>1 DEF Init
    <2> QED
      BY <2>1, <2>2 DEF Init, Basic
  <1>2. FreedAfterEvents
    BY DEF Init, FreedAfterEvents
  <1>3. Announcements
    <2>1. \A d \in Descs : refs[d] = 0
      BY DEF Init
    <2>2. msgs = 0 /\ WalkToCome = 1 /\ ~walk
      BY DEF Init, WalkToCome
    <2> QED
      BY <1>1, <2>1, <2>2, UnlockedFinite, MaxEventsAssumption DEF Announcements
  <1>4. Removal /\ Holders /\ ClaimedWhileListed
    BY DEF Init, Removal, Holders, ClaimedWhileListed, V2
  <1> QED
    BY <1>1, <1>2, <1>3, <1>4 DEF IndInv

(* Every step preserves it. *)
LEMMA NextInd == IndInv /\ [Next]_vars => IndInv'
  <1> SUFFICES ASSUME IndInv, [Next]_vars PROVE IndInv'
    OBVIOUS
  <1>1. CASE UNCHANGED vars
    BY <1>1 DEF vars, descs, claiming, removal, IndInv, Basic, FreedAfterEvents, Announcements,
                Unlocked, WalkToCome, Removal, Holders, ClaimedWhileListed, open_descs
  <1>2. CASE \/ spdk_bdev_register \/ bdev_register_finished \/ spdk_bdev_unregister
             \/ bdev_unregister_walk_done \/ _bdev_unregister \/ bdev_destroy_cb
    BY <1>2, DescsAssumption, RegisterInd, CloseInd, UnregisterInd, WalkDoneInd, MessageInd,
       DestroyInd DEF bdev_register_finished
  <1>3. CASE \E d \in Descs : \/ \E write \in BOOLEAN : bdev_open(d, write)
                             \/ spdk_bdev_close(d) \/ _event_notify(d)
                             \/ spdk_bdev_module_claim_bdev(d)
                             \/ \E type \in V2, k \in Keys \cup {NoKey} :
                                  spdk_bdev_module_claim_bdev_desc(d, type, k)
    BY <1>3, OpenInd, CloseInd, EventInd, ClaimInd, ClaimDescInd DEF spdk_bdev_close
  <1>4. CASE \/ spdk_bdev_notify_blockcnt_change \/ spdk_bdev_module_release_bdev
             \/ bdev_examine_start \/ bdev_examine_end
    BY <1>4, ResizeInd, ReleaseInd, ExamineStartInd, ExamineEndInd
  <1>5. CASE \E r \in Resets : \/ spdk_bdev_reset(r) \/ bdev_reset_complete(r)
                              \/ bdev_reset_complete_tail(r)
    BY <1>5, ResetInd, ResetCompleteInd, ResetTailInd
  <1>6. CASE \E l \in Locks : \/ spdk_bdev_quiesce(l) \/ spdk_bdev_unquiesce(l)
                             \/ bdev_unlock_lba_range_cb(l)
    BY <1>6, QuiesceInd, UnquiesceInd, UnlockInd
  <1> QED
    BY <1>1, <1>2, <1>3, <1>4, <1>5, <1>6 DEF Next

(* The inductive invariant holds in every reachable state. *)
LEMMA IndInvHolds == Spec => []IndInv
  BY InitInd, NextInd, PTL DEF Spec

(* A descriptor is freed when it is closed and the last event on the way to it has
   been handled, however opens, closes, resizes and a removal interleave. *)
THEOREM EventsFindDescriptors == Spec => []FreedAfterEvents
  <1>1. IndInv => FreedAfterEvents
    BY DEF IndInv
  <1> QED
    BY <1>1, IndInvHolds, PTL

(* Claims keep others from writing, and last exactly while some descriptor holds one
   or an examination still has to clear one away. *)
THEOREM ClaimsCorrect == Spec => []ClaimsKept
  <1>1. IndInv => TypeOK
    <2> SUFFICES ASSUME IndInv PROVE TypeOK
      OBVIOUS
    <2> DEFINE n == Cardinality(Unlocked)
               k == Cardinality(Locks)
    <2>1. n \in Nat /\ k \in Nat /\ n <= k /\ MaxEvents \in Nat /\ msgs \in Nat /\ msgs <= n
          /\ WalkToCome \in {0, 1}
      BY UnlockedFinite, MaxEventsAssumption DEF IndInv, Announcements, Basic, WalkToCome
    <2>2. \A d \in Descs : refs[d] \in Nat /\ refs[d] + msgs + WalkToCome <= MaxEvents + n + 1
      BY DEF IndInv, Announcements, Basic
    <2>3. msgs \in 0 .. k
      BY <2>1
    <2> HIDE DEF n, k
    <2>4. \A d \in Descs : refs[d] \in 0 .. MaxEvents + k + 1
      BY <2>1, <2>2
    <2> QED
      BY <2>3, <2>4 DEF IndInv, Basic, TypeOK, k
  <1>2. IndInv => WritersClaimed
    <2> SUFFICES ASSUME IndInv, claim_type = "write_one" PROVE Cardinality(claims) <= 1
      BY DEF IndInv, Holders, WritersClaimed
    <2>1. CASE claims = {}
      BY <2>1, FS_EmptySet
    <2>2. CASE claims # {}
      <3>1. PICK d \in claims : claims = {d}
        BY <2>2 DEF IndInv, Holders
      <3>2. Cardinality({d}) = 1
        BY FS_Singleton
      <3> QED
        BY <3>1, <3>2
    <2> QED
      BY <2>1, <2>2
  <1>3. IndInv => ClaimsKept
    BY <1>1, <1>2 DEF IndInv, ClaimsKept
  <1> QED
    BY <1>3, IndInvHolds, PTL

(* No reset begins while the completions of an earlier one run, between the clearing
   of reset_in_progress and the test for descriptors in bdev_reset_complete. *)
CompletionsAlone ==
  \A r, s \in Resets : ~ (reset[r] = "done" /\ reset[s] = "running")

(* As long as that is so, an io_device that is unregistered is that of a bdev which
   nobody can reach: no descriptor, no name, no reset in progress. *)
THEOREM UnregisteredLast == Spec /\ []CompletionsAlone => []UnregisteredUnused
  <1> USE DEF UnregisteredUnused, reset_in_progress
  <1>1. Init => UnregisteredUnused
    BY DEF Init
  <1>2. ASSUME IndInv, IndInv', CompletionsAlone, UnregisteredUnused, [Next]_vars
        PROVE  UnregisteredUnused'
    <2> SUFFICES ASSUME unregistered' > 0, NEW r \in Resets, reset'[r] = "running"
                 PROVE  FALSE
      BY <1>2 DEF IndInv, Removal
    <2>1. open_descs' = {}
      BY <1>2 DEF IndInv, Removal
    <2>2. CASE \E s \in Resets : spdk_bdev_reset(s)
      BY <2>1, <2>2 DEF spdk_bdev_reset, descs, open_descs
    <2>3. CASE \E s \in Resets : bdev_reset_complete(s)
      BY <1>2, <2>3 DEF bdev_reset_complete, removal, IndInv, Basic
    <2>4. CASE \E s \in Resets : bdev_reset_complete_tail(s)
      BY <1>2, <2>4 DEF bdev_reset_complete_tail, CompletionsAlone, IndInv, Basic
    <2>5. CASE \/ bdev_unregister_walk_done \/ _bdev_unregister
               \/ \E d \in Descs : Close(d)
      <3>1. reset' = reset
        BY <2>5 DEF bdev_unregister_walk_done, _bdev_unregister, Close
      <3>2. unregistered' = unregistered
        BY <2>5, <3>1 DEF bdev_unregister_walk_done, _bdev_unregister, Close, bdev_unregister,
                          bdev_unregister_unsafe
      <3> QED
        BY <1>2, <3>1, <3>2
    <2>6. CASE UNCHANGED <<reset, unregistered>>
      BY <1>2, <2>6
    <2>7. \/ \E s \in Resets : \/ spdk_bdev_reset(s) \/ bdev_reset_complete(s)
                               \/ bdev_reset_complete_tail(s)
          \/ bdev_unregister_walk_done \/ _bdev_unregister \/ \E d \in Descs : Close(d)
          \/ UNCHANGED <<reset, unregistered>>
      BY <1>2, DescsAssumption
      DEF Next, vars, removal, spdk_bdev_register, bdev_register_finished, spdk_bdev_unregister,
          bdev_destroy_cb, bdev_open, spdk_bdev_close, _event_notify,
          spdk_bdev_notify_blockcnt_change, spdk_bdev_module_claim_bdev,
          spdk_bdev_module_release_bdev, spdk_bdev_module_claim_bdev_desc, bdev_examine_start,
          bdev_examine_end, spdk_bdev_quiesce, spdk_bdev_unquiesce, bdev_unlock_lba_range_cb
    <2> QED
      BY <2>2, <2>3, <2>4, <2>5, <2>6, <2>7
  <1> QED
    BY <1>1, <1>2, IndInvHolds, PTL DEF Spec
=============================================================================
