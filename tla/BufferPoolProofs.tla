-------------------------- MODULE BufferPoolProofs --------------------------
(***************************************************************************)
(* Proofs about BufferPool: the mapping, the contents, the blocks and the  *)
(* pins stay right, and a victim search ends if a frame can go, and never  *)
(* ends otherwise.                                                         *)
(***************************************************************************)
EXTENDS BufferPool, FiniteSetTheorems, WellFoundedInduction, TLAPS

(* Block ids are numbers, so none of them is a placeholder.                 *)
LEMMA BlocksNat == Blocks \subseteq Nat /\ NoBlock \notin Blocks /\ NoFrame \notin Frames
<1>1. FileBlocks \subseteq Nat /\ AnonBlocks \subseteq Nat
  BY PoolAssumption DEF AnonBlocks
<1>2. NoFrame \notin Frames
  BY PoolAssumption DEF Frames
<1> QED
  BY <1>1, <1>2, PoolAssumption DEF Blocks

(* invalidate_cached_block keeps the types of frames and page_table.        *)
LEMMA UncacheType ==
  ASSUME TypeOK, NEW ids, Uncache(ids)
  PROVE  /\ frames' \in [Frames -> Frame]
         /\ page_table' \in [Blocks -> Frames \cup {NoFrame}]
<1>1. ASSUME NEW f \in Frames
      PROVE  [frames[f] EXCEPT !.block = NoBlock, !.dirty = FALSE] \in Frame
  <2>1. frames[f] \in Frame
    BY DEF TypeOK
  <2> QED
    BY <2>1 DEF Frame
<1>2. frames' \in [Frames -> Frame]
  BY <1>1 DEF TypeOK, Uncache
<1> QED
  BY <1>2 DEF TypeOK, Uncache

(* fetch_block's push_front keeps lru_list a list of frame indices.         *)
LEMMA TouchedType ==
  ASSUME NEW f \in Frames, NEW lru \in Seq(Frames)
  PROVE  Touched(f, lru) \in Seq(Frames)
  BY DEF Touched

(* Writing the blocks of a run keeps the disk a map to contents.            *)
LEMMA StoredType ==
  ASSUME TypeOK, NEW r \in Run, NEW cs \in Payloads(r.len)
  PROVE  Stored(r, cs) \in [Blocks -> Content \cup {NoData}]
<1>1. ASSUME NEW b \in Ids(r)
      PROVE  cs[b - r.start + 1] \in Content
  BY PoolAssumption DEF Run, Ids, Payloads, AnonBlocks
<1> QED
  BY <1>1 DEF Stored, TypeOK

(* The second half of fetch_block keeps every type, whatever the eviction   *)
(* before it left.                                                          *)
LEMMA LoadType ==
  ASSUME TypeOK, NEW b \in Blocks, NEW f \in Frames,
         NEW d \in [Blocks -> Content \cup {NoData}],
         NEW pt \in [Blocks -> Frames \cup {NoFrame}],
         NEW lru \in Seq(Frames),
         Load(b, f, d, pt, lru)
  PROVE  /\ frames' \in [Frames -> Frame]
         /\ page_table' \in [Blocks -> Frames \cup {NoFrame}]
         /\ lru_list' \in Seq(Frames)
         /\ disk' \in [Blocks -> Content \cup {NoData}]
         /\ mode' \in {"ready", "failed"}
         /\ want' \in Blocks \cup {NoBlock}
         /\ held' \in [Blocks -> Nat]
<1>1. CASE d[b] = NoData
  BY <1>1 DEF Load, TypeOK
<1>2. CASE d[b] # NoData
  <2>1. [block |-> b, data |-> d[b], dirty |-> FALSE, pin |-> 1, referenced |-> TRUE] \in Frame
    BY DEF Frame
  <2>2. frames' \in [Frames -> Frame]
    BY <1>2, <2>1 DEF Load, TypeOK
  <2>3. lru_list' \in Seq(Frames)
    BY <1>2, TouchedType DEF Load
  <2>4. held' = [held EXCEPT ![b] = @ + 1]
    BY <1>2 DEF Load
  <2>5. held' \in [Blocks -> Nat]
    BY <2>4 DEF TypeOK
  <2>6. /\ disk' = d /\ want' = NoBlock /\ mode' = "ready"
        /\ page_table' = [pt EXCEPT ![b] = f]
    BY <1>2 DEF Load
  <2> QED
    BY <2>2, <2>3, <2>5, <2>6
<1> QED
  BY <1>1, <1>2

(* Evicting a victim and loading the wanted block keeps every type.         *)
LEMMA EvictType ==
  ASSUME TypeOK, mode = "scan", NEW f \in Frames, NEW lru \in Seq(Frames),
         Evict(f, lru)
  PROVE  /\ frames' \in [Frames -> Frame]
         /\ page_table' \in [Blocks -> Frames \cup {NoFrame}]
         /\ lru_list' \in Seq(Frames)
         /\ disk' \in [Blocks -> Content \cup {NoData}]
         /\ mode' \in {"ready", "failed"}
         /\ want' \in Blocks \cup {NoBlock}
         /\ held' \in [Blocks -> Nat]
<1> DEFINE old == frames[f].block
           d   == IF frames[f].dirty THEN [disk EXCEPT ![old] = frames[f].data] ELSE disk
           pt  == [page_table EXCEPT ![old] = NoFrame]
<1>1. frames[f].data \in Content \cup {NoData} /\ want \in Blocks
  BY DEF TypeOK, Frame
<1>2. d \in [Blocks -> Content \cup {NoData}]
  BY <1>1 DEF TypeOK
<1>3. pt \in [Blocks -> Frames \cup {NoFrame}]
  BY DEF TypeOK
<1>4. CASE frames[f].dirty /\ old \in FileBlocks
  BY <1>3, <1>4 DEF Evict, TypeOK
<1>5. CASE ~(frames[f].dirty /\ old \in FileBlocks)
  <2>1. Load(want, f, d, pt, lru)
    BY <1>5 DEF Evict
  <2> HIDE DEF d, pt
  <2> QED
    BY <1>1, <1>2, <1>3, <2>1, LoadType
<1> QED
  BY <1>4, <1>5

-----------------------------------------------------------------------------
(* free_run pushes only ids of the scratch region.                          *)
LEMMA FreeListType ==
  ASSUME TypeOK, free_anon # <<>>
  PROVE  /\ free_anon[Len(free_anon)] \in AnonBlocks
         /\ SubSeq(free_anon, 1, Len(free_anon) - 1) \in Seq(AnonBlocks)
         /\ [start |-> free_anon[Len(free_anon)], len |-> 1] \in Run
<1>1. free_anon \in Seq(AnonBlocks) /\ Len(free_anon) \in Nat \ {0}
  BY DEF TypeOK
<1>2. free_anon[Len(free_anon)] \in AnonBlocks
  BY <1>1
<1>3. SubSeq(free_anon, 1, Len(free_anon) - 1) \in Seq(AnonBlocks)
  BY <1>1
<1> QED
  BY <1>2, <1>3, PoolAssumption DEF Run, AnonBlocks

(* A fresh range handed out by the allocator is a run of the scratch region.*)
LEMMA FreshType ==
  ASSUME TypeOK, NEW n \in 1 .. MaxRun, Room(n)
  PROVE  /\ NextStart \in AnonBlocks
         /\ NextStart + n \in AnonStart .. AnonStart + MaxAnon
         /\ [start |-> NextStart, len |-> n] \in Run
<1>1. NextStart \in Nat /\ NextStart >= AnonStart
  BY PoolAssumption DEF NextStart, TypeOK
<1> QED
  BY <1>1, PoolAssumption DEF Run, AnonBlocks, Room

(* A list scan pops a frame index and leaves a list of frame indices.       *)
LEMMA PopType ==
  ASSUME TypeOK, lru_list # <<>>
  PROVE  Popped \in Frames /\ Rest \in Seq(Frames) /\ PutBack(Popped) \in Seq(Frames)
<1>1. lru_list \in Seq(Frames) /\ Len(lru_list) \in Nat \ {0}
  BY DEF TypeOK
<1>2. Popped \in Frames
  BY <1>1 DEF Popped
<1>3. Rest \in Seq(Frames)
  BY <1>1 DEF Rest
<1> QED
  BY <1>2, <1>3 DEF PutBack

(* BufferPool::new establishes the types.                                   *)
LEMMA TypeOKInit == Init => TypeOK
<1> SUFFICES ASSUME Init PROVE TypeOK
  OBVIOUS
<1>1. EmptyFrame \in Frame /\ 0 \in Frames
  BY PoolAssumption DEF EmptyFrame, Frame, Frames
<1> QED
  BY <1>1, PoolAssumption DEF Init, TypeOK, Modes, Run

(* Every method, and every turn of the victim loop, keeps the types.        *)
LEMMA TypeOKStep == TypeOK /\ [Next]_vars => TypeOK'
<1> SUFFICES ASSUME TypeOK, [Next]_vars PROVE TypeOK'
  OBVIOUS
<1> USE DEF Modes
<1>1. ASSUME NEW b \in Blocks, NEW f \in Frames
      PROVE  [frames[f] EXCEPT !.pin = @ + 1, !.referenced = TRUE] \in Frame
  <2>1. frames[f] \in Frame
    BY DEF TypeOK
  <2>2. [frames[f] EXCEPT !.pin = @ + 1] \in Frame
    BY <2>1 DEF Frame
  <2>3. [[frames[f] EXCEPT !.pin = @ + 1] EXCEPT !.referenced = TRUE] \in Frame
    BY <2>2 DEF Frame
  <2> QED
    BY <2>1, <2>3 DEF Frame
<1>2. CASE AllocateRecycled
  BY <1>2, FreeListType DEF AllocateRecycled, TypeOK, cache
<1>3. ASSUME NEW n \in 1 .. MaxRun, AllocateFresh(n) PROVE TypeOK'
  BY <1>3, FreshType DEF AllocateFresh, TypeOK, cache
<1>4. ASSUME NEW n \in 1 .. MaxRun, NEW cs \in Payloads(n), WriteRawRun(cs)
      PROVE  TypeOK'
  <2> DEFINE r == [start |-> NextStart, len |-> Len(cs)]
  <2>1. Len(cs) = n
    BY DEF Payloads
  <2>2. r \in Run /\ NextStart + n \in AnonStart .. AnonStart + MaxAnon /\ r.len = n
    BY <1>4, <2>1, FreshType DEF WriteRawRun
  <2>3. Stored(r, cs) \in [Blocks -> Content \cup {NoData}]
    BY <2>2, StoredType
  <2>4. Uncache(Ids(r)) /\ disk' = Stored(r, cs) /\ runs' = runs \cup {r}
    BY <1>4 DEF WriteRawRun
  <2> QED
    BY <1>4, <2>1, <2>2, <2>3, <2>4, UncacheType DEF WriteRawRun, TypeOK
<1>5. ASSUME NEW n \in 1 .. MaxRun, NEW cs \in Payloads(n), WriteRunRecycled(cs)
      PROVE  TypeOK'
  <2> DEFINE r == [start |-> free_anon[Len(free_anon)], len |-> 1]
  <2>1. Len(cs) = n /\ n = 1
    <3>1. Len(cs) = n
      BY DEF Payloads
    <3> QED
      BY <1>5, <3>1 DEF WriteRunRecycled
  <2>2. r \in Run /\ r.len = 1 /\ SubSeq(free_anon, 1, Len(free_anon) - 1) \in Seq(AnonBlocks)
    BY <1>5, FreeListType DEF WriteRunRecycled
  <2>3. Stored(r, cs) \in [Blocks -> Content \cup {NoData}]
    BY <2>1, <2>2, StoredType
  <2>4. Uncache(Ids(r)) /\ disk' = Stored(r, cs) /\ runs' = runs \cup {r}
    BY <1>5 DEF WriteRunRecycled
  <2> QED
    BY <1>5, <2>1, <2>2, <2>3, <2>4, UncacheType DEF WriteRunRecycled, TypeOK
<1>6. ASSUME NEW r \in runs \cup kept, Free(r)
      PROVE  (runs' \subseteq Run /\ kept' \subseteq Run) => TypeOK'
  <2> DEFINE ids == [k \in 1 .. r.len |-> r.start + k - 1]
  <2>1. r \in Run /\ free_anon \in Seq(AnonBlocks)
    BY DEF TypeOK
  <2>2. ids \in Seq(AnonBlocks)
    <3>1. r.len \in Nat /\ \A k \in 1 .. r.len : r.start + k - 1 \in AnonBlocks
      BY <2>1, PoolAssumption DEF Run, AnonBlocks
    <3> QED
      BY <3>1
  <2>3. free_anon \o ids \in Seq(AnonBlocks)
    BY <2>1, <2>2
  <2>4. Uncache(Ids(r)) /\ free_anon' = free_anon \o ids
    BY <1>6 DEF Free
  <2> HIDE DEF ids
  <2> QED
    BY <1>6, <2>3, <2>4, UncacheType DEF Free, TypeOK
<1>7. ASSUME NEW r \in runs, NEW cs \in Payloads(r.len), WriteBlocks(r, cs)
      PROVE  TypeOK'
  <2>1. Stored(r, cs) \in [Blocks -> Content \cup {NoData}]
    BY StoredType DEF TypeOK
  <2>2. Uncache(Ids(r)) /\ disk' = Stored(r, cs)
    BY <1>7 DEF WriteBlocks
  <2> QED
    BY <1>7, <2>1, <2>2, UncacheType DEF WriteBlocks, TypeOK, alloc
<1>8. ASSUME NEW b \in Blocks, FetchHit(b) PROVE TypeOK'
  <2>1. page_table[b] \in Frames
    BY <1>8 DEF FetchHit, TypeOK
  <2>2. frames' \in [Frames -> Frame]
    BY <1>1, <1>8, <2>1 DEF FetchHit, TypeOK
  <2>3. lru_list' \in Seq(Frames)
    BY <1>8, <2>1, TouchedType DEF FetchHit, TypeOK
  <2>4. held' = [held EXCEPT ![b] = @ + 1]
    BY <1>8 DEF FetchHit
  <2>5. held' \in [Blocks -> Nat]
    BY <2>4 DEF TypeOK
  <2> QED
    BY <1>8, <2>2, <2>3, <2>5 DEF FetchHit, TypeOK, alloc
<1>9. ASSUME NEW b \in Blocks, FetchMissFree(b) PROVE TypeOK'
  <2>1. PICK f \in Frames : Load(b, f, disk, page_table, lru_list)
    BY <1>9 DEF FetchMissFree
  <2>2. /\ disk \in [Blocks -> Content \cup {NoData}]
        /\ page_table \in [Blocks -> Frames \cup {NoFrame}]
        /\ lru_list \in Seq(Frames)
    BY DEF TypeOK
  <2> QED
    BY <1>9, <2>1, <2>2, LoadType DEF FetchMissFree, TypeOK, alloc
<1>10. ASSUME NEW b \in Blocks, FetchMissFull(b) PROVE TypeOK'
  BY <1>10 DEF FetchMissFull, TypeOK, alloc, cache
<1>11. ASSUME NEW b \in Blocks, Unpin(b) PROVE TypeOK'
  <2>1. CASE page_table[b] # NoFrame /\ frames[page_table[b]].pin > 0
    <3>1. page_table[b] \in Frames
      BY <2>1 DEF TypeOK
    <3>2. [frames[page_table[b]] EXCEPT !.pin = @ - 1] \in Frame
      <4>1. frames[page_table[b]] \in Frame
        BY <3>1 DEF TypeOK
      <4> QED
        BY <2>1, <4>1 DEF Frame
    <3>3. frames' = [frames EXCEPT ![page_table[b]].pin = @ - 1]
      BY <1>11, <2>1 DEF Unpin
    <3>4. frames' \in [Frames -> Frame]
      BY <3>1, <3>2, <3>3 DEF TypeOK
    <3> QED
      BY <1>11, <3>4 DEF Unpin, TypeOK, alloc
  <2>2. CASE ~(page_table[b] # NoFrame /\ frames[page_table[b]].pin > 0)
    BY <1>11, <2>2 DEF Unpin, TypeOK, alloc
  <2> QED
    BY <2>1, <2>2
<1>12. ASSUME NEW b \in Blocks, MarkDirty(b) PROVE TypeOK'
  <2>1. page_table[b] \in Frames
    BY <1>12 DEF MarkDirty, TypeOK
  <2>2. [frames[page_table[b]] EXCEPT !.dirty = TRUE] \in Frame
    <3>1. frames[page_table[b]] \in Frame
      BY <2>1 DEF TypeOK
    <3> QED
      BY <3>1 DEF Frame
  <2> QED
    BY <1>12, <2>1, <2>2 DEF MarkDirty, TypeOK, alloc
<1>13. ASSUME NEW p \in Policies, SetPolicy(p) PROVE TypeOK'
  BY <1>13, PoolAssumption DEF SetPolicy, TypeOK, alloc, cache
<1>14. CASE ScanListEmpty
  BY <1>14 DEF ScanListEmpty, TypeOK, alloc, cache
<1>15. CASE ScanListSkip
  BY <1>15, PopType DEF ScanListSkip, TypeOK, alloc
<1>16. CASE ScanListEvict
  <2>1. Popped \in Frames /\ Rest \in Seq(Frames) /\ Evict(Popped, Rest) /\ mode = "scan"
    BY <1>16, PopType DEF ScanListEvict
  <2> QED
    BY <1>16, <2>1, EvictType DEF ScanListEvict, TypeOK, alloc
<1>17. NextHand \in Frames
  BY PoolAssumption DEF NextHand, TypeOK, Frames
<1>18. CASE ScanClockSkip
  <2>1. clock_hand \in Frames
    BY DEF TypeOK
  <2>2. ASSUME NEW x \in BOOLEAN
        PROVE  [frames[clock_hand] EXCEPT !.referenced = x] \in Frame
    BY <2>1 DEF TypeOK, Frame
  <2>3. frames[clock_hand].referenced \in BOOLEAN
    BY <2>1 DEF TypeOK, Frame
  <2>4. frames' \in [Frames -> Frame]
    BY <1>18, <2>1, <2>2, <2>3 DEF ScanClockSkip, TypeOK
  <2> QED
    BY <1>17, <1>18, <2>4 DEF ScanClockSkip, TypeOK, alloc
<1>19. CASE ScanClockEvict
  <2>1. clock_hand \in Frames /\ lru_list \in Seq(Frames) /\ Evict(clock_hand, lru_list)
        /\ mode = "scan"
    BY <1>19 DEF ScanClockEvict, TypeOK
  <2> QED
    BY <1>17, <1>19, <2>1, EvictType DEF ScanClockEvict, TypeOK, alloc
<1>20. CASE UNCHANGED vars
  BY <1>20 DEF vars, TypeOK
<1>21. ASSUME NEW r \in runs, FreeRun(r) PROVE TypeOK'
  BY <1>6, <1>21 DEF FreeRun, TypeOK
<1>22. ASSUME NEW r \in kept, FreeAgain(r) PROVE TypeOK'
  BY <1>6, <1>22 DEF FreeAgain, TypeOK
<1> QED
  BY <1>2, <1>3, <1>4, <1>5, <1>7, <1>8, <1>9, <1>10, <1>11, <1>12, <1>13,
     <1>14, <1>15, <1>16, <1>18, <1>19, <1>20, <1>21, <1>22 DEF Next, Scan, WriteRunBlocks

(* Every reachable state has the types of buffer_pool.rs; in particular no *)
(* frame index, in the page table, the LRU list or the clock hand, is ever *)
(* out of the bounds of frames.                                            *)
THEOREM TypeCorrect == Spec => []TypeOK
  BY TypeOKInit, TypeOKStep, PTL DEF Spec

-----------------------------------------------------------------------------
(* The inductive invariant behind PageTableExact and CacheCoherent: a scan  *)
(* starts when the wanted block is not cached and every frame is taken, and *)
(* changes neither before it loads or dies.                                 *)
CacheInv ==
    /\ PageTableExact
    /\ CacheCoherent
    /\ mode = "scan" => /\ page_table[want] = NoFrame
                        /\ \A f \in Frames : frames[f].block # NoBlock

(* Invalidating ids removes them from the page table and from the frames, and*)
(* nothing else: the mapping stays exact.                                   *)
LEMMA UncacheExact ==
  ASSUME TypeOK, Alive, PageTableExact, NEW ids, Uncache(ids)
  PROVE  /\ \A b \in Blocks, f \in Frames : page_table'[b] = f <=> frames'[f].block = b
         /\ \A f \in Frames : frames'[f].block # NoBlock =>
               /\ frames'[f].block = frames[f].block
               /\ frames'[f].data = frames[f].data
               /\ frames[f].block \notin ids
<1>1. ASSUME NEW f \in Frames
      PROVE  /\ frames[f].block \in ids => frames'[f].block = NoBlock \/ frames[f].block = NoBlock
             /\ frames[f].block \notin ids => frames'[f] = frames[f]
             /\ frames[f].block = NoBlock => frames'[f].block = NoBlock
             /\ frames'[f].data = frames[f].data
             /\ frames'[f].block # NoBlock => frames'[f].block = frames[f].block
  <2>1. frames[f] \in Frame
    BY DEF TypeOK
  <2>2. frames[f].block \in Blocks => page_table[frames[f].block] = f
    BY DEF PageTableExact
  <2>3. frames[f].block \in Blocks \cup {NoBlock}
    BY <2>1 DEF Frame
  <2>4. CASE frames[f].block \in ids /\ page_table[frames[f].block] = f
    <3>1. frames'[f] = [frames[f] EXCEPT !.block = NoBlock, !.dirty = FALSE]
      BY <2>4 DEF Uncache
    <3> QED
      BY <2>1, <2>4, <3>1 DEF Frame
  <2>5. CASE ~(frames[f].block \in ids /\ page_table[frames[f].block] = f)
    BY <2>2, <2>3, <2>5 DEF Uncache
  <2> QED
    BY <2>4, <2>5
<1>2. ASSUME NEW b \in Blocks, NEW f \in Frames
      PROVE  page_table'[b] = f <=> frames'[f].block = b
  <2>1. page_table[b] = f <=> frames[f].block = b
    BY DEF PageTableExact
  <2>2. page_table'[b] = (IF b \in ids THEN NoFrame ELSE page_table[b])
    BY DEF Uncache
  <2> QED
    BY <1>1, <2>1, <2>2, BlocksNat
<1>3. ASSUME NEW f \in Frames, frames'[f].block # NoBlock
      PROVE  /\ frames'[f].block = frames[f].block
             /\ frames'[f].data = frames[f].data
             /\ frames[f].block \notin ids
  BY <1>1, <1>3
<1> QED
  BY <1>2, <1>3

(* Writing or freeing the blocks ids, then uncaching them.                  *)
LEMMA UncacheInv ==
  ASSUME TypeOK, CacheInv, mode = "ready", NEW ids, Uncache(ids), mode' = mode,
         \A b \in Blocks \ ids : disk'[b] = disk[b]
  PROVE  CacheInv'
<1>1. Alive /\ PageTableExact /\ CacheCoherent
  BY DEF CacheInv, Alive
<1>2. PageTableExact'
  BY <1>1, UncacheExact DEF PageTableExact
<1>3. ASSUME NEW f \in Frames, frames'[f].block # NoBlock
      PROVE  frames'[f].data = disk'[frames'[f].block]
  <2>1. /\ frames'[f].block = frames[f].block
        /\ frames'[f].data = frames[f].data
        /\ frames[f].block \notin ids
    BY <1>1, <1>3, UncacheExact
  <2>2. frames[f].block \in Blocks
    BY <1>3, <2>1 DEF TypeOK, Frame
  <2>3. frames[f].data = disk[frames[f].block]
    BY <1>1, <1>3, <2>1 DEF CacheCoherent
  <2> QED
    BY <2>1, <2>2, <2>3
<1> QED
  BY <1>2, <1>3 DEF CacheInv, CacheCoherent

(* Steps that touch pins, marks and lists only.                             *)
LEMMA SameMapping ==
  ASSUME TypeOK, CacheInv, Alive, page_table' = page_table, disk' = disk,
         mode' = "scan" => mode = "scan" /\ want' = want,
         \A f \in Frames : frames'[f].block = frames[f].block /\ frames'[f].data = frames[f].data
  PROVE  CacheInv'
  BY DEF CacheInv, PageTableExact, CacheCoherent

(* Loading a block nobody caches into a frame no block is mapped to keeps   *)
(* the mapping exact and the cache equal to the disk.                       *)
LEMMA LoadInv ==
  ASSUME TypeOK, NEW b \in Blocks, NEW f \in Frames, NEW pt, NEW lru,
         pt \in [Blocks -> Frames \cup {NoFrame}],
         Load(b, f, disk, pt, lru),
         pt[b] = NoFrame,
         \A c \in Blocks : pt[c] # f,
         \A c \in Blocks, g \in Frames \ {f} : pt[c] = g <=> frames[g].block = c,
         \A g \in Frames \ {f} :
            frames[g].block # NoBlock => frames[g].data = disk[frames[g].block]
  PROVE  CacheInv'
<1>1. CASE disk[b] = NoData
  BY <1>1 DEF Load, CacheInv, PageTableExact, CacheCoherent, Alive
<1>2. CASE disk[b] # NoData
  <2>1. /\ frames'[f].block = b /\ frames'[f].data = disk[b]
        /\ \A g \in Frames \ {f} : frames'[g] = frames[g]
    BY <1>2 DEF Load, TypeOK
  <2>2. /\ page_table'[b] = f
        /\ \A c \in Blocks \ {b} : page_table'[c] = pt[c]
        /\ disk' = disk /\ mode' = "ready"
    BY <1>2 DEF Load
  <2>3. ASSUME NEW c \in Blocks, NEW g \in Frames
        PROVE  page_table'[c] = g <=> frames'[g].block = c
    <3>1. CASE g = f
      BY <2>1, <2>2, <3>1
    <3>2. CASE g # f /\ c = b
      <4>1. frames'[g] = frames[g] /\ frames[g].block # b
        BY <2>1, <3>2, BlocksNat
      <4> QED
        BY <2>2, <3>2, <4>1
    <3>3. CASE g # f /\ c # b
      BY <2>1, <2>2, <3>3
    <3> QED
      BY <3>1, <3>2, <3>3
  <2>4. PageTableExact'
    BY <2>3 DEF PageTableExact
  <2>5. CacheCoherent'
    BY <2>1, <2>2 DEF CacheCoherent
  <2> QED
    BY <2>2, <2>4, <2>5 DEF CacheInv
<1> QED
  BY <1>1, <1>2

(* So does evicting a victim first: its block is unmapped before the load,  *)
(* and the write-back does not change what the disk holds.                  *)
LEMMA EvictInv ==
  ASSUME TypeOK, CacheInv, mode = "scan", NEW f \in Frames, NEW lru, Evict(f, lru)
  PROVE  CacheInv'
<1> DEFINE old == frames[f].block
           d   == IF frames[f].dirty THEN [disk EXCEPT ![old] = frames[f].data] ELSE disk
           pt  == [page_table EXCEPT ![old] = NoFrame]
<1>1. /\ old \in Blocks /\ want \in Blocks
      /\ page_table[want] = NoFrame
      /\ frames[f].data = disk[old]
      /\ \A b \in Blocks, g \in Frames : page_table[b] = g <=> frames[g].block = b
      /\ \A g \in Frames : frames[g].block # NoBlock => frames[g].data = disk[frames[g].block]
  <2>1. frames[f] \in Frame /\ old # NoBlock
    BY DEF CacheInv, TypeOK
  <2> QED
    BY <2>1 DEF CacheInv, PageTableExact, CacheCoherent, Alive, TypeOK, Frame
<1>2. d = disk
  BY <1>1 DEF TypeOK
<1>3. /\ pt \in [Blocks -> Frames \cup {NoFrame}]
      /\ pt[want] = NoFrame
      /\ \A c \in Blocks : pt[c] # f
      /\ \A c \in Blocks, g \in Frames \ {f} : pt[c] = g <=> frames[g].block = c
  BY <1>1, BlocksNat DEF TypeOK
<1>4. CASE frames[f].dirty /\ old \in FileBlocks
  BY <1>4 DEF Evict, CacheInv, PageTableExact, CacheCoherent, Alive
<1>5. CASE ~(frames[f].dirty /\ old \in FileBlocks)
  <2>1. Load(want, f, d, pt, lru)
    BY <1>5 DEF Evict
  <2>2. Load(want, f, disk, pt, lru)
    BY <1>2, <2>1
  <2> HIDE DEF pt
  <2> QED
    BY <1>1, <1>3, <2>2, LoadInv
<1> QED
  BY <1>4, <1>5

(* CacheInv is inductive: no method separates frames, page table and disk.  *)
LEMMA CacheInvStep == TypeOK /\ CacheInv /\ [Next]_vars => CacheInv'
<1> SUFFICES ASSUME TypeOK, CacheInv, [Next]_vars PROVE CacheInv'
  OBVIOUS
<1>1. CASE AllocateRecycled
  BY <1>1, SameMapping DEF AllocateRecycled, cache, Alive
<1>2. ASSUME NEW n \in 1 .. MaxRun, AllocateFresh(n) PROVE CacheInv'
  BY <1>2, SameMapping DEF AllocateFresh, cache, Alive
<1>3. ASSUME NEW n \in 1 .. MaxRun, NEW cs \in Payloads(n), WriteRawRun(cs)
      PROVE  CacheInv'
  BY <1>3, UncacheInv DEF WriteRawRun, Stored
<1>4. ASSUME NEW n \in 1 .. MaxRun, NEW cs \in Payloads(n), WriteRunRecycled(cs)
      PROVE  CacheInv'
  BY <1>4, UncacheInv DEF WriteRunRecycled, Stored
<1>5. ASSUME NEW r \in runs \cup kept, Free(r) PROVE CacheInv'
  BY <1>5, UncacheInv DEF Free
<1>6. ASSUME NEW r \in runs, NEW cs \in Payloads(r.len), WriteBlocks(r, cs)
      PROVE  CacheInv'
  BY <1>6, UncacheInv DEF WriteBlocks, Stored
<1>7. ASSUME NEW b \in Blocks, FetchHit(b) PROVE CacheInv'
  <2>1. page_table[b] \in Frames
    BY <1>7 DEF FetchHit, TypeOK
  <2>2. \A f \in Frames : frames[f] \in Frame
    BY DEF TypeOK
  <2>3. \A f \in Frames : frames'[f].block = frames[f].block /\ frames'[f].data = frames[f].data
    BY <1>7, <2>1, <2>2 DEF FetchHit, TypeOK, Frame
  <2> QED
    BY <1>7, <2>3, SameMapping DEF FetchHit, Alive
<1>8. ASSUME NEW b \in Blocks, FetchMissFree(b) PROVE CacheInv'
  <2>1. PICK f \in Frames : IsFirstFree(f) /\ Load(b, f, disk, page_table, lru_list)
    BY <1>8 DEF FetchMissFree
  <2>2. /\ page_table[b] = NoFrame
        /\ \A c \in Blocks, g \in Frames : page_table[c] = g <=> frames[g].block = c
        /\ \A g \in Frames : frames[g].block # NoBlock => frames[g].data = disk[frames[g].block]
    BY <1>8 DEF FetchMissFree, CacheInv, PageTableExact, CacheCoherent, Alive
  <2>3. \A c \in Blocks : page_table[c] # f
    BY <2>1, <2>2, BlocksNat DEF IsFirstFree
  <2>4. page_table \in [Blocks -> Frames \cup {NoFrame}]
    BY DEF TypeOK
  <2>5. /\ \A c \in Blocks, g \in Frames \ {f} : page_table[c] = g <=> frames[g].block = c
        /\ \A g \in Frames \ {f} :
              frames[g].block # NoBlock => frames[g].data = disk[frames[g].block]
    BY <2>2
  <2> QED
    BY <2>1, <2>2, <2>3, <2>4, <2>5, LoadInv
<1>9. ASSUME NEW b \in Blocks, FetchMissFull(b) PROVE CacheInv'
  BY <1>9 DEF FetchMissFull, cache, CacheInv, PageTableExact, CacheCoherent, Alive
<1>10. ASSUME NEW b \in Blocks, Unpin(b) PROVE CacheInv'
  <2>1. \A f \in Frames : frames[f] \in Frame
    BY DEF TypeOK
  <2>2. \A f \in Frames : frames'[f].block = frames[f].block /\ frames'[f].data = frames[f].data
    BY <1>10, <2>1 DEF Unpin, TypeOK, Frame
  <2> QED
    BY <1>10, <2>2, SameMapping DEF Unpin, Alive
<1>11. ASSUME NEW b \in Blocks, MarkDirty(b) PROVE CacheInv'
  <2>1. \A f \in Frames : frames[f] \in Frame
    BY DEF TypeOK
  <2>2. \A f \in Frames : frames'[f].block = frames[f].block /\ frames'[f].data = frames[f].data
    BY <1>11, <2>1 DEF MarkDirty, TypeOK, Frame
  <2> QED
    BY <1>11, <2>2, SameMapping DEF MarkDirty, Alive
<1>12. ASSUME NEW p \in Policies, SetPolicy(p) PROVE CacheInv'
  BY <1>12, SameMapping DEF SetPolicy, cache, Alive
<1>13. CASE ScanListEmpty
  BY <1>13 DEF ScanListEmpty, CacheInv, PageTableExact, CacheCoherent, Alive
<1>14. CASE ScanListSkip
  BY <1>14, SameMapping DEF ScanListSkip, Alive
<1>15. CASE ScanListEvict
  BY <1>15, EvictInv, PopType DEF ScanListEvict
<1>16. CASE ScanClockSkip
  <2>1. \A f \in Frames : frames[f] \in Frame
    BY DEF TypeOK
  <2>2. \A f \in Frames : frames'[f].block = frames[f].block /\ frames'[f].data = frames[f].data
    BY <1>16, <2>1 DEF ScanClockSkip, TypeOK, Frame
  <2> QED
    BY <1>16, <2>2, SameMapping DEF ScanClockSkip, Alive
<1>17. CASE ScanClockEvict
  BY <1>17, EvictInv DEF ScanClockEvict, TypeOK
<1>18. CASE UNCHANGED vars
  BY <1>18 DEF vars, CacheInv, PageTableExact, CacheCoherent, Alive
<1> QED
  BY <1>1, <1>2, <1>3, <1>4, <1>5, <1>6, <1>7, <1>8, <1>9, <1>10, <1>11, <1>12,
     <1>13, <1>14, <1>15, <1>16, <1>17, <1>18 DEF Next, Scan, WriteRunBlocks, FreeRun, FreeAgain

(* The empty pool satisfies CacheInv.                                       *)
LEMMA CacheInvInit == Init => CacheInv
  BY BlocksNat DEF Init, CacheInv, PageTableExact, CacheCoherent, EmptyFrame

(* CacheInv holds in every state of the pool.                               *)
LEMMA CacheInvAlways == Spec => []CacheInv
  BY TypeCorrect, CacheInvInit, CacheInvStep, PTL DEF Spec

(* The page table and the frames never disagree, under any policy, any      *)
(* change of policy and any recycling of blocks, pinned or not.  Hence the  *)
(* staleness test of the victim loops never skips an entry.                 *)
THEOREM MappingExact == Spec => []PageTableExact
  BY CacheInvAlways, PTL DEF CacheInv

(* A cached block is never older than the disk: cached reads and the reads  *)
(* that bypass the cache agree.                                             *)
THEOREM Coherence == Spec => []CacheCoherent
  BY CacheInvAlways, PTL DEF CacheInv

-----------------------------------------------------------------------------
(* Allocation: NoSharedBlock is inductive together with BelowWatermark and  *)
(* the fact that no run in use has a block of a run that may be freed again.*)
KeptApart == \A r \in kept, s \in runs : Ids(r) \cap Ids(s) = {}

AllocInv == NoSharedBlock /\ BelowWatermark /\ KeptApart

(* A fresh range lies above the watermark, hence apart from every run and from*)
(* the free list.                                                           *)
LEMMA FreshInv ==
  ASSUME TypeOK, AllocInv, NEW n \in 1 .. MaxRun, Room(n),
         runs' = runs \cup {[start |-> NextStart, len |-> n]},
         next_anon' = NextStart + n, free_anon' = free_anon, kept' = kept
  PROVE  AllocInv'
<1> DEFINE r == [start |-> NextStart, len |-> n]
<1>1. NextStart \in Nat /\ NextStart' = NextStart + n /\ r \in Run
  <2>1. NextStart \in Nat /\ r \in Run
    BY FreshType, PoolAssumption DEF AnonBlocks
  <2>2. next_anon' # NoBlock
    BY <2>1, PoolAssumption
  <2> QED
    BY <2>1, <2>2 DEF NextStart
<1>2. \A s \in runs \cup kept : s.start \in Nat /\ s.len \in Nat \ {0}
  BY PoolAssumption DEF TypeOK, Run, AnonBlocks
<1>3. \A i \in DOMAIN free_anon : free_anon[i] \in Nat
  BY PoolAssumption DEF TypeOK, AnonBlocks
<1>4. BelowWatermark'
  BY <1>1, <1>2, <1>3 DEF AllocInv, BelowWatermark
<1>5. \A s \in runs \cup kept : Ids(s) \cap Ids(r) = {}
  BY <1>1, <1>2 DEF AllocInv, BelowWatermark, Ids
<1>6. \A i \in DOMAIN free_anon : free_anon[i] \notin Ids(r)
  BY <1>1, <1>3 DEF AllocInv, BelowWatermark, Ids
<1>7. NoSharedBlock'
  BY <1>5, <1>6 DEF AllocInv, NoSharedBlock
<1>8. KeptApart'
  BY <1>5 DEF AllocInv, KeptApart
<1> QED
  BY <1>4, <1>7, <1>8 DEF AllocInv

(* Popping the free list gives an id no run has and leaves it nowhere else. *)
LEMMA RecycledInv ==
  ASSUME TypeOK, AllocInv, free_anon # <<>>,
         runs' = runs \cup {[start |-> free_anon[Len(free_anon)], len |-> 1]},
         free_anon' = SubSeq(free_anon, 1, Len(free_anon) - 1),
         next_anon' = next_anon, kept = {}, kept' = {}
  PROVE  AllocInv'
<1> DEFINE last == Len(free_anon)
           r    == [start |-> free_anon[last], len |-> 1]
<1>1. free_anon \in Seq(AnonBlocks) /\ last \in Nat \ {0} /\ last \in DOMAIN free_anon
  BY DEF TypeOK
<1>2. free_anon[last] \in Nat /\ Ids(r) = {free_anon[last]}
  BY <1>1, PoolAssumption DEF AnonBlocks, Ids
<1>3. /\ DOMAIN free_anon' = 1 .. last - 1
      /\ \A i \in 1 .. last - 1 : free_anon'[i] = free_anon[i] /\ i \in DOMAIN free_anon
  BY <1>1
<1>4. NextStart' = NextStart /\ NextStart \in Nat
  BY PoolAssumption DEF NextStart, TypeOK
<1>5. BelowWatermark'
  BY <1>1, <1>2, <1>3, <1>4 DEF AllocInv, BelowWatermark
<1>6. \A s \in runs : free_anon[last] \notin Ids(s)
  BY <1>1 DEF AllocInv, NoSharedBlock
<1>7. \A s, t \in runs' : s # t => Ids(s) \cap Ids(t) = {}
  BY <1>2, <1>6 DEF AllocInv, NoSharedBlock
<1>8. \A i \in DOMAIN free_anon' : free_anon'[i] # free_anon[last]
  BY <1>1, <1>3 DEF AllocInv, NoSharedBlock
<1>9. NoSharedBlock'
  <2>1. ASSUME NEW i \in DOMAIN free_anon', NEW s \in runs'
        PROVE  free_anon'[i] \notin Ids(s)
    <3>1. i \in DOMAIN free_anon /\ free_anon'[i] = free_anon[i]
      BY <1>3, <2>1
    <3>2. CASE s \in runs
      BY <3>1, <3>2 DEF AllocInv, NoSharedBlock
    <3>3. CASE s = r
      BY <1>2, <1>8, <2>1, <3>3
    <3> QED
      BY <2>1, <3>2, <3>3
  <2>2. ASSUME NEW i \in DOMAIN free_anon', NEW j \in DOMAIN free_anon',
               free_anon'[i] = free_anon'[j]
        PROVE  i = j
    <3>1. /\ i \in DOMAIN free_anon /\ j \in DOMAIN free_anon
          /\ free_anon[i] = free_anon[j]
      BY <1>3, <2>2
    <3> QED
      BY <3>1 DEF AllocInv, NoSharedBlock
  <2> QED
    BY <1>7, <2>1, <2>2 DEF NoSharedBlock
<1> QED
  BY <1>5, <1>9 DEF AllocInv, KeptApart

(* A run given to free_run is not in use any more, so its ids on the free   *)
(* list are in no run; they are there once, if it is for the first time.    *)
LEMMA FreeInv ==
  ASSUME TypeOK, AllocInv, NEW r \in runs \cup kept,
         runs' = runs \ {r}, kept' \in {kept, kept \cup {r}},
         free_anon' = free_anon \o [k \in 1 .. r.len |-> r.start + k - 1],
         next_anon' = next_anon
  PROVE  AllocInv'
<1> DEFINE ids == [k \in 1 .. r.len |-> r.start + k - 1]
           n   == Len(free_anon)
<1>1. r \in Run /\ r.start \in Nat /\ r.len \in Nat
  BY PoolAssumption DEF TypeOK, Run, AnonBlocks
<1>2. free_anon \in Seq(AnonBlocks) /\ n \in Nat /\ DOMAIN free_anon = 1 .. n
  BY DEF TypeOK
<1>3. /\ DOMAIN free_anon' = 1 .. n + r.len
      /\ \A i \in 1 .. n : free_anon'[i] = free_anon[i]
      /\ \A i \in n + 1 .. n + r.len : free_anon'[i] = r.start + (i - n) - 1
  <2>1. ids \in Seq(Int) /\ Len(ids) = r.len
    <3> DEFINE m     == r.len
               el(k) == r.start + k - 1
    <3>1. m \in Nat /\ \A k \in 1 .. m : el(k) \in Int
      BY <1>1
    <3> HIDE DEF m, el
    <3>2. [k \in 1 .. m |-> el(k)] \in Seq(Int) /\ Len([k \in 1 .. m |-> el(k)]) = m
      BY <3>1
    <3> QED
      BY <3>2 DEF m, el
  <2>2. free_anon \in Seq(Int)
    BY <1>2, PoolAssumption DEF AnonBlocks
  <2>3. free_anon' = free_anon \o ids
    OBVIOUS
  <2>4. \A i \in n + 1 .. n + r.len : free_anon'[i] = ids[i - n]
    BY <1>1, <1>2, <2>1, <2>2, <2>3
  <2> QED
    BY <1>1, <1>2, <2>1, <2>2, <2>3, <2>4
<1>4. NextStart' = NextStart /\ NextStart \in Nat
  BY PoolAssumption DEF NextStart, TypeOK
<1>5. \A i \in n + 1 .. n + r.len : free_anon'[i] \in Ids(r)
  BY <1>1, <1>2, <1>3 DEF Ids
<1>6. BelowWatermark'
  <2>1. \A s \in runs' \cup kept' : s.start + s.len <= NextStart
    BY DEF AllocInv, BelowWatermark
  <2>2. r.start + r.len <= NextStart /\ \A i \in 1 .. n : free_anon[i] < NextStart
    BY <1>2 DEF AllocInv, BelowWatermark
  <2>3. ASSUME NEW i \in 1 .. n + r.len PROVE free_anon'[i] < NextStart
    <3>1. CASE i \in 1 .. n
      BY <1>3, <2>2, <3>1
    <3>2. CASE i \in n + 1 .. n + r.len
      <4>1. free_anon'[i] = r.start + (i - n) - 1 /\ i - n <= r.len
        BY <1>1, <1>2, <1>3, <3>2
      <4> QED
        BY <1>1, <1>2, <1>4, <2>2, <3>2, <4>1
    <3> QED
      BY <1>1, <1>2, <3>1, <3>2
  <2> QED
    BY <1>3, <1>4, <2>1, <2>3 DEF BelowWatermark
<1>7. \A s \in runs' : Ids(s) \cap Ids(r) = {}
  BY DEF AllocInv, NoSharedBlock, KeptApart
<1>8. ASSUME NEW i \in DOMAIN free_anon', NEW j \in DOMAIN free_anon',
             free_anon'[i] = free_anon'[j], kept' = {}
      PROVE  i = j
  <2> r \in runs /\ kept = {}
    BY <1>8
  <2>1. CASE i <= n /\ j <= n
    BY <1>2, <1>3, <1>8, <2>1 DEF AllocInv, NoSharedBlock
  <2>2. CASE i > n /\ j > n
    <3>1. i \in n + 1 .. n + r.len /\ j \in n + 1 .. n + r.len
      BY <1>1, <1>2, <1>3, <2>2
    <3>2. r.start + (i - n) - 1 = r.start + (j - n) - 1
      BY <1>3, <1>8, <3>1
    <3> QED
      BY <1>1, <1>2, <3>1, <3>2
  <2>3. \A k \in 1 .. n : free_anon'[k] \notin Ids(r)
    BY <1>2, <1>3 DEF AllocInv, NoSharedBlock
  <2>4. i \in 1 .. n + r.len /\ j \in 1 .. n + r.len
    BY <1>3
  <2>5. CASE i <= n /\ j > n
    <3>1. i \in 1 .. n /\ j \in n + 1 .. n + r.len
      BY <1>1, <1>2, <2>4, <2>5
    <3> QED
      BY <1>5, <1>8, <2>3, <3>1
  <2>6. CASE i > n /\ j <= n
    <3>1. j \in 1 .. n /\ i \in n + 1 .. n + r.len
      BY <1>1, <1>2, <2>4, <2>6
    <3> QED
      BY <1>5, <1>8, <2>3, <3>1
  <2> QED
    BY <1>1, <1>2, <2>1, <2>2, <2>4, <2>5, <2>6
<1>9. ASSUME NEW i \in DOMAIN free_anon', NEW s \in runs'
      PROVE  free_anon'[i] \notin Ids(s)
  BY <1>1, <1>2, <1>3, <1>5, <1>7 DEF AllocInv, NoSharedBlock
<1>10. NoSharedBlock'
  BY <1>8, <1>9 DEF AllocInv, NoSharedBlock
<1>11. KeptApart'
  BY <1>7 DEF AllocInv, KeptApart
<1> QED
  BY <1>6, <1>10, <1>11 DEF AllocInv

(* Steps that leave the allocator alone keep AllocInv.                      *)
LEMMA SameAlloc == AllocInv /\ UNCHANGED alloc => AllocInv'
  BY DEF AllocInv, NoSharedBlock, BelowWatermark, KeptApart, NextStart, alloc

(* AllocInv is inductive: allocating, writing and freeing keep runs disjoint.*)
LEMMA AllocInvStep == TypeOK /\ AllocInv /\ [Next]_vars => AllocInv'
<1> SUFFICES ASSUME TypeOK, AllocInv, [Next]_vars PROVE AllocInv'
  OBVIOUS
<1>1. CASE AllocateRecycled
  BY <1>1, RecycledInv DEF AllocateRecycled, MayRecycle
<1>2. ASSUME NEW n \in 1 .. MaxRun, AllocateFresh(n) PROVE AllocInv'
  BY <1>2, FreshInv DEF AllocateFresh
<1>3. ASSUME NEW n \in 1 .. MaxRun, NEW cs \in Payloads(n), WriteRawRun(cs)
      PROVE  AllocInv'
  <2>1. Len(cs) = n
    BY DEF Payloads
  <2> QED
    BY <1>3, <2>1, FreshInv DEF WriteRawRun
<1>4. ASSUME NEW n \in 1 .. MaxRun, NEW cs \in Payloads(n), WriteRunRecycled(cs)
      PROVE  AllocInv'
  BY <1>4, RecycledInv DEF WriteRunRecycled, MayRecycle
<1>5. ASSUME NEW r \in runs, FreeRun(r) PROVE AllocInv'
  BY <1>5, FreeInv DEF FreeRun, Free
<1>12. ASSUME NEW r \in kept, FreeAgain(r) PROVE AllocInv'
  <2>1. r \notin runs
    <3>1. r.start \in Ids(r)
      BY PoolAssumption DEF TypeOK, Run, AnonBlocks, Ids
    <3> QED
      BY <3>1 DEF AllocInv, KeptApart
  <2> QED
    BY <1>12, <2>1, FreeInv DEF FreeAgain, Free
<1>6. CASE UNCHANGED alloc
  BY <1>6, SameAlloc
<1>7. ASSUME NEW r \in runs, NEW cs \in Payloads(r.len), WriteBlocks(r, cs)
      PROVE  UNCHANGED alloc
  BY <1>7 DEF WriteBlocks
<1>8. ASSUME NEW b \in Blocks,
             FetchHit(b) \/ FetchMissFree(b) \/ FetchMissFull(b) \/ Unpin(b) \/ MarkDirty(b)
      PROVE  UNCHANGED alloc
  BY <1>8 DEF FetchHit, FetchMissFree, FetchMissFull, Unpin, MarkDirty
<1>9. ASSUME NEW p \in Policies, SetPolicy(p) PROVE UNCHANGED alloc
  BY <1>9 DEF SetPolicy
<1>10. ASSUME Scan PROVE UNCHANGED alloc
  BY <1>10 DEF Scan, ScanListEmpty, ScanListSkip, ScanListEvict, ScanClockSkip, ScanClockEvict
<1>11. ASSUME UNCHANGED vars PROVE UNCHANGED alloc
  BY <1>11 DEF vars, alloc
<1> QED
  BY <1>1, <1>2, <1>3, <1>4, <1>5, <1>6, <1>7, <1>8, <1>9, <1>10, <1>11, <1>12
     DEF Next, WriteRunBlocks

(* The empty allocator satisfies AllocInv.                                  *)
LEMMA AllocInvInit == Init => AllocInv
  BY DEF Init, AllocInv, NoSharedBlock, BelowWatermark, KeptApart

(* AllocInv holds in every state of the pool.                               *)
LEMMA AllocInvAlways == Spec => []AllocInv
  BY TypeCorrect, AllocInvInit, AllocInvStep, PTL DEF Spec

(* No two runs in use share a block and no block to be recycled is in use,   *)
(* also if runs are freed twice: spills never overwrite each other.          *)
THEOREM Ownership == Spec => []NoSharedBlock
  BY AllocInvAlways, PTL DEF AllocInv

-----------------------------------------------------------------------------
(* Pins: PinsMatch, for callers that neither free nor write a block         *)
(* somebody has pinned.                                                     *)
PinStep == \A b \in Blocks : held[b] > 0 => page_table'[b] = page_table[b] \/ held'[b] = 0

(* Invalidating blocks nobody has pinned changes no pin that is owed.       *)
LEMMA UncachePins ==
  ASSUME TypeOK, CacheInv, PinsMatch, mode = "ready", NEW ids, Uncache(ids),
         held' = held, \A b \in Blocks : b \in ids => held[b] = 0
  PROVE  PinsMatch' /\ PinStep
<1>1. \A f \in Frames : frames'[f].pin = frames[f].pin
  <2>1. \A f \in Frames : frames[f] \in Frame
    BY DEF TypeOK
  <2> QED
    BY <2>1 DEF Uncache, Frame
<1>2. \A b \in Blocks : page_table'[b] = (IF b \in ids THEN NoFrame ELSE page_table[b])
  BY DEF Uncache
<1>3. \A b \in Blocks : page_table[b] \in Frames \cup {NoFrame}
  BY DEF TypeOK
<1>4. \A b \in Blocks :
         held[b] = IF page_table[b] = NoFrame THEN 0 ELSE frames[page_table[b]].pin
  BY DEF PinsMatch, Alive
<1>5. ASSUME NEW b \in Blocks
      PROVE  held'[b] = IF page_table'[b] = NoFrame THEN 0 ELSE frames'[page_table'[b]].pin
  BY <1>1, <1>2, <1>3, <1>4
<1>6. PinsMatch'
  BY <1>5 DEF PinsMatch
<1> QED
  BY <1>2, <1>6 DEF PinStep

(* A loaded block starts with the one pin of the fetch that loaded it.      *)
LEMMA LoadPins ==
  ASSUME TypeOK, NEW b \in Blocks, NEW f \in Frames, NEW d, NEW lru,
         NEW pt \in [Blocks -> Frames \cup {NoFrame}],
         Load(b, f, d, pt, lru),
         pt[b] = NoFrame, page_table[b] = NoFrame,
         \A c \in Blocks : pt[c] # f,
         \A c \in Blocks : held[c] = IF pt[c] = NoFrame THEN 0 ELSE frames[pt[c]].pin,
         \A c \in Blocks : pt[c] # page_table[c] => held[c] = 0
  PROVE  PinsMatch' /\ PinStep
<1>1. CASE d[b] = NoData
  BY <1>1 DEF Load, PinsMatch, PinStep, Alive
<1>2. CASE d[b] # NoData
  <2>1. frames'[f].pin = 1 /\ \A g \in Frames \ {f} : frames'[g] = frames[g]
    BY <1>2 DEF Load, TypeOK
  <2>2. page_table'[b] = f /\ \A c \in Blocks \ {b} : page_table'[c] = pt[c]
    BY <1>2 DEF Load
  <2>3. held'[b] = held[b] + 1 /\ \A c \in Blocks \ {b} : held'[c] = held[c]
    BY <1>2 DEF Load, TypeOK
  <2>4. ASSUME NEW c \in Blocks
        PROVE  held'[c] = IF page_table'[c] = NoFrame THEN 0 ELSE frames'[page_table'[c]].pin
    <3>1. CASE c = b
      <4>1. held[b] = 0 /\ f # NoFrame
        BY BlocksNat
      <4> QED
        BY <2>1, <2>2, <2>3, <3>1, <4>1
    <3>2. CASE c # b
      <4>1. page_table'[c] = pt[c] /\ held'[c] = held[c] /\ pt[c] # f
        BY <2>2, <2>3, <3>2
      <4>2. pt[c] # NoFrame => frames'[pt[c]] = frames[pt[c]]
        BY <2>1, <4>1
      <4> QED
        BY <4>1, <4>2
    <3> QED
      BY <3>1, <3>2
  <2>5. PinsMatch'
    BY <2>4 DEF PinsMatch
  <2>6. PinStep
    BY <2>2, <2>3 DEF PinStep
  <2> QED
    BY <2>5, <2>6
<1> QED
  BY <1>1, <1>2

(* Evicting an unpinned frame takes a block from nobody who has it pinned.  *)
LEMMA EvictPins ==
  ASSUME TypeOK, CacheInv, PinsMatch, mode = "scan",
         NEW f \in Frames, frames[f].pin = 0, NEW lru, Evict(f, lru)
  PROVE  PinsMatch' /\ PinStep
<1> DEFINE old == frames[f].block
           d   == IF frames[f].dirty THEN [disk EXCEPT ![old] = frames[f].data] ELSE disk
           pt  == [page_table EXCEPT ![old] = NoFrame]
<1>1. /\ old \in Blocks /\ want \in Blocks
      /\ page_table[want] = NoFrame /\ page_table[old] = f
      /\ \A b \in Blocks, g \in Frames : page_table[b] = g <=> frames[g].block = b
      /\ \A c \in Blocks : held[c] = IF page_table[c] = NoFrame THEN 0 ELSE frames[page_table[c]].pin
  <2>1. frames[f] \in Frame /\ old # NoBlock
    BY DEF CacheInv, TypeOK
  <2> QED
    BY <2>1 DEF CacheInv, PageTableExact, PinsMatch, Alive, TypeOK, Frame
<1>2. pt \in [Blocks -> Frames \cup {NoFrame}] /\ pt[want] = NoFrame
  BY <1>1 DEF TypeOK
<1>3. held[old] = 0
  <2>1. held[old] = frames[page_table[old]].pin
    BY <1>1, BlocksNat
  <2> QED
    BY <1>1, <2>1
<1>4. ASSUME NEW c \in Blocks
      PROVE  pt[c] # f /\ (pt[c] # page_table[c] => c = old)
  <2>1. pt[c] = IF c = old THEN NoFrame ELSE page_table[c]
    BY <1>1 DEF TypeOK
  <2>2. page_table[c] = f => c = old
    BY <1>1
  <2> QED
    BY <2>1, <2>2, BlocksNat
<1>5. \A c \in Blocks : held[c] = IF pt[c] = NoFrame THEN 0 ELSE frames[pt[c]].pin
  BY <1>1, <1>3 DEF TypeOK
<1>6. CASE frames[f].dirty /\ old \in FileBlocks
  BY <1>4, <1>6, <1>3 DEF Evict, PinsMatch, PinStep, Alive
<1>7. CASE ~(frames[f].dirty /\ old \in FileBlocks)
  <2>1. Load(want, f, d, pt, lru)
    BY <1>7 DEF Evict
  <2> HIDE DEF pt, d
  <2> QED
    BY <1>1, <1>2, <1>4, <1>5, <1>3, <2>1, LoadPins
<1> QED
  BY <1>6, <1>7

(* Steps that change neither the mapping nor the counts keep PinsMatch.     *)
LEMMA SamePins ==
  ASSUME PinsMatch, Alive, page_table' = page_table, held' = held,
         page_table \in [Blocks -> Frames \cup {NoFrame}],
         \A f \in Frames : frames'[f].pin = frames[f].pin
  PROVE  PinsMatch' /\ PinStep
  BY DEF PinsMatch, PinStep

(* Under the callers' discipline every step keeps PinsMatch, and a block pinned*)
(* before and after it stays where it is.                                   *)
LEMMA PinsStep ==
  ASSUME ~OverwritePinned, TypeOK, CacheInv, PinsMatch, Next
  PROVE  PinsMatch' /\ PinStep
<1>1. page_table \in [Blocks -> Frames \cup {NoFrame}] /\ \A f \in Frames : frames[f] \in Frame
  BY DEF TypeOK
<1>2. CASE AllocateRecycled
  BY <1>1, <1>2, SamePins DEF AllocateRecycled, cache, Alive
<1>3. ASSUME NEW n \in 1 .. MaxRun, AllocateFresh(n) PROVE PinsMatch' /\ PinStep
  BY <1>1, <1>3, SamePins DEF AllocateFresh, cache, Alive
<1>4. ASSUME NEW n \in 1 .. MaxRun, NEW cs \in Payloads(n), WriteRawRun(cs)
      PROVE  PinsMatch' /\ PinStep
  BY <1>4, UncachePins DEF WriteRawRun, MayInvalidate
<1>5. ASSUME NEW n \in 1 .. MaxRun, NEW cs \in Payloads(n), WriteRunRecycled(cs)
      PROVE  PinsMatch' /\ PinStep
  BY <1>5, UncachePins DEF WriteRunRecycled, MayInvalidate
<1>6. ASSUME NEW r \in runs \cup kept, Free(r) PROVE PinsMatch' /\ PinStep
  BY <1>6, UncachePins DEF Free, MayInvalidate
<1>7. ASSUME NEW r \in runs, NEW cs \in Payloads(r.len), WriteBlocks(r, cs)
      PROVE  PinsMatch' /\ PinStep
  BY <1>7, UncachePins DEF WriteBlocks, MayInvalidate
<1>8. ASSUME NEW b \in Blocks, NEW f \in Frames, NEW k \in {1, -1},
             page_table[b] = f, Alive,
             page_table' = page_table,
             held' = [held EXCEPT ![b] = @ + k],
             frames'[f].pin = frames[f].pin + k,
             \A g \in Frames \ {f} : frames'[g].pin = frames[g].pin
      PROVE  PinsMatch' /\ PinStep
  <2>1. \A c \in Blocks \ {b} : page_table[c] # f
    BY <1>8, BlocksNat DEF CacheInv, PageTableExact
  <2>2. \A c \in Blocks :
           held[c] = IF page_table[c] = NoFrame THEN 0 ELSE frames[page_table[c]].pin
    BY <1>8 DEF PinsMatch
  <2>3. held'[b] = held[b] + k /\ \A c \in Blocks \ {b} : held'[c] = held[c]
    BY <1>8 DEF TypeOK
  <2>4. ASSUME NEW c \in Blocks
        PROVE  held'[c] = IF page_table'[c] = NoFrame THEN 0 ELSE frames'[page_table'[c]].pin
    BY <1>1, <1>8, <2>1, <2>2, <2>3, BlocksNat
  <2> QED
    BY <1>8, <2>4 DEF PinsMatch, PinStep
<1>9. ASSUME NEW b \in Blocks, FetchHit(b) PROVE PinsMatch' /\ PinStep
  <2> DEFINE f == page_table[b]
  <2>1. f \in Frames
    BY <1>1, <1>9 DEF FetchHit
  <2>2. frames' = [frames EXCEPT ![f].pin = @ + 1, ![f].referenced = TRUE]
    BY <1>9 DEF FetchHit
  <2>3. frames'[f].pin = frames[f].pin + 1
    BY <1>1, <2>1, <2>2 DEF TypeOK, Frame
  <2>4. \A g \in Frames \ {f} : frames'[g].pin = frames[g].pin
    BY <2>1, <2>2 DEF TypeOK
  <2>5. page_table' = page_table /\ held' = [held EXCEPT ![b] = @ + 1] /\ Alive
    BY <1>9 DEF FetchHit, Alive
  <2> HIDE DEF f
  <2>6. page_table[b] = f
    BY DEF f
  <2> QED
    BY <1>8, <2>1, <2>3, <2>4, <2>5, <2>6
<1>10. ASSUME NEW b \in Blocks, FetchMissFree(b) PROVE PinsMatch' /\ PinStep
  <2>1. PICK f \in Frames : IsFirstFree(f) /\ Load(b, f, disk, page_table, lru_list)
    BY <1>10 DEF FetchMissFree
  <2>2. page_table[b] = NoFrame /\ \A c \in Blocks : page_table[c] # f
    BY <1>10, <2>1, BlocksNat DEF FetchMissFree, IsFirstFree, CacheInv, PageTableExact, Alive
  <2>3. \A c \in Blocks :
           held[c] = IF page_table[c] = NoFrame THEN 0 ELSE frames[page_table[c]].pin
    BY <1>10 DEF FetchMissFree, PinsMatch, Alive
  <2> QED
    BY <1>1, <2>1, <2>2, <2>3, LoadPins
<1>11. ASSUME NEW b \in Blocks, FetchMissFull(b) PROVE PinsMatch' /\ PinStep
  BY <1>1, <1>11, SamePins DEF FetchMissFull, cache, Alive
<1>12. ASSUME NEW b \in Blocks, Unpin(b) PROVE PinsMatch' /\ PinStep
  <2> DEFINE f == page_table[b]
  <2>1. f \in Frames /\ frames[f].pin > 0
    BY <1>1, <1>12 DEF Unpin, PinsMatch, Alive
  <2>2. frames' = [frames EXCEPT ![f].pin = @ - 1]
    BY <1>12, <2>1, BlocksNat DEF Unpin
  <2>3. frames'[f].pin = frames[f].pin - 1
    BY <1>1, <2>1, <2>2 DEF TypeOK, Frame
  <2>4. \A g \in Frames \ {f} : frames'[g].pin = frames[g].pin
    BY <2>1, <2>2 DEF TypeOK
  <2>5. page_table' = page_table /\ held' = [held EXCEPT ![b] = @ - 1] /\ Alive
    BY <1>12 DEF Unpin, Alive
  <2>6. frames[f].pin \in Nat /\ held[b] \in Nat
    BY <1>1, <2>1 DEF TypeOK, Frame
  <2>7. frames'[f].pin = frames[f].pin + (-1) /\ held' = [held EXCEPT ![b] = @ + (-1)]
    BY <2>3, <2>5, <2>6 DEF TypeOK
  <2> HIDE DEF f
  <2>8. page_table[b] = f
    BY DEF f
  <2> QED
    BY <1>8, <2>1, <2>4, <2>5, <2>7, <2>8
<1>13. ASSUME NEW b \in Blocks, MarkDirty(b) PROVE PinsMatch' /\ PinStep
  <2>1. \A f \in Frames : frames'[f].pin = frames[f].pin
    BY <1>1, <1>13 DEF MarkDirty, TypeOK, Frame
  <2> QED
    BY <1>1, <1>13, <2>1, SamePins DEF MarkDirty, Alive
<1>14. ASSUME NEW p \in Policies, SetPolicy(p) PROVE PinsMatch' /\ PinStep
  BY <1>1, <1>14, SamePins DEF SetPolicy, cache, Alive
<1>15. CASE ScanListEmpty
  BY <1>15 DEF ScanListEmpty, cache, PinsMatch, PinStep, Alive
<1>16. CASE ScanListSkip
  BY <1>1, <1>16, SamePins DEF ScanListSkip, Alive
<1>17. CASE ScanListEvict
  BY <1>17, EvictPins, PopType DEF ScanListEvict
<1>18. CASE ScanClockSkip
  <2>1. \A f \in Frames : frames'[f].pin = frames[f].pin
    BY <1>1, <1>18 DEF ScanClockSkip, TypeOK, Frame
  <2> QED
    BY <1>1, <1>18, <2>1, SamePins DEF ScanClockSkip, Alive
<1>19. CASE ScanClockEvict
  BY <1>19, EvictPins DEF ScanClockEvict, TypeOK
<1> QED
  BY <1>2, <1>3, <1>4, <1>5, <1>6, <1>7, <1>9, <1>10, <1>11, <1>12, <1>13, <1>14,
     <1>15, <1>16, <1>17, <1>18, <1>19 DEF Next, Scan, WriteRunBlocks, FreeRun, FreeAgain

(* No pins at the start.                                                    *)
LEMMA PinsInit == Init => PinsMatch
  BY DEF Init, PinsMatch

(* PinsMatch is inductive relative to TypeOK and CacheInv.                  *)
LEMMA PinsInductive ==
  ASSUME ~OverwritePinned
  PROVE  TypeOK /\ CacheInv /\ PinsMatch /\ [Next]_vars => PinsMatch'
<1> SUFFICES ASSUME TypeOK, CacheInv, PinsMatch, [Next]_vars PROVE PinsMatch'
  OBVIOUS
<1>1. CASE Next
  BY <1>1, PinsStep
<1>2. CASE UNCHANGED vars
  BY <1>2 DEF vars, PinsMatch, Alive
<1> QED
  BY <1>1, <1>2

(* If callers do not free or overwrite blocks they have pinned, a frame's   *)
(* pin count is exactly what callers still owe: no pin is lost and no unpin *)
(* releases somebody else's.                                                *)
THEOREM PinCounts == ~OverwritePinned => (Spec => []PinsMatch)
<1> SUFFICES ASSUME ~OverwritePinned PROVE Spec => []PinsMatch
  OBVIOUS
<1> QED
  BY TypeCorrect, CacheInvAlways, PinsInit, PinsInductive, PTL DEF Spec

(* Under the same discipline no pinned block is ever evicted: PinProtects.  *)
THEOREM PinnedStays == ~OverwritePinned => (Spec => PinProtects)
<1> SUFFICES ASSUME ~OverwritePinned PROVE Spec => PinProtects
  OBVIOUS
<1>1. TypeOK /\ CacheInv /\ PinsMatch /\ [Next]_vars =>
        [\A b \in Blocks :
          held[b] > 0 /\ held'[b] > 0 => page_table'[b] = page_table[b]]_vars
  <2> SUFFICES ASSUME TypeOK, CacheInv, PinsMatch, Next
               PROVE  \A b \in Blocks :
                        held[b] > 0 /\ held'[b] > 0 => page_table'[b] = page_table[b]
    BY DEF vars
  <2> QED
    BY PinsStep DEF PinStep
<1>2. Spec => []PinsMatch
  BY PinCounts
<1> QED
  BY <1>1, <1>2, TypeCorrect, CacheInvAlways, PTL DEF Spec, PinProtects

-----------------------------------------------------------------------------
(* The test by which the list loops skip "stale duplicates" (lines 268-273,  *)
(* 290-294) never rejects an entry: page table and frames always agree, so  *)
(* an entry whose frame was given to another block since passes it as well. *)
THEOREM NeverStale == Spec => [](Alive => \A f \in Frames : ~Stale(f))
<1>1. ASSUME TypeOK, CacheInv, Alive, NEW f \in Frames PROVE ~Stale(f)
  <2>1. frames[f] \in Frame
    BY <1>1 DEF TypeOK
  <2> QED
    BY <1>1, <2>1 DEF Stale, CacheInv, PageTableExact, Frame
<1>2. TypeOK /\ CacheInv => (Alive => \A f \in Frames : ~Stale(f))
  BY <1>1
<1> QED
  BY <1>2, TypeCorrect, CacheInvAlways, PTL

-----------------------------------------------------------------------------
(* Exhaustion.  CLOCK keeps no list, so the list policies are safe only if  *)
(* the pool never comes to them from CLOCK: the code's one call of          *)
(* set_eviction_policy sets LRU, with which the pool starts.                *)
ListsKept == "CLOCK" \notin FirstPolicies \cup Policies \/ Policies \subseteq {"CLOCK"}

Queued(f, lru) == \E i \in 1 .. Len(lru) : lru[i] = f

(* The list has every frame in use, so a victim search that starts on a full*)
(* pool never empties it: neither list loop ever says "exhausted".          *)
ListInv ==
    /\ policy = "CLOCK" => Policies \subseteq {"CLOCK"}
    /\ mode # "exhausted"
    /\ Alive /\ policy # "CLOCK" =>
          \A f \in Frames : frames[f].block # NoBlock => Queued(f, lru_list)

(* What the list operations keep queued.                                    *)
LEMMA TouchQueues ==
  ASSUME NEW lru \in Seq(Frames), NEW f \in Frames, policy # "CLOCK"
  PROVE  /\ Queued(f, Touched(f, lru))
         /\ \A g \in Frames : Queued(g, lru) => Queued(g, Touched(f, lru))
<1> DEFINE t == Touched(f, lru)
<1>1. /\ Len(t) = Len(lru) + 1 /\ Len(lru) \in Nat /\ t[1] = f
      /\ \A i \in 1 .. Len(lru) : t[i + 1] = lru[i]
  BY DEF Touched
<1> HIDE DEF t
<1>2. Queued(f, t)
  BY <1>1 DEF Queued
<1>3. ASSUME NEW g \in Frames, NEW i \in 1 .. Len(lru), lru[i] = g PROVE Queued(g, t)
  <2>1. i + 1 \in 1 .. Len(t) /\ t[i + 1] = g
    BY <1>1, <1>3
  <2> QED
    BY <2>1 DEF Queued
<1> QED
  BY <1>2, <1>3 DEF Queued, t

(* Lists with their last entry taken off, or one put in front.               *)
LEMMA Cut ==
  ASSUME NEW S, NEW s \in Seq(S), NEW m \in Nat, m <= Len(s)
  PROVE  Len(SubSeq(s, 1, m)) = m /\ \A i \in 1 .. m : SubSeq(s, 1, m)[i] = s[i]
OBVIOUS

LEMMA Prepended ==
  ASSUME NEW S, NEW s \in Seq(S), NEW e \in S
  PROVE  /\ Len(<<e>> \o s) = Len(s) + 1 /\ (<<e>> \o s)[1] = e
         /\ \A i \in 1 .. Len(s) : (<<e>> \o s)[i + 1] = s[i]
OBVIOUS

(* Popping an entry dequeues at most its frame, and putting it back nothing.*)
LEMMA PopQueues ==
  ASSUME TypeOK, lru_list # <<>>
  PROVE  /\ \A g \in Frames \ {Popped} : Queued(g, lru_list) => Queued(g, Rest)
         /\ \A g \in Frames : Queued(g, lru_list) => Queued(g, PutBack(Popped))
<1> DEFINE n == Len(lru_list)
<1>1. lru_list \in Seq(Frames) /\ n \in Nat \ {0}
  BY DEF TypeOK
<1>2. Popped \in Frames /\ Rest \in Seq(Frames)
  BY PopType
<1>3. CASE policy = "LRU"
  <2>1. Len(Rest) = n - 1 /\ \A i \in 1 .. n - 1 : Rest[i] = lru_list[i]
    <3>1. Rest = SubSeq(lru_list, 1, n - 1)
      BY <1>3 DEF Rest
    <3>2. n - 1 \in Nat /\ n - 1 <= Len(lru_list)
      BY <1>1
    <3> QED
      BY <1>1, <3>1, <3>2, Cut
  <2>2. /\ Len(<<Popped>> \o Rest) = n /\ (<<Popped>> \o Rest)[1] = Popped
        /\ \A i \in 1 .. n - 1 : (<<Popped>> \o Rest)[i + 1] = Rest[i]
    <3>1. /\ Len(<<Popped>> \o Rest) = Len(Rest) + 1 /\ (<<Popped>> \o Rest)[1] = Popped
          /\ \A i \in 1 .. Len(Rest) : (<<Popped>> \o Rest)[i + 1] = Rest[i]
      BY <1>2, Prepended
    <3>2. Len(Rest) = n - 1 /\ (n - 1) + 1 = n
      BY <1>1, <2>1
    <3> QED
      BY <3>1, <3>2
  <2>3. Popped = lru_list[n] /\ PutBack(Popped) = <<Popped>> \o Rest
    BY <1>3 DEF Popped, PutBack
  <2>4. ASSUME NEW g \in Frames, NEW i \in 1 .. n, lru_list[i] = g
        PROVE  (g # Popped => Queued(g, Rest)) /\ Queued(g, PutBack(Popped))
    <3>1. CASE i = n
      BY <1>1, <2>2, <2>3, <2>4, <3>1 DEF Queued
    <3>2. CASE i \in 1 .. n - 1
      <4>1. Rest[i] = g /\ i + 1 \in 1 .. n /\ PutBack(Popped)[i + 1] = g
        BY <1>1, <2>1, <2>2, <2>3, <2>4, <3>2
      <4> QED
        BY <2>1, <2>2, <2>3, <3>2, <4>1 DEF Queued
    <3> QED
      BY <1>1, <3>1, <3>2
  <2> QED
    BY <2>4 DEF Queued
<1>4. CASE policy # "LRU"
  <2>1. Len(Rest) = n - 1 /\ \A i \in 1 .. n - 1 : Rest[i] = lru_list[i + 1]
    BY <1>1, <1>4 DEF Rest
  <2>2. /\ Len(Append(Rest, Popped)) = n /\ Append(Rest, Popped)[n] = Popped
        /\ \A i \in 1 .. n - 1 : Append(Rest, Popped)[i] = Rest[i]
    BY <1>1, <1>2, <2>1
  <2>3. Popped = lru_list[1] /\ PutBack(Popped) = Append(Rest, Popped)
    BY <1>1, <1>4 DEF Popped, PutBack
  <2>4. ASSUME NEW g \in Frames, NEW i \in 1 .. n, lru_list[i] = g
        PROVE  (g # Popped => Queued(g, Rest)) /\ Queued(g, PutBack(Popped))
    <3>1. CASE i = 1
      BY <1>1, <2>2, <2>3, <2>4, <3>1 DEF Queued
    <3>2. CASE i \in 2 .. n
      <4>1. i - 1 \in 1 .. n - 1 /\ (i - 1) + 1 = i
        BY <1>1, <3>2
      <4>2. Rest[i - 1] = g /\ PutBack(Popped)[i - 1] = g
        BY <2>1, <2>2, <2>3, <2>4, <4>1
      <4> QED
        BY <1>1, <2>1, <2>2, <2>3, <4>1, <4>2 DEF Queued
    <3> QED
      BY <1>1, <3>1, <3>2
  <2> QED
    BY <2>4 DEF Queued
<1> QED
  BY <1>3, <1>4

(* A loaded frame is queued, and those queued before stay queued.           *)
LEMMA LoadListed ==
  ASSUME TypeOK, ListInv, NEW b \in Blocks, NEW f \in Frames, NEW d, NEW pt,
         NEW lru \in Seq(Frames), Load(b, f, d, pt, lru), policy' = policy,
         policy # "CLOCK" => \A g \in Frames \ {f} : frames[g].block # NoBlock => Queued(g, lru)
  PROVE  ListInv'
<1>1. CASE d[b] = NoData
  BY <1>1 DEF Load, ListInv, Alive
<1>2. CASE d[b] # NoData
  <2>1. /\ mode' = "ready" /\ lru_list' = Touched(f, lru)
        /\ \A g \in Frames \ {f} : frames'[g] = frames[g]
    BY <1>2 DEF Load, TypeOK
  <2>2. ASSUME policy # "CLOCK", NEW g \in Frames, frames'[g].block # NoBlock
        PROVE  Queued(g, lru_list')
    BY <2>1, <2>2, TouchQueues
  <2> QED
    BY <2>1, <2>2 DEF ListInv
<1> QED
  BY <1>1, <1>2

(* An eviction ends with a load, or with the pool dead.                     *)
LEMMA EvictListed ==
  ASSUME TypeOK, ListInv, mode = "scan", NEW f \in Frames, NEW lru \in Seq(Frames),
         Evict(f, lru), policy' = policy,
         policy # "CLOCK" => \A g \in Frames \ {f} : frames[g].block # NoBlock => Queued(g, lru)
  PROVE  ListInv'
<1> DEFINE old == frames[f].block
           d   == IF frames[f].dirty THEN [disk EXCEPT ![old] = frames[f].data] ELSE disk
           pt  == [page_table EXCEPT ![old] = NoFrame]
<1>1. CASE frames[f].dirty /\ old \in FileBlocks
  BY <1>1 DEF Evict, ListInv, Alive
<1>2. CASE ~(frames[f].dirty /\ old \in FileBlocks)
  <2>1. Load(want, f, d, pt, lru) /\ want \in Blocks
    BY <1>2 DEF Evict, TypeOK
  <2> HIDE DEF d, pt
  <2> QED
    BY <2>1, LoadListed
<1> QED
  BY <1>1, <1>2

(* Steps that occupy no frame and leave the list alone.                     *)
LEMMA SameListed ==
  ASSUME ListInv, Alive, lru_list' = lru_list, policy' = policy, mode' \in {"ready", "scan"},
         \A f \in Frames : frames'[f].block # NoBlock => frames[f].block # NoBlock
  PROVE  ListInv'
  BY DEF ListInv, Alive

(* ListInv is inductive: MappingExact keeps the loops from dropping the     *)
(* entry of a frame in use as stale, and what they load they queue.         *)
LEMMA ListInvStep ==
  ASSUME ListsKept, TypeOK, CacheInv, ListInv, [Next]_vars
  PROVE  ListInv'
<1>1. ASSUME NEW ids, Uncache(ids), NEW f \in Frames, frames'[f].block # NoBlock
      PROVE  frames[f].block # NoBlock
  <2>1. frames[f] \in Frame
    BY DEF TypeOK
  <2> QED
    BY <1>1, <2>1 DEF Uncache, Frame
<1>2. CASE AllocateRecycled
  BY <1>2, SameListed DEF AllocateRecycled, cache, Alive
<1>3. ASSUME NEW n \in 1 .. MaxRun, AllocateFresh(n) PROVE ListInv'
  BY <1>3, SameListed DEF AllocateFresh, cache, Alive
<1>4. ASSUME NEW n \in 1 .. MaxRun, NEW cs \in Payloads(n), WriteRawRun(cs) PROVE ListInv'
  BY <1>1, <1>4, SameListed DEF WriteRawRun, Alive
<1>5. ASSUME NEW n \in 1 .. MaxRun, NEW cs \in Payloads(n), WriteRunRecycled(cs) PROVE ListInv'
  BY <1>1, <1>5, SameListed DEF WriteRunRecycled, Alive
<1>6. ASSUME NEW r \in runs \cup kept, Free(r) PROVE ListInv'
  BY <1>1, <1>6, SameListed DEF Free, Alive
<1>7. ASSUME NEW r \in runs, NEW cs \in Payloads(r.len), WriteBlocks(r, cs) PROVE ListInv'
  BY <1>1, <1>7, SameListed DEF WriteBlocks, Alive
<1>8. \A f \in Frames : frames[f] \in Frame
  BY DEF TypeOK
<1>9. ASSUME NEW b \in Blocks, FetchHit(b) PROVE ListInv'
  <2>1. page_table[b] \in Frames /\ lru_list \in Seq(Frames)
    BY <1>9 DEF FetchHit, TypeOK
  <2>2. \A f \in Frames : frames'[f].block = frames[f].block
    BY <1>8, <1>9, <2>1 DEF FetchHit, TypeOK, Frame
  <2>3. mode' = mode /\ mode = "ready" /\ policy' = policy /\ lru_list' = Touched(page_table[b], lru_list)
    BY <1>9 DEF FetchHit
  <2> QED
    BY <2>1, <2>2, <2>3, TouchQueues DEF ListInv, Alive
<1>10. ASSUME NEW b \in Blocks, FetchMissFree(b) PROVE ListInv'
  <2>1. PICK f \in Frames : Load(b, f, disk, page_table, lru_list)
    BY <1>10 DEF FetchMissFree
  <2>2. policy' = policy /\ lru_list \in Seq(Frames) /\ Alive
    BY <1>10 DEF FetchMissFree, TypeOK, Alive
  <2> QED
    BY <2>1, <2>2, LoadListed DEF ListInv
<1>11. ASSUME NEW b \in Blocks, FetchMissFull(b) PROVE ListInv'
  BY <1>11, SameListed DEF FetchMissFull, cache, Alive
<1>12. ASSUME NEW b \in Blocks, Unpin(b) PROVE ListInv'
  <2>1. \A f \in Frames : frames'[f].block = frames[f].block
    BY <1>8, <1>12 DEF Unpin, TypeOK, Frame
  <2> QED
    BY <1>12, <2>1, SameListed DEF Unpin, Alive
<1>13. ASSUME NEW b \in Blocks, MarkDirty(b) PROVE ListInv'
  <2>1. \A f \in Frames : frames'[f].block = frames[f].block
    BY <1>8, <1>13 DEF MarkDirty, TypeOK, Frame
  <2> QED
    BY <1>13, <2>1, SameListed DEF MarkDirty, Alive
<1>14. ASSUME NEW p \in Policies, SetPolicy(p) PROVE ListInv'
  <2>1. UNCHANGED <<frames, lru_list, mode>> /\ policy' = p
    BY <1>14 DEF SetPolicy, cache
  <2>2. p = "CLOCK" => Policies \subseteq {"CLOCK"}
    BY DEF ListsKept
  <2>3. p # "CLOCK" => policy # "CLOCK"
    BY DEF ListInv
  <2> QED
    BY <2>1, <2>2, <2>3 DEF ListInv, Alive
<1>15. CASE ScanListEmpty
  <2>1. PICK f \in Frames : frames[f].block # NoBlock
    BY <1>15, PoolAssumption DEF ScanListEmpty, CacheInv, Frames
  <2>2. Queued(f, lru_list)
    BY <1>15, <2>1 DEF ScanListEmpty, ListInv, Alive
  <2> QED
    BY <1>15, <2>2 DEF ScanListEmpty, Queued
<1>16. CASE ScanListSkip
  <2>1. ~Stale(Popped)
    BY <1>8, <1>16, PopType DEF ScanListSkip, Stale, CacheInv, PageTableExact, Alive, Frame
  <2>2. lru_list' = PutBack(Popped) /\ policy # "CLOCK" /\ Alive
    BY <1>16, <2>1 DEF ScanListSkip, Alive
  <2>3. \A g \in Frames : frames[g].block # NoBlock => Queued(g, lru_list')
    BY <1>16, <2>2, PopQueues DEF ScanListSkip, ListInv
  <2> QED
    BY <1>16, <2>3 DEF ScanListSkip, ListInv, Alive
<1>17. CASE ScanListEvict
  <2>1. /\ Popped \in Frames /\ Rest \in Seq(Frames)
        /\ Evict(Popped, Rest) /\ mode = "scan" /\ policy' = policy
    BY <1>17, PopType DEF ScanListEvict
  <2>2. \A g \in Frames \ {Popped} : frames[g].block # NoBlock => Queued(g, Rest)
    BY <1>17, PopQueues DEF ScanListEvict, ListInv, Alive
  <2> QED
    BY <2>1, <2>2, EvictListed
<1>18. CASE ScanClockSkip
  <2>1. \A f \in Frames : frames'[f].block = frames[f].block
    BY <1>8, <1>18 DEF ScanClockSkip, TypeOK, Frame
  <2> QED
    BY <1>18, <2>1, SameListed DEF ScanClockSkip, Alive
<1>19. CASE ScanClockEvict
  <2>1. /\ clock_hand \in Frames /\ lru_list \in Seq(Frames) /\ Evict(clock_hand, lru_list)
        /\ mode = "scan" /\ policy' = policy /\ policy = "CLOCK"
    BY <1>19 DEF ScanClockEvict, TypeOK
  <2> QED
    BY <2>1, EvictListed
<1>20. CASE UNCHANGED vars
  BY <1>20 DEF vars, ListInv, Alive
<1> QED
  BY <1>2, <1>3, <1>4, <1>5, <1>6, <1>7, <1>9, <1>10, <1>11, <1>12, <1>13, <1>14,
     <1>15, <1>16, <1>17, <1>18, <1>19, <1>20 DEF Next, Scan, WriteRunBlocks, FreeRun, FreeAgain

(* ListInv holds in every state of a pool that never leaves CLOCK.          *)
LEMMA ListInvAlways == ListsKept => (Spec => []ListInv)
<1> SUFFICES ASSUME ListsKept PROVE Spec => []ListInv
  OBVIOUS
<1>1. Init => ListInv
  BY DEF Init, ListInv, ListsKept, EmptyFrame
<1>2. TypeOK /\ CacheInv /\ ListInv /\ [Next]_vars => ListInv'
  BY ListInvStep
<1> QED
  BY <1>1, <1>2, TypeCorrect, CacheInvAlways, PTL DEF Spec

(* The pool never says "All frames pinned - buffer pool exhausted!": the     *)
(* list, duplicates and all, has every frame in use, and the loops put a    *)
(* pinned frame back.  So with all frames pinned they go round for ever, and*)
(* the panics of lines 283 and 302 are dead code.                           *)
THEOREM PanicUnreachable == ListsKept => (Spec => []NotExhausted)
<1>1. ListInv => NotExhausted
  BY DEF ListInv, NotExhausted
<1> QED
  BY <1>1, ListInvAlways, PTL

-----------------------------------------------------------------------------
(* The victim search.  With an unpinned frame it comes to it, and without   *)
(* one it never stops: ScanFinds but for fairness.                          *)
SomeUnpinned == \E f \in Frames : frames[f].pin = 0

(* The frame the loop looks at after k more turns, if it skips until then.  *)
Looked(k) ==
    IF policy = "CLOCK"
    THEN IF clock_hand + k < NumFrames THEN clock_hand + k ELSE clock_hand + k - NumFrames
    ELSE IF policy = "LRU" THEN lru_list[Len(lru_list) - k] ELSE lru_list[k + 1]

Turns == IF policy = "CLOCK" THEN 0 .. NumFrames - 1 ELSE 0 .. Len(lru_list) - 1

(* After how many turns it meets an unpinned frame.                         *)
Meets == { k \in Turns : frames[Looked(k)].pin = 0 }

Distance == CHOOSE k \in Meets : \A j \in Meets : ~(j < k)

(* The second chances CLOCK has still to take away.                         *)
Chances == { f \in Frames : frames[f].pin = 0 /\ frames[f].referenced }

Work == <<Cardinality(Chances), Distance>>

Order == LexProductOrdering(OpToRel(<, Nat), Nat, 2)

LEMMA OrderWellFounded == IsWellFoundedOn(Order, [1 .. 2 -> Nat])
BY NatLessThanWellFounded, WFLexProductOrdering DEF Order

LEMMA LowerAt ==
    ASSUME NEW v \in [1 .. 2 -> Nat], NEW w \in [1 .. 2 -> Nat], NEW j \in 1 .. 2,
           v[j] < w[j], \A i \in 1 .. (j - 1) : v[i] = w[i]
    PROVE  <<v, w>> \in Order
<1>1. \A k \in 1 .. 2 : v[k] \in Nat /\ w[k] \in Nat
  OBVIOUS
<1> QED
  BY <1>1 DEF Order, LexProductOrdering, OpToRel

LEMMA LeastOf ==
    ASSUME NEW T, T \subseteq Nat, T # {} PROVE \E x \in T : \A y \in T : ~(y < x)
<1> DEFINE Less == { p \in Nat \X Nat : p[1] < p[2] }
<1>1. OpToRel(<, Nat) = Less
  BY DEF OpToRel
<1>2. IsWellFoundedOn(Less, Nat)
  BY <1>1, NatLessThanWellFounded
<1>3. \A x, y \in Nat : y < x => <<y, x>> \in Less
  OBVIOUS
<1> HIDE DEF Less
<1>4. PICK x \in T : \A y \in T : <<y, x>> \notin Less
  BY <1>2, WFMin
<1> QED
  BY <1>3, <1>4

LEMMA ChancesFinite == IsFiniteSet(Chances) /\ Cardinality(Chances) \in Nat
<1>1. IsFiniteSet(Frames)
  BY PoolAssumption, FS_Interval DEF Frames
<1>2. Chances \subseteq Frames
  BY DEF Chances
<1> QED
  BY <1>1, <1>2, FS_Subset, FS_CardinalityType

(* The hand goes round.                                                     *)
LEMMA HandTurns ==
    ASSUME TypeOK
    PROVE  NextHand = IF clock_hand + 1 < NumFrames THEN clock_hand + 1 ELSE 0
<1>1. clock_hand \in 0 .. NumFrames - 1 /\ NumFrames \in Nat \ {0}
  BY PoolAssumption DEF TypeOK, Frames
<1>2. CASE clock_hand + 1 < NumFrames
  BY <1>1, <1>2 DEF NextHand
<1>3. CASE clock_hand + 1 = NumFrames
  <2>1. NumFrames % NumFrames = 0
    BY <1>1
  <2> QED
    BY <1>1, <1>3, <2>1 DEF NextHand
<1> QED
  BY <1>1, <1>2, <1>3

(* An unpinned frame is met after a number of turns.                        *)
Met ==
    /\ Meets \subseteq Nat /\ Turns \subseteq Nat
    /\ Distance \in Meets
    /\ \A j \in Meets : ~(j < Distance)

LEMMA FrameMet == TypeOK /\ CacheInv /\ ListInv /\ mode = "scan" /\ SomeUnpinned => Met
<1> SUFFICES ASSUME TypeOK, CacheInv, ListInv, mode = "scan", SomeUnpinned PROVE Met
  OBVIOUS
<1>1. PICK f \in Frames : frames[f].pin = 0
  BY DEF SomeUnpinned
<1>2. /\ clock_hand \in Nat /\ clock_hand < NumFrames /\ NumFrames \in Nat
      /\ lru_list \in Seq(Frames) /\ Len(lru_list) \in Nat
      /\ f \in Nat /\ f < NumFrames
  BY PoolAssumption DEF TypeOK, Frames
<1>3. Turns \subseteq Nat /\ Meets \subseteq Nat
  BY <1>2 DEF Turns, Meets
<1>4. \E k \in Turns : Looked(k) = f
  <2>1. CASE policy = "CLOCK"
    <3>1. CASE f >= clock_hand
      <4>1. f - clock_hand \in 0 .. NumFrames - 1 /\ clock_hand + (f - clock_hand) = f
        BY <1>2, <3>1
      <4> QED
        BY <1>2, <2>1, <4>1 DEF Turns, Looked
    <3>2. CASE f < clock_hand
      <4> DEFINE k == f + NumFrames - clock_hand
      <4>1. k \in 0 .. NumFrames - 1 /\ ~(clock_hand + k < NumFrames) /\ clock_hand + k - NumFrames = f
        BY <1>2, <3>2
      <4> HIDE DEF k
      <4> QED
        BY <2>1, <4>1 DEF Turns, Looked
    <3> QED
      BY <1>2, <3>1, <3>2
  <2>2. CASE policy # "CLOCK"
    <3>1. frames[f].block # NoBlock /\ Alive
      BY DEF CacheInv, Alive
    <3>2. PICK i \in 1 .. Len(lru_list) : lru_list[i] = f
      BY <2>2, <3>1 DEF ListInv, Queued
    <3>3. CASE policy = "LRU"
      <4>1. Len(lru_list) - i \in 0 .. Len(lru_list) - 1 /\ Len(lru_list) - (Len(lru_list) - i) = i
        BY <1>2, <3>2
      <4> QED
        BY <2>2, <3>2, <3>3, <4>1 DEF Turns, Looked
    <3>4. CASE policy # "LRU"
      <4>1. i - 1 \in 0 .. Len(lru_list) - 1 /\ (i - 1) + 1 = i
        BY <1>2, <3>2
      <4> QED
        BY <2>2, <3>2, <3>4, <4>1 DEF Turns, Looked
    <3> QED
      BY <3>3, <3>4
  <2> QED
    BY <2>1, <2>2
<1>5. Meets # {}
  BY <1>1, <1>4 DEF Meets
<1>6. \E x \in Meets : \A y \in Meets : ~(y < x)
  BY <1>3, <1>5, LeastOf
<1>7. Distance \in Meets /\ \A j \in Meets : ~(j < Distance)
  BY <1>6 DEF Distance
<1> QED
  BY <1>3, <1>7 DEF Met

LEMMA FrameMetNext ==
    TypeOK' /\ CacheInv' /\ ListInv' /\ (mode = "scan")' /\ SomeUnpinned' => Met'
BY FrameMet, PTL

LEMMA ChancesFiniteNext == (IsFiniteSet(Chances) /\ Cardinality(Chances) \in Nat)'
BY ChancesFinite, PTL

(* A skipped entry goes to the other end: the others come one turn nearer.  *)
LEMMA SkipNears ==
    ASSUME TypeOK, CacheInv, ListInv, ScanListSkip
    PROVE  /\ frames[Looked(0)].pin > 0 /\ frames' = frames
           /\ \A k \in Turns : k # 0 => k - 1 \in Turns' /\ Looked(k - 1)' = Looked(k)
<1>1. /\ lru_list \in Seq(Frames) /\ Len(lru_list) \in Nat \ {0} /\ policy # "CLOCK"
      /\ policy' = policy /\ frames' = frames /\ lru_list # <<>> /\ mode = "scan"
      /\ lru_list' = IF Stale(Popped) THEN Rest ELSE PutBack(Popped)
      /\ Stale(Popped) \/ frames[Popped].pin > 0
  BY DEF ScanListSkip, TypeOK
<1> DEFINE n == Len(lru_list)
<1>2. Popped \in Frames /\ Rest \in Seq(Frames) /\ frames[Popped] \in Frame
  BY <1>1, PopType DEF TypeOK
<1>3. ~Stale(Popped)
  BY <1>1, <1>2 DEF Stale, CacheInv, PageTableExact, Alive, Frame
<1>4. frames[Popped].pin > 0 /\ lru_list' = PutBack(Popped)
  BY <1>1, <1>3
<1>5. CASE policy = "LRU"
  <2>1. Len(Rest) = n - 1 /\ \A i \in 1 .. n - 1 : Rest[i] = lru_list[i]
    <3>1. Rest = SubSeq(lru_list, 1, n - 1)
      BY <1>5 DEF Rest
    <3>2. n - 1 \in Nat /\ n - 1 <= Len(lru_list)
      BY <1>1
    <3> QED
      BY <1>1, <3>1, <3>2, Cut
  <2>2. /\ Len(<<Popped>> \o Rest) = Len(Rest) + 1
        /\ \A i \in 1 .. Len(Rest) : (<<Popped>> \o Rest)[i + 1] = Rest[i]
    BY <1>2, Prepended
  <2>3. lru_list' = <<Popped>> \o Rest /\ Looked(0) = Popped
    BY <1>1, <1>4, <1>5 DEF PutBack, Popped, Looked
  <2>4. Len(lru_list') = n /\ \A i \in 1 .. n - 1 : lru_list'[i + 1] = lru_list[i]
    <3>1. Len(Rest) = n - 1 /\ (n - 1) + 1 = n
      BY <1>1, <2>1
    <3>2. Len(lru_list') = n
      BY <2>2, <2>3, <3>1
    <3> QED
      BY <2>1, <2>2, <2>3, <3>1, <3>2
  <2>5. ASSUME NEW k \in 1 .. n - 1 PROVE k - 1 \in Turns' /\ Looked(k - 1)' = Looked(k)
    <3>1. n - k \in 1 .. n - 1 /\ n - (k - 1) = (n - k) + 1 /\ k - 1 \in 0 .. n - 1
      BY <1>1
    <3>2. lru_list'[n - (k - 1)] = lru_list[n - k]
      BY <2>4, <3>1
    <3> QED
      BY <1>1, <1>5, <2>4, <3>1, <3>2 DEF Turns, Looked
  <2>6. \A k \in Turns : k # 0 => k \in 1 .. n - 1
    BY <1>1 DEF Turns
  <2> QED
    BY <1>1, <1>4, <2>3, <2>5, <2>6
<1>6. CASE policy # "LRU"
  <2>1. Len(Rest) = n - 1 /\ \A i \in 1 .. n - 1 : Rest[i] = lru_list[i + 1]
    BY <1>1, <1>6 DEF Rest
  <2>2. /\ Len(Append(Rest, Popped)) = n
        /\ \A i \in 1 .. n - 1 : Append(Rest, Popped)[i] = Rest[i]
    BY <1>1, <1>2, <2>1
  <2>3. lru_list' = Append(Rest, Popped) /\ Looked(0) = Popped
    BY <1>1, <1>4, <1>6 DEF PutBack, Popped, Looked
  <2>4. Len(lru_list') = n /\ \A i \in 1 .. n - 1 : lru_list'[i] = lru_list[i + 1]
    BY <1>1, <2>1, <2>2, <2>3
  <2>5. ASSUME NEW k \in 1 .. n - 1 PROVE k - 1 \in Turns' /\ Looked(k - 1)' = Looked(k)
    <3>1. (k - 1) + 1 = k /\ k - 1 \in 0 .. n - 1
      BY <1>1
    <3> QED
      BY <1>1, <1>6, <2>4, <3>1 DEF Turns, Looked
  <2>6. \A k \in Turns : k # 0 => k \in 1 .. n - 1
    BY <1>1 DEF Turns
  <2> QED
    BY <1>1, <1>4, <2>3, <2>5, <2>6
<1> QED
  BY <1>5, <1>6

(* So does every frame as the hand moves.                                   *)
LEMMA HandNears ==
    ASSUME TypeOK, ScanClockSkip
    PROVE  /\ Looked(0) = clock_hand
           /\ \A k \in Turns : k # 0 => k - 1 \in Turns' /\ Looked(k - 1)' = Looked(k)
<1>1. /\ clock_hand \in Nat /\ clock_hand < NumFrames /\ NumFrames \in Nat
      /\ policy = "CLOCK" /\ policy' = policy
  BY PoolAssumption DEF TypeOK, Frames, ScanClockSkip
<1>2. clock_hand' = IF clock_hand + 1 < NumFrames THEN clock_hand + 1 ELSE 0
  BY HandTurns DEF ScanClockSkip
<1>3. ASSUME NEW k \in 1 .. NumFrames - 1
      PROVE  k - 1 \in Turns' /\ Looked(k - 1)' = Looked(k)
  <2>1. k - 1 \in 0 .. NumFrames - 1 /\ k \in Nat
    BY <1>1
  <2>2. CASE clock_hand + 1 < NumFrames
    <3>1. clock_hand' + (k - 1) = clock_hand + k
      BY <1>1, <1>2, <2>1, <2>2
    <3>2. Looked(k - 1)' = Looked(k)
      <4>1. Looked(k - 1)' = IF clock_hand' + (k - 1) < NumFrames THEN clock_hand' + (k - 1)
                             ELSE clock_hand' + (k - 1) - NumFrames
        BY <1>1, Zenon DEF Looked
      <4>2. Looked(k) = IF clock_hand + k < NumFrames THEN clock_hand + k
                        ELSE clock_hand + k - NumFrames
        BY <1>1, Zenon DEF Looked
      <4>3. CASE clock_hand + k < NumFrames
        <5>1. clock_hand' + (k - 1) < NumFrames
          BY <3>1, <4>3, Zenon
        <5> QED
          BY <3>1, <4>1, <4>2, <4>3, <5>1
      <4>4. CASE ~(clock_hand + k < NumFrames)
        <5>1. ~(clock_hand' + (k - 1) < NumFrames)
          BY <3>1, <4>4, Zenon
        <5> QED
          BY <1>1, <1>2, <2>1, <2>2, <3>1, <4>1, <4>2, <4>4, <5>1
      <4> QED
        BY <4>3, <4>4
    <3> QED
      BY <1>1, <2>1, <3>2 DEF Turns
  <2>3. CASE clock_hand + 1 = NumFrames
    <3>1. /\ clock_hand' + (k - 1) = k - 1 /\ k - 1 < NumFrames
          /\ ~(clock_hand + k < NumFrames) /\ clock_hand + k - NumFrames = k - 1
      BY <1>1, <1>2, <2>1, <2>3
    <3> QED
      BY <1>1, <2>1, <3>1 DEF Turns, Looked
  <2> QED
    BY <1>1, <2>2, <2>3
<1>4. \A k \in Turns : k # 0 => k \in 1 .. NumFrames - 1
  BY <1>1 DEF Turns
<1>5. Looked(0) = clock_hand
  BY <1>1 DEF Looked
<1> QED
  BY <1>3, <1>4, <1>5

(* One turn nearer is a shorter distance.                                   *)
LEMMA Nearer ==
    ASSUME Met, Met', 0 \notin Meets,
           \A k \in Meets : k # 0 => k - 1 \in Meets'
    PROVE  Distance' < Distance
<1>1. /\ Distance \in Nat /\ Distance' \in Nat /\ Distance # 0 /\ Distance - 1 \in Meets'
      /\ Distance - 1 \in Nat
  BY DEF Met
<1>2. ~(Distance - 1 < Distance')
  BY <1>1 DEF Met
<1> QED
  BY <1>1, <1>2

(* A turn that does not end the search takes a second chance away, or comes *)
(* nearer to an unpinned frame.                                             *)
LEMMA TurnLowers ==
    /\ TypeOK /\ CacheInv /\ ListInv /\ mode = "scan" /\ SomeUnpinned
    /\ TypeOK' /\ CacheInv' /\ ListInv' /\ mode' = "scan"
    /\ ScanListSkip \/ ScanClockSkip
    => SomeUnpinned' /\ <<Work', Work>> \in Order
<1> SUFFICES ASSUME TypeOK, CacheInv, ListInv, mode = "scan", SomeUnpinned,
                    TypeOK', CacheInv', ListInv', mode' = "scan",
                    ScanListSkip \/ ScanClockSkip
             PROVE  SomeUnpinned' /\ <<Work', Work>> \in Order
  OBVIOUS
<1>1. Met /\ frames \in [Frames -> Frame] /\ clock_hand \in Frames
      /\ \A f \in Frames : frames[f] \in Frame /\ frames[f].pin \in Nat
  BY FrameMet DEF TypeOK, Frame
<1>2. \A f \in Frames : frames'[f].pin = frames[f].pin
  <2>1. CASE ScanListSkip
    BY <2>1 DEF ScanListSkip
  <2>2. CASE ScanClockSkip
    BY <1>1, <2>2 DEF ScanClockSkip, Frame
  <2> QED
    BY <2>1, <2>2
<1>3. SomeUnpinned'
  BY <1>2 DEF SomeUnpinned
<1>4. Met'
  BY <1>3, FrameMetNext
<1>5. Work \in [1 .. 2 -> Nat] /\ Work' \in [1 .. 2 -> Nat]
  <2>1. Distance \in Nat /\ Distance' \in Nat
    BY <1>1, <1>4 DEF Met
  <2>2. Cardinality(Chances) \in Nat /\ (Cardinality(Chances) \in Nat)'
    BY ChancesFinite, ChancesFiniteNext
  <2> HIDE DEF Distance, Chances
  <2> QED
    BY <2>1, <2>2 DEF Work
<1>6. \A k \in Turns : Looked(k) \in Frames
  <2> TAKE k \in Turns
  <2>1. CASE policy = "CLOCK"
    <3>1. clock_hand \in 0 .. NumFrames - 1 /\ k \in 0 .. NumFrames - 1 /\ NumFrames \in Nat
      BY <1>1, <2>1, PoolAssumption DEF Frames, Turns
    <3> QED
      BY <2>1, <3>1 DEF Looked, Frames
  <2>2. CASE policy # "CLOCK"
    <3>1. lru_list \in Seq(Frames) /\ Len(lru_list) \in Nat /\ k \in 0 .. Len(lru_list) - 1
      BY <2>2 DEF TypeOK, Turns
    <3>2. Len(lru_list) - k \in 1 .. Len(lru_list) /\ k + 1 \in 1 .. Len(lru_list)
      BY <3>1
    <3> QED
      BY <2>2, <3>1, <3>2 DEF Looked
  <2> QED
    BY <2>1, <2>2
<1>7. ASSUME \A k \in Turns : k # 0 => k - 1 \in Turns' /\ Looked(k - 1)' = Looked(k),
             frames[Looked(0)].pin > 0
      PROVE  Distance' < Distance
  <2>1. 0 \notin Meets
    BY <1>1, <1>6, <1>7 DEF Meets
  <2>2. ASSUME NEW k \in Meets, k # 0 PROVE k - 1 \in Meets'
    <3>1. k \in Turns /\ frames[Looked(k)].pin = 0 /\ Looked(k) \in Frames
      BY <1>6 DEF Meets
    <3>2. k - 1 \in Turns' /\ Looked(k - 1)' = Looked(k)
      BY <1>7, <2>2, <3>1
    <3>3. frames'[Looked(k - 1)'].pin = 0
      BY <1>2, <3>1, <3>2
    <3> QED
      BY <3>2, <3>3 DEF Meets
  <2> QED
    BY <1>1, <1>4, <2>1, <2>2, Nearer
<1>8. ASSUME Chances' = Chances, Distance' < Distance PROVE <<Work', Work>> \in Order
  <2>1. Work'[2] < Work[2] /\ Work'[1] = Work[1]
    BY <1>8 DEF Work
  <2>2. 2 \in 1 .. 2 /\ \A i \in 1 .. (2 - 1) : Work'[i] = Work[i]
    BY <2>1
  <2> QED
    BY <1>5, <2>1, <2>2, LowerAt
<1>9. CASE ScanListSkip
  <2>1. Chances' = Chances
    BY <1>9 DEF ScanListSkip, Chances
  <2> QED
    BY <1>3, <1>7, <1>8, <1>9, <2>1, SkipNears
<1>10. CASE ScanClockSkip
  <2>1. frames' = [frames EXCEPT ![clock_hand].referenced =
                      IF frames[clock_hand].pin = 0 THEN FALSE ELSE @]
    BY <1>10 DEF ScanClockSkip
  <2>2. CASE frames[clock_hand].pin > 0
    <3>1. frames' = [frames EXCEPT ![clock_hand].referenced = @]
      <4>1. frames[clock_hand].pin # 0
        BY <1>1, <2>2
      <4> QED
        BY <2>1, <4>1
    <3>2. Chances' = Chances
      <4>1. frames' = frames
        BY <1>1, <3>1 DEF Frame
      <4> QED
        BY <4>1 DEF Chances
    <3> QED
      BY <1>3, <1>7, <1>8, <1>10, <2>2, <3>2, HandNears
  <2>3. CASE frames[clock_hand].pin = 0
    <3>1. frames[clock_hand].referenced
      BY <1>10, <2>3 DEF ScanClockSkip
    <3>2. \A f \in Frames : frames'[f].referenced = (IF f = clock_hand THEN FALSE ELSE frames[f].referenced)
      BY <1>1, <2>1, <2>3 DEF Frame
    <3>3. Chances' = Chances \ {clock_hand} /\ clock_hand \in Chances
      BY <1>1, <1>2, <2>3, <3>1, <3>2 DEF Chances
    <3>4. Cardinality(Chances') = Cardinality(Chances) - 1
      BY <3>3, ChancesFinite, FS_RemoveElement
    <3>5. Work'[1] < Work[1] /\ 1 \in 1 .. 2 /\ \A i \in 1 .. (1 - 1) : Work'[i] = Work[i]
      BY <3>4, ChancesFinite DEF Work
    <3> QED
      BY <1>3, <1>5, <3>5, LowerAt
  <2> QED
    BY <1>1, <1>10, <2>2, <2>3
<1> QED
  BY <1>9, <1>10

(* Every turn of a victim search that has an unpinned frame to find ends    *)
(* it, or leads on in an order in which nothing falls for ever; and the     *)
(* frame stays unpinned.  No policy passes it by.                           *)
SearchLeadsOn ==
    [][mode = "scan" /\ SomeUnpinned =>
          mode' # "scan" \/ (SomeUnpinned' /\ <<Work', Work>> \in Order)]_vars

(* While mode is "scan" nothing runs but the loop.                          *)
LEMMA OnlyScans == ASSUME mode = "scan", Next PROVE Scan
<1>1. ~AllocateRecycled /\ \A n \in 1 .. MaxRun : ~AllocateFresh(n)
  BY DEF AllocateRecycled, AllocateFresh
<1>2. \A cs : ~WriteRawRun(cs) /\ ~WriteRunBlocks(cs)
  BY DEF WriteRawRun, WriteRunBlocks, WriteRunRecycled
<1>3. \A r : ~FreeRun(r) /\ ~FreeAgain(r) /\ \A cs : ~WriteBlocks(r, cs)
  BY DEF FreeRun, FreeAgain, Free, WriteBlocks
<1>4. \A b : ~FetchHit(b) /\ ~FetchMissFree(b) /\ ~FetchMissFull(b) /\ ~Unpin(b) /\ ~MarkDirty(b)
  BY DEF FetchHit, FetchMissFree, FetchMissFull, Unpin, MarkDirty
<1>5. \A p : ~SetPolicy(p)
  BY DEF SetPolicy
<1> QED
  BY <1>1, <1>2, <1>3, <1>4, <1>5 DEF Next

LEMMA OnlyTurns ==
    ASSUME mode = "scan", Next, mode' = "scan" PROVE ScanListSkip \/ ScanClockSkip
<1>1. ASSUME NEW f, NEW lru, Evict(f, lru) PROVE FALSE
  BY <1>1 DEF Evict, Load
<1>2. ~ScanListEmpty /\ ~ScanListEvict /\ ~ScanClockEvict
  BY <1>1 DEF ScanListEmpty, ScanListEvict, ScanClockEvict
<1> QED
  BY <1>2, OnlyScans DEF Scan

THEOREM SearchEnds == ListsKept => (Spec => SearchLeadsOn)
<1> SUFFICES ASSUME ListsKept PROVE Spec => SearchLeadsOn
  OBVIOUS
<1> DEFINE K == TypeOK /\ CacheInv /\ ListInv
<1>1. K /\ K' /\ [Next]_vars =>
         [mode = "scan" /\ SomeUnpinned =>
             mode' # "scan" \/ (SomeUnpinned' /\ <<Work', Work>> \in Order)]_vars
  BY OnlyTurns, TurnLowers
<1>2. Spec => []K
  BY TypeCorrect, CacheInvAlways, ListInvAlways, PTL
<1> HIDE DEF K
<1> QED
  BY <1>1, <1>2, PTL DEF Spec, SearchLeadsOn

(* The search always has a next turn: the list it pops from is not empty,   *)
(* and what it pops, or the hand, is a frame that is in use.                *)
CanTurn ==
    mode = "scan" =>
       IF policy = "CLOCK" THEN clock_hand \in Frames /\ frames[clock_hand].block # NoBlock
       ELSE lru_list # <<>> /\ Popped \in Frames /\ frames[Popped].block # NoBlock

LEMMA TurnPossible == TypeOK /\ CacheInv /\ ListInv => CanTurn
<1> SUFFICES ASSUME TypeOK, CacheInv, ListInv PROVE CanTurn
  OBVIOUS
<1> SUFFICES ASSUME mode = "scan", policy # "CLOCK" PROVE lru_list # <<>>
  BY PopType DEF CanTurn, TypeOK, CacheInv
<1>1. PICK f \in Frames : frames[f].block # NoBlock
  BY PoolAssumption DEF CacheInv, Frames
<1>2. Queued(f, lru_list)
  BY <1>1 DEF ListInv, Alive
<1> QED
  BY <1>2 DEF Queued

THEOREM SearchGoesOn == ListsKept => (Spec => []CanTurn)
<1> SUFFICES ASSUME ListsKept PROVE Spec => []CanTurn
  OBVIOUS
<1> QED
  BY TurnPossible, TypeCorrect, CacheInvAlways, ListInvAlways, PTL

(* With all frames pinned the search never stops: it looks at one frame     *)
(* after another and changes none, whatever the policy, where the code and  *)
(* its messages (283, 302) promise a panic.                                 *)
GoesRound ==
    [][mode = "scan" /\ ~SomeUnpinned => mode' = "scan" /\ frames' = frames /\ want' = want]_vars

THEOREM HangsWhenPinned == ListsKept => (Spec => GoesRound)
<1> SUFFICES ASSUME ListsKept PROVE Spec => GoesRound
  OBVIOUS
<1> DEFINE K == TypeOK /\ CacheInv /\ ListInv
<1>1. ASSUME K, Next, mode = "scan", ~SomeUnpinned
      PROVE  mode' = "scan" /\ frames' = frames /\ want' = want
  <2>1. \A f \in Frames : frames[f].pin # 0
    BY <1>1 DEF SomeUnpinned
  <2>2. clock_hand \in Frames /\ frames \in [Frames -> Frame] /\ frames[clock_hand] \in Frame
    BY <1>1 DEF TypeOK
  <2>3. CASE ScanListEmpty \/ ScanListEvict
    BY <1>1, <2>1, <2>3, TurnPossible
    DEF CanTurn, ScanListEmpty, ScanListEvict
  <2>4. CASE ScanListSkip
    BY <1>1, <2>4 DEF ScanListSkip
  <2>5. CASE ScanClockSkip
    <3>1. frames' = [frames EXCEPT ![clock_hand].referenced = @]
      BY <2>1, <2>2, <2>5 DEF ScanClockSkip
    <3>2. frames' = frames
      BY <2>2, <3>1 DEF Frame
    <3> QED
      BY <1>1, <2>5, <3>2 DEF ScanClockSkip
  <2>6. CASE ScanClockEvict
    BY <2>1, <2>2, <2>6 DEF ScanClockEvict
  <2> QED
    BY <1>1, <2>3, <2>4, <2>5, <2>6, OnlyScans DEF Scan
<1>2. K /\ [Next]_vars =>
         [mode = "scan" /\ ~SomeUnpinned => mode' = "scan" /\ frames' = frames /\ want' = want]_vars
  BY <1>1
<1>3. Spec => []K
  BY TypeCorrect, CacheInvAlways, ListInvAlways, PTL
<1> HIDE DEF K
<1> QED
  BY <1>2, <1>3, PTL DEF Spec, GoesRound
=============================================================================
