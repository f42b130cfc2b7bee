----------------------------- MODULE BufferPool -----------------------------
(***************************************************************************)
(* database/src/buffer_pool.rs: the frame cache in front of the disk       *)
(* process and the allocator of anonymous (scratch) blocks.                *)
(*                                                                         *)
(* A method that runs without looping is one action.  The only loop whose  *)
(* termination is in question, the victim search of find_free_or_evict,    *)
(* is one action per iteration, entered by FetchMissFull and left when a   *)
(* victim is loaded or the pool panics.  Nothing else runs meanwhile: the  *)
(* methods take &mut self.                                                 *)
(*                                                                         *)
(* held, runs and kept belong to the callers: the pins each block still    *)
(* owes an unpin, the block runs handed out and not yet given to free_run, *)
(* and those given to it that their owner still lists and may free again,  *)
(* as HashJoinOp does.                                                     *)
(***************************************************************************)
EXTENDS Integers, Sequences

CONSTANTS
    NumFrames,       \* BufferPool::new(num_frames, ..)
    Content,         \* what a block may hold
    FileBlocks,      \* ids of the write-protected table blocks
    AnonStart,       \* first id of the scratch region
    NoBlock, NoFrame, NoData,
    Policies,        \* the policies set_eviction_policy is called with
    FirstPolicies,   \* the policies a pool may start with (the code: LRU)
    OverwritePinned, \* may callers free or overwrite a block they have pinned?
    MaxAnon,         \* bound: ids of the scratch region
    MaxRun,          \* bound: blocks in a run
    MaxLru,          \* bound: entries of lru_list when a fetch starts
    MaxFree,         \* bound: entries of free_anon when a run is freed again
    MaxPins          \* bound: outstanding pins of a block

Frames     == 0 .. NumFrames - 1
AnonBlocks == AnonStart .. AnonStart + MaxAnon - 1
Blocks     == FileBlocks \cup AnonBlocks
Modes      == {"ready", "scan", "exhausted", "failed"}

ASSUME PoolAssumption ==
    /\ NumFrames \in Nat \ {0}
    /\ AnonStart \in Nat
    /\ MaxAnon \in Nat \ {0}
    /\ MaxRun \in Nat \ {0}
    /\ MaxLru \in Nat /\ MaxFree \in Nat /\ MaxPins \in Nat
    /\ FileBlocks \subseteq 0 .. AnonStart - 1
    /\ NoBlock \notin Nat /\ NoFrame \notin Nat /\ NoData \notin Content
    /\ Policies \subseteq {"LRU", "MRU", "CLOCK"}
    /\ FirstPolicies \subseteq {"LRU", "MRU", "CLOCK"}
    /\ OverwritePinned \in BOOLEAN

VARIABLES
    frames,      \* Vec<Frame>
    page_table,  \* block -> frame, NoFrame where the map has no entry
    lru_list,    \* frame indices, most recent first, duplicates allowed
    clock_hand,
    policy,
    next_anon,   \* next_anon_block_id, NoBlock until the first allocation
    free_anon,   \* free_anon_blocks, a stack: push and pop at the end
    disk,        \* the disk process: block -> contents, NoData if absent
    mode,        \* ready; scan: inside the victim loop; or how it panicked
    want,        \* the block the scan is making room for
    held,        \* callers: pins of a block not yet undone
    runs,        \* callers: runs allocated and not yet freed
    kept         \* callers: runs freed and still listed by their owner

cache  == <<frames, page_table, lru_list, clock_hand>>
alloc  == <<next_anon, free_anon, runs, kept>>
vars   == <<frames, page_table, lru_list, clock_hand, policy, next_anon,
            free_anon, disk, mode, want, held, runs, kept>>

Frame == [block : Blocks \cup {NoBlock}, data : Content \cup {NoData},
          dirty : BOOLEAN, pin : Nat, referenced : BOOLEAN]
EmptyFrame == [block |-> NoBlock, data |-> NoData, dirty |-> FALSE,
               pin |-> 0, referenced |-> FALSE]

(* A run is a contiguous range of ids; every allocation hands out one. *)
Run    == { r \in [start : AnonBlocks, len : 1 .. MaxRun] :
               r.start + r.len <= AnonStart + MaxAnon }
Ids(r) == r.start .. r.start + r.len - 1

Init ==
    /\ frames = [f \in Frames |-> EmptyFrame]
    /\ page_table = [b \in Blocks |-> NoFrame]
    /\ lru_list = <<>>
    /\ clock_hand = 0
    /\ policy \in FirstPolicies
    /\ next_anon = NoBlock
    /\ free_anon = <<>>
    /\ disk \in { d \in [Blocks -> Content \cup {NoData}] :
                    \A b \in Blocks : d[b] = NoData <=> b \in AnonBlocks }
    /\ mode = "ready"
    /\ want = NoBlock
    /\ held = [b \in Blocks |-> 0]
    /\ runs = {}
    /\ kept = {}

-----------------------------------------------------------------------------
(* Mutant: the invalidation is forgotten.                                  *)
UncacheNothing(ids) == UNCHANGED <<frames, page_table>>

(* Mutant: the frame is emptied, but the page table keeps its entry.       *)
UncacheFrameOnly(ids) ==
    /\ frames' = [f \in Frames |->
          IF frames[f].block \in ids THEN EmptyFrame ELSE frames[f]]
    /\ UNCHANGED page_table

(* invalidate_cached_block, for every id of a set: unmap the block; the    *)
(* pin count of its frame is left as it is.                                *)
Uncache(ids) ==
    /\ frames' = [f \in Frames |->
          IF frames[f].block \in ids /\ page_table[frames[f].block] = f
          THEN [frames[f] EXCEPT !.block = NoBlock, !.dirty = FALSE]
          ELSE frames[f]]
    /\ page_table' = [b \in Blocks |-> IF b \in ids THEN NoFrame ELSE page_table[b]]

(* The callers' discipline: a block somebody has pinned is not freed and   *)
(* not written.                                                            *)
MayInvalidate(ids) == OverwritePinned \/ \A b \in ids : held[b] = 0

(* A recycled id is taken only when no freed run is listed any more: a run *)
(* freed again would put ids on the free list that are in use.  (Operators *)
(* write with write_raw_run_blocks, which takes none.)                     *)
MayRecycle == kept = {}

(* The first id of the scratch region still unused.                        *)
NextStart == IF next_anon = NoBlock THEN AnonStart ELSE next_anon
Room(n)   == NextStart + n <= AnonStart + MaxAnon

(* The disk process stores what is written at the ids of run r.            *)
Stored(r, cs) == [b \in Blocks |-> IF b \in Ids(r) THEN cs[b - r.start + 1] ELSE disk[b]]

(* Mutant: the recycled id is not popped.                                  *)
AllocateRecycledPeeks ==
    /\ mode = "ready"
    /\ free_anon # <<>> /\ MayRecycle
    /\ runs' = runs \cup {[start |-> free_anon[Len(free_anon)], len |-> 1]}
    /\ UNCHANGED <<cache, policy, next_anon, free_anon, kept, disk, mode, want, held>>

(* allocate_anon_blocks: the free list serves only single blocks; nothing  *)
(* is written and the cache is left alone.                                 *)
AllocateRecycled ==
    /\ mode = "ready"
    /\ free_anon # <<>> /\ MayRecycle
    /\ runs' = runs \cup {[start |-> free_anon[Len(free_anon)], len |-> 1]}
    /\ free_anon' = SubSeq(free_anon, 1, Len(free_anon) - 1)
    /\ UNCHANGED <<cache, policy, next_anon, kept, disk, mode, want, held>>

AllocateFresh(n) ==
    /\ mode = "ready"
    /\ n # 1 \/ free_anon = <<>>
    /\ Room(n)
    /\ next_anon' = NextStart + n
    /\ runs' = runs \cup {[start |-> NextStart, len |-> n]}
    /\ UNCHANGED <<cache, policy, free_anon, kept, disk, mode, want, held>>

(* write_raw_run_blocks: always a fresh range.                             *)
WriteRawRun(cs) ==
    LET r == [start |-> NextStart, len |-> Len(cs)] IN
    /\ mode = "ready"
    /\ Room(Len(cs))
    /\ MayInvalidate(Ids(r))
    /\ next_anon' = NextStart + Len(cs)
    /\ disk' = Stored(r, cs)
    /\ Uncache(Ids(r))
    /\ runs' = runs \cup {r}
    /\ UNCHANGED <<lru_list, clock_hand, policy, free_anon, kept, mode, want, held>>

(* write_run_blocks: a single block goes to a recycled id if there is one, *)
(* everything else to a fresh range.                                       *)
WriteRunRecycled(cs) ==
    LET r == [start |-> free_anon[Len(free_anon)], len |-> 1] IN
    /\ mode = "ready"
    /\ Len(cs) = 1
    /\ free_anon # <<>> /\ MayRecycle
    /\ MayInvalidate(Ids(r))
    /\ free_anon' = SubSeq(free_anon, 1, Len(free_anon) - 1)
    /\ disk' = Stored(r, cs)
    /\ Uncache(Ids(r))
    /\ runs' = runs \cup {r}
    /\ UNCHANGED <<lru_list, clock_hand, policy, next_anon, kept, mode, want, held>>

WriteRunBlocks(cs) ==
    \/ WriteRunRecycled(cs)
    \/ /\ Len(cs) # 1 \/ free_anon = <<>>
       /\ WriteRawRun(cs)

(* write_blocks: overwrite a run the caller owns.                          *)
WriteBlocks(r, cs) ==
    /\ mode = "ready"
    /\ MayInvalidate(Ids(r))
    /\ disk' = Stored(r, cs)
    /\ Uncache(Ids(r))
    /\ UNCHANGED <<lru_list, clock_hand, policy, alloc, mode, want, held>>

(* free_run: every id goes on the free list, in the order of the run,      *)
(* whether it is there already or not.                                     *)
Free(r) ==
    /\ mode = "ready"
    /\ MayInvalidate(Ids(r))
    /\ free_anon' = free_anon \o [k \in 1 .. r.len |-> r.start + k - 1]
    /\ Uncache(Ids(r))
    /\ UNCHANGED <<lru_list, clock_hand, policy, next_anon, disk, mode, want, held>>

(* The owner of a freed run forgets it, or keeps it listed and frees it    *)
(* again.                                                                  *)
FreeRun(r) ==
    /\ Free(r)
    /\ runs' = runs \ {r}
    /\ kept' \in {kept, kept \cup {r}}

FreeAgain(r) ==
    /\ Len(free_anon) + r.len <= MaxFree
    /\ Free(r)
    /\ UNCHANGED <<runs, kept>>

-----------------------------------------------------------------------------
(* The most recently used frame goes to the front, whatever copies of its  *)
(* index the list already holds; CLOCK keeps no list.                      *)
Touched(f, lru) == IF policy = "CLOCK" THEN lru ELSE <<f>> \o lru

(* Mutant: a hit does not pin.                                             *)
FetchHitUnpinned(b) ==
    /\ mode = "ready"
    /\ page_table[b] # NoFrame
    /\ Len(lru_list) < MaxLru
    /\ held[b] < MaxPins
    /\ frames' = [frames EXCEPT ![page_table[b]].referenced = TRUE]
    /\ lru_list' = Touched(page_table[b], lru_list)
    /\ held' = [held EXCEPT ![b] = @ + 1]
    /\ UNCHANGED <<page_table, clock_hand, policy, alloc, disk, mode, want>>

FetchHit(b) ==
    /\ mode = "ready"
    /\ page_table[b] # NoFrame
    /\ Len(lru_list) < MaxLru
    /\ held[b] < MaxPins
    /\ frames' = [frames EXCEPT ![page_table[b]].pin = @ + 1,
                                ![page_table[b]].referenced = TRUE]
    /\ lru_list' = Touched(page_table[b], lru_list)
    /\ held' = [held EXCEPT ![b] = @ + 1]
    /\ UNCHANGED <<page_table, clock_hand, policy, alloc, disk, mode, want>>

(* The end of a missed fetch: read b into frame f, against the disk d, the *)
(* page table pt and the list lru that the eviction left.  An anonymous    *)
(* block nobody wrote makes the disk process exit and the read fail.       *)
Load(b, f, d, pt, lru) ==
    /\ disk' = d
    /\ want' = NoBlock
    /\ \/ /\ d[b] = NoData
          /\ mode' = "failed"
          /\ page_table' = pt
          /\ lru_list' = lru
          /\ UNCHANGED <<frames, held>>
       \/ /\ d[b] # NoData
          /\ mode' = "ready"
          /\ frames' = [frames EXCEPT ![f] =
                [block |-> b, data |-> d[b], dirty |-> FALSE,
                 pin |-> 1, referenced |-> TRUE]]
          /\ page_table' = [pt EXCEPT ![b] = f]
          /\ lru_list' = Touched(f, lru)
          /\ held' = [held EXCEPT ![b] = @ + 1]

(* Mutant: an unpinned frame counts as free.                               *)
IsUnpinned(f) == frames[f].pin = 0

IsFirstFree(f) ==
    /\ frames[f].block = NoBlock
    /\ \A g \in Frames : frames[g].block = NoBlock => f <= g

FetchMissFree(b) ==
    /\ mode = "ready"
    /\ page_table[b] = NoFrame
    /\ Len(lru_list) < MaxLru
    /\ held[b] < MaxPins
    /\ \E f \in Frames : IsFirstFree(f) /\ Load(b, f, disk, page_table, lru_list)
    /\ UNCHANGED <<clock_hand, policy, alloc>>

FetchMissFull(b) ==
    /\ mode = "ready"
    /\ page_table[b] = NoFrame
    /\ Len(lru_list) < MaxLru
    /\ held[b] < MaxPins
    /\ \A f \in Frames : frames[f].block # NoBlock
    /\ mode' = "scan"
    /\ want' = b
    /\ UNCHANGED <<cache, policy, alloc, disk, held>>

-----------------------------------------------------------------------------
(* Steps 3 and 4 of find_free_or_evict, then the rest of fetch_block: write *)
(* the victim back if it is dirty, unmap it, load the wanted block.  The   *)
(* disk refuses to write below the scratch region and exits.               *)
Evict(f, lru) ==
    LET old == frames[f].block
        d   == IF frames[f].dirty THEN [disk EXCEPT ![old] = frames[f].data] ELSE disk
        pt  == [page_table EXCEPT ![old] = NoFrame]
    IN  \/ /\ frames[f].dirty /\ old \in FileBlocks
           /\ mode' = "failed"
           /\ want' = NoBlock
           /\ lru_list' = lru
           /\ UNCHANGED <<frames, page_table, disk, held>>
        \/ /\ ~(frames[f].dirty /\ old \in FileBlocks)
           /\ Load(want, f, d, pt, lru)

Stale(f) == frames[f].block # NoBlock /\ page_table[frames[f].block] # f

(* One turn of the LRU and MRU loops: take the entry at the end of the     *)
(* list where the policy looks, put it at the other end if it is pinned.   *)
Popped     == IF policy = "LRU" THEN lru_list[Len(lru_list)] ELSE Head(lru_list)
Rest       == IF policy = "LRU" THEN SubSeq(lru_list, 1, Len(lru_list) - 1)
                                ELSE Tail(lru_list)
PutBackSameEnd(f) == lru_list    \* mutant: the scan meets it again at once
PutBackNowhere(f) == Rest        \* mutant: a pinned frame leaves the list
PutBack(f) == IF policy = "LRU" THEN <<f>> \o Rest ELSE Append(Rest, f)

ScanListEmpty ==
    /\ mode = "scan" /\ policy # "CLOCK"
    /\ lru_list = <<>>
    /\ mode' = "exhausted"
    /\ UNCHANGED <<cache, policy, alloc, disk, want, held>>

ScanListSkip ==
    /\ mode = "scan" /\ policy # "CLOCK"
    /\ lru_list # <<>>
    /\ Stale(Popped) \/ frames[Popped].pin > 0
    /\ lru_list' = IF Stale(Popped) THEN Rest ELSE PutBack(Popped)
    /\ UNCHANGED <<frames, page_table, clock_hand, policy, alloc, disk, mode, want, held>>

(* Mutant: the pin count is not looked at.                                 *)
ScanListEvictPinned ==
    /\ mode = "scan" /\ policy # "CLOCK"
    /\ lru_list # <<>>
    /\ ~Stale(Popped)
    /\ Evict(Popped, Rest)
    /\ UNCHANGED <<clock_hand, policy, alloc>>

ScanListEvict ==
    /\ mode = "scan" /\ policy # "CLOCK"
    /\ lru_list # <<>>
    /\ ~Stale(Popped) /\ frames[Popped].pin = 0
    /\ Evict(Popped, Rest)
    /\ UNCHANGED <<clock_hand, policy, alloc>>

NextHand == (clock_hand + 1) % NumFrames

ScanClockSkip ==
    /\ mode = "scan" /\ policy = "CLOCK"
    /\ frames[clock_hand].pin > 0 \/ frames[clock_hand].referenced
    /\ frames' = [frames EXCEPT ![clock_hand].referenced =
                     IF frames[clock_hand].pin = 0 THEN FALSE ELSE @]
    /\ clock_hand' = NextHand
    /\ UNCHANGED <<page_table, lru_list, policy, alloc, disk, mode, want, held>>

ScanClockEvict ==
    /\ mode = "scan" /\ policy = "CLOCK"
    /\ frames[clock_hand].pin = 0 /\ ~frames[clock_hand].referenced
    /\ clock_hand' = NextHand
    /\ Evict(clock_hand, lru_list)
    /\ UNCHANGED <<policy, alloc>>

Scan == \/ ScanListEmpty \/ ScanListSkip \/ ScanListEvict
        \/ ScanClockSkip \/ ScanClockEvict

-----------------------------------------------------------------------------
(* unpin: decrements the frame the block is in now, if any, down to zero.  *)
(* Callers unpin what they fetched.                                        *)
Unpin(b) ==
    /\ mode = "ready"
    /\ held[b] > 0
    /\ held' = [held EXCEPT ![b] = @ - 1]
    /\ frames' = IF page_table[b] # NoFrame /\ frames[page_table[b]].pin > 0
                 THEN [frames EXCEPT ![page_table[b]].pin = @ - 1]
                 ELSE frames
    /\ UNCHANGED <<page_table, lru_list, clock_hand, policy, alloc, disk, mode, want>>

MarkDirty(b) ==
    /\ mode = "ready"
    /\ page_table[b] # NoFrame
    /\ frames' = [frames EXCEPT ![page_table[b]].dirty = TRUE]
    /\ UNCHANGED <<page_table, lru_list, clock_hand, policy, alloc, disk, mode, want, held>>

SetPolicy(p) ==
    /\ mode = "ready"
    /\ policy' = p
    /\ UNCHANGED <<cache, alloc, disk, mode, want, held>>

-----------------------------------------------------------------------------
Payloads(n) == [1 .. n -> Content]

Next ==
    \/ AllocateRecycled
    \/ \E n \in 1 .. MaxRun :
          \/ AllocateFresh(n)
          \/ \E cs \in Payloads(n) : WriteRawRun(cs) \/ WriteRunBlocks(cs)
    \/ \E r \in runs :
          \/ FreeRun(r)
          \/ \E cs \in Payloads(r.len) : WriteBlocks(r, cs)
    \/ \E r \in kept : FreeAgain(r)
    \/ \E b \in Blocks :
          \/ FetchHit(b) \/ FetchMissFree(b) \/ FetchMissFull(b)
          \/ Unpin(b) \/ MarkDirty(b)
    \/ \E p \in Policies : SetPolicy(p)
    \/ Scan

Spec == Init /\ [][Next]_vars

(* The victim loop is sequential code: it keeps taking steps.              *)
FairSpec == Spec /\ WF_vars(Scan)

-----------------------------------------------------------------------------
(* The state has the types buffer_pool.rs declares, every index into       *)
(* frames is in range (an index out of range panics in Rust), and want is  *)
(* set exactly while a victim is searched.                                 *)
TypeOK ==
    /\ frames \in [Frames -> Frame]
    /\ page_table \in [Blocks -> Frames \cup {NoFrame}]
    /\ lru_list \in Seq(Frames)
    /\ clock_hand \in Frames
    /\ policy \in {"LRU", "MRU", "CLOCK"}
    /\ next_anon \in {NoBlock} \cup AnonStart .. AnonStart + MaxAnon
    /\ free_anon \in Seq(AnonBlocks)
    /\ disk \in [Blocks -> Content \cup {NoData}]
    /\ mode \in Modes
    /\ want \in Blocks \cup {NoBlock}
    /\ mode = "scan" => want \in Blocks
    /\ held \in [Blocks -> Nat]
    /\ runs \subseteq Run /\ kept \subseteq Run

Alive == mode \in {"ready", "scan"}

(* The page table and the frames describe the same mapping: a hit returns  *)
(* the frame that holds the block, and no block sits in two frames.  The   *)
(* staleness test of the LRU loop (268-273) compares the two.              *)
PageTableExact ==
    Alive => \A b \in Blocks, f \in Frames : page_table[b] = f <=> frames[f].block = b

(* What fetch_block returns on a hit is what read_blocks_sequential, which *)
(* bypasses the cache, would read from the disk at that moment, however    *)
(* blocks were recycled, overwritten and written back before.              *)
CacheCoherent ==
    Alive => \A f \in Frames :
                frames[f].block # NoBlock => frames[f].data = disk[frames[f].block]

(* Two runs in use never share a block, and no block on the free list is   *)
(* in a run in use, though runs are freed a second time: otherwise two     *)
(* spills overwrite each other on the disk.  Without second frees a block  *)
(* is on the free list once.                                               *)
NoSharedBlock ==
    /\ \A r, s \in runs : r # s => Ids(r) \cap Ids(s) = {}
    /\ \A i \in DOMAIN free_anon, r \in runs : free_anon[i] \notin Ids(r)
    /\ kept = {} => \A i, j \in DOMAIN free_anon : free_anon[i] = free_anon[j] => i = j

(* Everything in use or freed lies below the next fresh id.                *)
BelowWatermark ==
    /\ \A r \in runs \cup kept : r.start + r.len <= NextStart
    /\ \A i \in DOMAIN free_anon : free_anon[i] < NextStart

(* The count of pins in a frame is the pins callers still hold on its      *)
(* block: no fetch loses a pin and no unpin releases somebody else's.      *)
PinsMatch ==
    Alive => \A b \in Blocks :
        held[b] = IF page_table[b] = NoFrame THEN 0 ELSE frames[page_table[b]].pin

(* A block with an outstanding pin is not evicted: it stays in its frame   *)
(* for as long as the pin is held.                                         *)
PinProtects ==
    [][\A b \in Blocks :
          held[b] > 0 /\ held'[b] > 0 => page_table'[b] = page_table[b]]_vars

(* The victim search never comes to "All frames pinned - buffer pool       *)
(* exhausted!" (283, 302): its list does not run empty while it pops and   *)
(* puts back entries, with duplicates, pinned frames and frames in use.    *)
NotExhausted == mode # "exhausted"

(* A victim search ends when some frame is free to go.                     *)
ScanFinds ==
    (mode = "scan" /\ \E f \in Frames : frames[f].pin = 0) ~> (mode # "scan")
=============================================================================
