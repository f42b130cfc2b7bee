----------------------------- MODULE RunReader -----------------------------
(***************************************************************************)
(* database/src/disk_run.rs and PartitionWriter of hash_join.rs: rows are  *)
(* packed into the blocks of a run, flushed, and read back by RunReader    *)
(* with a prefetch window.                                                 *)
(*                                                                         *)
(* Rows are numbered in the order of writing.  A block is the number of    *)
(* rows written before it and the u16 row count in its last two bytes.     *)
(* Between two flushes of a run the pool may give ids to others, so the    *)
(* ids of a run have gaps, and a flush may leave a partly filled block in  *)
(* the middle.                                                             *)
(***************************************************************************)
EXTENDS Integers, SequencesExt

CONSTANTS
    Usable,        \* block_size - 2
    CountMod,      \* the row count of a block is a u16: 2^16
    RowSizes,      \* encoded_row_size of the rows
    Prefetch,      \* prefetch_blocks, at least 1
    MaxRows,       \* bound: rows in the run
    MaxGap         \* bound: ids others take between two flushes

ASSUME ReaderAssumption ==
    /\ Usable \in Nat \ {0}
    /\ RowSizes \subseteq 1 .. Usable     \* the assert of lines 58-64
    /\ CountMod \in Nat /\ CountMod > Usable    \* blocks of at most 64 KiB
    /\ Prefetch \in Nat \ {0}
    /\ MaxRows \in Nat /\ MaxGap \in Nat

VARIABLES
    written,            \* total_rows
    current_block, current_offset,
    pending,            \* finished blocks that are not on the disk yet
    block_ids, next_anon_block_id,
    disk,               \* id -> block, of this run
    opened,             \* RunReader::new has returned
    current_block_idx, current_row_idx, current_block_rows,
    exhausted,
    prefetched_start_idx, prefetched_count,
    read,               \* ids of the last read_blocks_sequential, in order
    out,                \* the row the last next_owned returned
    emitted,            \* how many rows next_owned has returned
    done                \* next_owned has returned None

stored == <<block_ids, next_anon_block_id, disk>>
writer == <<written, current_block, current_offset, pending, stored>>
window == <<prefetched_start_idx, prefetched_count, read>>
cursor == <<current_block_idx, current_row_idx, current_block_rows, exhausted, window>>
vars   == <<writer, opened, cursor, out, emitted, done>>

-----------------------------------------------------------------------------
Init ==
    /\ written = 0 /\ current_offset = 0 /\ pending = <<>>
    /\ current_block = [first |-> 0, count |-> 0]
    /\ block_ids = <<>> /\ next_anon_block_id = 0 /\ disk = <<>>
    /\ opened = FALSE
    /\ current_block_idx = 0 /\ current_row_idx = 0
    /\ current_block_rows = <<>>
    /\ exhausted = FALSE
    /\ prefetched_start_idx = 0 /\ prefetched_count = 0
    /\ read = <<>>
    /\ out = {} /\ emitted = 0 /\ done = FALSE

(* write_raw_run_blocks with these blocks.                                 *)
Flush(blocks) ==
    \E gap \in 0 .. MaxGap :
       LET start == next_anon_block_id + gap
           ids   == start .. start + Len(blocks) - 1
       IN  /\ next_anon_block_id' = start + Len(blocks)
           /\ block_ids' = block_ids \o [k \in 1 .. Len(blocks) |-> start + k - 1]
           /\ disk' = [id \in DOMAIN disk \cup ids |->
                          IF id \in ids THEN blocks[id - start + 1] ELSE disk[id]]
           /\ pending' = <<>>

(* A row goes to the current block if it fits, or else to a new one; what  *)
(* is pending then is flushed if it is large enough.                       *)
WriteRow ==
    /\ ~opened
    /\ written < MaxRows
    /\ written' = written + 1
    /\ \E size \in RowSizes :
          \/ /\ current_offset + size <= Usable
             /\ current_offset' = current_offset + size
             /\ current_block' = [current_block EXCEPT !.count = (@ + 1) % CountMod]
             /\ UNCHANGED <<pending, stored>>
          \/ /\ current_offset + size > Usable
             /\ current_offset' = size
             /\ current_block' = [first |-> written, count |-> 1]
             /\ \/ /\ pending' = Append(pending, current_block)
                   /\ UNCHANGED stored
                \/ Flush(Append(pending, current_block))
    /\ UNCHANGED <<opened, cursor, out, emitted, done>>

(* The end of a buffer of rows, or of the input.                           *)
Finish ==
    /\ ~opened
    /\ current_block.count > 0
    /\ Flush(Append(pending, current_block))
    /\ current_block' = [first |-> written, count |-> 0]
    /\ current_offset' = 0
    /\ UNCHANGED <<written, opened, cursor, out, emitted, done>>

-----------------------------------------------------------------------------
(* Mutant: the count is stored before it is incremented for the last row.  *)
DecodedShort(block) == [k \in 1 .. block.count - 1 |-> block.first + k]

(* decode_block_with_mask_into: as many rows as the stored count says.     *)
Decoded(block) == [k \in 1 .. block.count |-> block.first + k]

ConsecutiveAnyIds(start, count) == start + count <= Len(block_ids)   \* mutant

Consecutive(start, count) ==
    /\ start + count <= Len(block_ids)
    /\ \A k \in 1 .. count - 1 : block_ids[start + k + 1] = block_ids[start + k] + 1

(* The longest stretch of consecutive ids from start on, at most Prefetch  *)
(* of them, in one read.                                                   *)
LoadPrefetchBatch(start) ==
    \E count \in 1 .. Prefetch :
       /\ Consecutive(start, count)
       /\ count = Prefetch \/ ~Consecutive(start, count + 1)
       /\ prefetched_start_idx' = start
       /\ prefetched_count' = count
       /\ read' = [k \in 1 .. count |-> block_ids[start + 1] + k - 1]

(* new_with_prefetch                                                       *)
New ==
    /\ ~opened
    /\ current_block.count = 0 /\ pending = <<>>
    /\ opened' = TRUE
    /\ \/ /\ written = 0
          /\ exhausted' = TRUE
          /\ UNCHANGED <<window, current_block_rows>>
       \/ /\ written # 0
          /\ LoadPrefetchBatch(0)
          /\ current_block_rows' = Decoded(disk[read'[1]])
          /\ UNCHANGED exhausted
    /\ UNCHANGED <<writer, current_block_idx, current_row_idx, out, emitted, done>>

(* advance: the next row of the block, or the next block of the window, or *)
(* a new window.                                                           *)
(* Mutant: the last block of the window counts as outside.                 *)
InWindowShort(idx) ==
    prefetched_start_idx <= idx /\ idx + 1 < prefetched_start_idx + prefetched_count

InWindow(idx) ==
    prefetched_start_idx <= idx /\ idx < prefetched_start_idx + prefetched_count

AdvanceInBlock ==
    /\ current_row_idx + 1 < Len(current_block_rows)
    /\ current_row_idx' = current_row_idx + 1
    /\ UNCHANGED <<window, current_block_idx, current_block_rows, exhausted>>

AdvanceToEnd ==
    /\ current_row_idx + 1 >= Len(current_block_rows)
    /\ current_block_idx + 1 >= Len(block_ids)
    /\ current_row_idx' = current_row_idx + 1
    /\ current_block_idx' = current_block_idx + 1
    /\ exhausted' = TRUE
    /\ UNCHANGED <<window, current_block_rows>>

AdvanceToBlock ==
    /\ current_row_idx + 1 >= Len(current_block_rows)
    /\ current_block_idx + 1 < Len(block_ids)
    /\ current_block_idx' = current_block_idx + 1
    /\ \/ InWindow(current_block_idx + 1) /\ UNCHANGED window
       \/ ~InWindow(current_block_idx + 1) /\ LoadPrefetchBatch(current_block_idx + 1)
    /\ current_block_rows' =
          Decoded(disk[read'[current_block_idx + 1 - prefetched_start_idx' + 1]])
    /\ current_row_idx' = 0
    /\ UNCHANGED exhausted

(* next_owned                                                              *)
NextOwned ==
    /\ opened
    /\ ~exhausted /\ current_row_idx < Len(current_block_rows)
    /\ out' = {current_block_rows[current_row_idx + 1]}
    /\ emitted' = emitted + 1
    /\ AdvanceInBlock \/ AdvanceToEnd \/ AdvanceToBlock
    /\ UNCHANGED <<writer, opened, done>>

NextNone ==
    /\ opened
    /\ exhausted \/ current_row_idx >= Len(current_block_rows)
    /\ done' = TRUE
    /\ UNCHANGED <<writer, opened, cursor, out, emitted>>

Next == WriteRow \/ Finish \/ New \/ NextOwned \/ NextNone

Spec == Init /\ [][Next]_vars

-----------------------------------------------------------------------------
Block == [first : Nat, count : 0 .. CountMod - 1]

TypeOK ==
    /\ written \in 0 .. MaxRows /\ current_offset \in 0 .. Usable
    /\ current_block \in Block /\ pending \in Seq(Block)
    /\ block_ids \in Seq(Nat) /\ next_anon_block_id \in Nat
    /\ disk \in [ToSet(block_ids) -> Block]
    /\ opened \in BOOLEAN /\ exhausted \in BOOLEAN /\ done \in BOOLEAN
    /\ current_block_idx \in 0 .. Len(block_ids)
    /\ current_row_idx \in Nat
    /\ current_block_rows \in Seq(Nat)
    /\ prefetched_start_idx \in Nat /\ prefetched_count \in 0 .. Prefetch
    /\ read \in Seq(Nat)
    /\ out \subseteq 1 .. MaxRows /\ emitted \in Nat

(* Reading a run back yields the rows that were written, each once and in  *)
(* the order of writing, and None only after the last: however the rows    *)
(* fell into blocks, the flushes into ids and the ids into prefetches.     *)
ToRead == { r \in 1 .. written : r > emitted }
Stream == INSTANCE OperatorStream WITH
    Row    <- 1 .. MaxRows,
    Before <- { pair \in (1 .. MaxRows) \X (1 .. MaxRows) : pair[1] < pair[2] },
    todo   <- ToRead
ReadsBack ==
    /\ [](~opened => Stream!Init)
    /\ [][opened => [Stream!Next]_<<ToRead, out, done>>]_vars

(* A prefetch reads blocks of the run only: it never runs past a gap into  *)
(* blocks another run owns or nobody wrote (where the disk would exit).    *)
ReadsOwnBlocks == \A k \in DOMAIN read : read[k] \in ToSet(block_ids)

(* Windows follow each other without overlap: no block is read twice.      *)
ReadsOnce ==
    [][prefetched_count # 0 /\ prefetched_start_idx' # prefetched_start_idx
          => prefetched_start_idx' = prefetched_start_idx + prefetched_count]_vars
=============================================================================
