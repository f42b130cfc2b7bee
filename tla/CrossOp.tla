------------------------------- MODULE CrossOp -------------------------------
(***************************************************************************)
(* database/src/cross.rs, CrossOp: keep the right input in memory if it    *)
(* fits, otherwise write it to a run that is read once per chunk of left   *)
(* rows.                                                                   *)
(*                                                                         *)
(* A run is its sequence of rows and stands for its block ids (RunReader   *)
(* shows that reading it back is just that, however many flushes wrote it).*)
(***************************************************************************)
EXTENDS Integers, FiniteSetsExt, SequencesExt

CONSTANTS
    Limit,       \* memory_budget_bytes
    RightBytes,  \* estimate_row_size of the right input
    ChunkRows,   \* rows of a left chunk: 5000 in the code
    MaxRows      \* bound: rows of either input

ASSUME CrossAssumption ==
    /\ ChunkRows \in Nat \ {0} /\ MaxRows \in Nat
    /\ RightBytes \in Nat \ {0} /\ Limit \in Nat
    /\ RightBytes <= Limit                \* at least 4 MiB for one row

Row == 1 .. MaxRows

VARIABLES
    left, right,         \* rows the inputs have not delivered
    phase,               \* fill, spill, first_left: inside new; ready; dropped
    right_rows_mem,
    in_memory_mode,
    right_run,
    owned,               \* right_run still has its block_ids
    freed,               \* how often free_run was called with them
    current_left_row, current_mem_right_idx,
    left_chunk, chunk_left_idx,
    right_reader,        \* rows the reader has passed, {} for None
    out, done            \* the pair the last next() returned; it returned None

inputs == <<left, right>>
memory == <<right_rows_mem, in_memory_mode, current_left_row, current_mem_right_idx>>
run    == <<right_run, owned, freed>>
chunk  == <<left_chunk, chunk_left_idx, right_reader>>
vars   == <<inputs, phase, memory, run, chunk, out, done>>

Init ==
    /\ \E n, m \in 0 .. MaxRows : left = [i \in 1 .. n |-> i] /\ right = [i \in 1 .. m |-> i]
    /\ phase = "fill"
    /\ right_rows_mem = <<>> /\ in_memory_mode = TRUE
    /\ right_run = <<>> /\ owned = FALSE /\ freed = 0
    /\ current_left_row = {} /\ current_mem_right_idx = 0
    /\ left_chunk = <<>> /\ chunk_left_idx = 0 /\ right_reader = {}
    /\ out = {} /\ done = FALSE

-----------------------------------------------------------------------------
(* CrossOp::new                                                            *)
Fits == (Len(right_rows_mem) + 1) * RightBytes <= Limit

FillRow ==
    /\ phase = "fill" /\ right # <<>> /\ Fits
    /\ right_rows_mem' = Append(right_rows_mem, Head(right))
    /\ right' = Tail(right)
    /\ UNCHANGED <<left, phase, in_memory_mode, current_left_row, current_mem_right_idx,
                   run, chunk, out, done>>

(* The row that does not fit has been taken from the input and is not used *)
(* again.                                                                  *)
FillOverflow ==
    /\ phase = "fill" /\ right # <<>> /\ ~Fits
    /\ right' = Tail(right)
    /\ in_memory_mode' = FALSE
    /\ phase' = "spill"
    /\ UNCHANGED <<left, right_rows_mem, current_left_row, current_mem_right_idx,
                   run, chunk, out, done>>

FillEnd ==
    /\ phase = "fill" /\ right = <<>>
    /\ phase' = "first_left"
    /\ UNCHANGED <<inputs, memory, run, chunk, out, done>>

(* The buffered prefix, then the rest of the input, chunk by chunk.        *)
Spill ==
    /\ phase = "spill"
    /\ right_run' = right_rows_mem \o right
    /\ owned' = TRUE
    /\ right_rows_mem' = <<>> /\ right' = <<>>
    /\ phase' = "first_left"
    /\ UNCHANGED <<left, in_memory_mode, current_left_row, current_mem_right_idx,
                   freed, chunk, out, done>>

(* left.next(): {} is None.                                                *)
NextLeft ==
    /\ current_left_row' = IF left = <<>> THEN {} ELSE {Head(left)}
    /\ left' = IF left = <<>> THEN <<>> ELSE Tail(left)

(* The first left row is taken whatever the mode; only memory mode uses it. *)
FirstLeft ==
    /\ phase = "first_left"
    /\ NextLeft
    /\ phase' = "ready"
    /\ UNCHANGED <<right, right_rows_mem, in_memory_mode, current_mem_right_idx,
                   run, chunk, out, done>>

-----------------------------------------------------------------------------
(* next(): one action per turn of its loop.                                *)
Memory == phase = "ready" /\ in_memory_mode
OnDisk == phase = "ready" /\ ~in_memory_mode

NextInMemory ==
    /\ Memory
    /\ current_mem_right_idx < Len(right_rows_mem)
    /\ \E l \in current_left_row : out' = {<<l, right_rows_mem[current_mem_right_idx + 1]>>}
    /\ current_mem_right_idx' = current_mem_right_idx + 1
    /\ UNCHANGED <<inputs, phase, right_rows_mem, in_memory_mode, current_left_row,
                   run, chunk, done>>

(* Mutant: the right index is not reset.                                   *)
NextLeftRowKeepsIdx ==
    /\ Memory
    /\ current_left_row # {}
    /\ current_mem_right_idx = Len(right_rows_mem)
    /\ NextLeft
    /\ UNCHANGED <<right, phase, right_rows_mem, in_memory_mode, current_mem_right_idx,
                   run, chunk, out, done>>

NextLeftRow ==
    /\ Memory
    /\ current_left_row # {}
    /\ current_mem_right_idx = Len(right_rows_mem)
    /\ NextLeft
    /\ current_mem_right_idx' = 0
    /\ UNCHANGED <<right, phase, right_rows_mem, in_memory_mode, run, chunk, out, done>>

(* The next left chunk, and a reader at the start of the run.              *)
OpenChunk ==
    /\ OnDisk
    /\ left_chunk = <<>> /\ left # <<>>
    /\ LET n == Min({ChunkRows, Len(left)})
       IN  /\ left_chunk' = SubSeq(left, 1, n)
           /\ left' = SubSeq(left, n + 1, Len(left))
    /\ right_reader' = IF right_reader = {} THEN {0} ELSE right_reader
    /\ UNCHANGED <<right, phase, memory, run, chunk_left_idx, out, done>>

(* The left index after one more pair; 0 when the right row has met the    *)
(* whole chunk.                                                            *)
NextIdx == (chunk_left_idx + 1) % Len(left_chunk)

(* The right row under the reader with the next left row of the chunk; the *)
(* last one moves the reader on.                                           *)
NextOnDisk ==
    /\ OnDisk
    /\ left_chunk # <<>>
    /\ \E pos \in right_reader :
          /\ pos < Len(right_run)
          /\ out' = {<<left_chunk[chunk_left_idx + 1], right_run[pos + 1]>>}
          /\ right_reader' = {IF NextIdx = 0 THEN pos + 1 ELSE pos}
    /\ chunk_left_idx' = NextIdx
    /\ UNCHANGED <<inputs, phase, memory, run, left_chunk, done>>

(* Mutant: the ids go back with the first reader that is done.             *)
ChunkDoneFrees ==
    /\ OnDisk
    /\ left_chunk # <<>> /\ right_reader = {Len(right_run)}
    /\ right_reader' = {} /\ left_chunk' = <<>>
    /\ freed' = IF owned THEN freed + 1 ELSE freed
    /\ owned' = FALSE
    /\ UNCHANGED <<inputs, phase, memory, right_run, chunk_left_idx, out, done>>

ChunkDone ==
    /\ OnDisk
    /\ left_chunk # <<>> /\ right_reader = {Len(right_run)}
    /\ right_reader' = {} /\ left_chunk' = <<>>
    /\ UNCHANGED <<inputs, phase, memory, run, chunk_left_idx, out, done>>

NextNoneInMemory ==
    /\ Memory
    /\ current_left_row = {}
    /\ done' = TRUE
    /\ UNCHANGED <<inputs, phase, memory, run, chunk, out>>

NextNoneOnDisk ==
    /\ OnDisk
    /\ left_chunk = <<>> /\ left = <<>>
    /\ freed' = IF owned THEN freed + 1 ELSE freed
    /\ owned' = FALSE
    /\ done' = TRUE
    /\ UNCHANGED <<inputs, phase, memory, right_run, chunk, out>>

(* Mutant: only the reader's ids are given back.                           *)
DropReaderOnly ==
    /\ phase = "ready"
    /\ phase' = "dropped"
    /\ freed' = freed + Cardinality(right_reader)
    /\ UNCHANGED <<inputs, memory, right_run, owned, chunk, out, done>>

(* Drop frees the run if it has its ids, then the reader's copy of them.   *)
Drop ==
    /\ phase = "ready"
    /\ phase' = "dropped"
    /\ freed' = freed + (IF owned THEN 1 ELSE 0) + Cardinality(right_reader)
    /\ owned' = FALSE
    /\ UNCHANGED <<inputs, memory, right_run, chunk, out, done>>

Next == \/ FillRow \/ FillOverflow \/ FillEnd \/ Spill \/ FirstLeft
        \/ NextInMemory \/ NextLeftRow \/ OpenChunk \/ NextOnDisk \/ ChunkDone
        \/ NextNoneInMemory \/ NextNoneOnDisk \/ Drop

Spec == Init /\ [][Next]_vars

-----------------------------------------------------------------------------
TypeOK ==
    /\ left \in Seq(Row) /\ right \in Seq(Row)
    /\ phase \in {"fill", "spill", "first_left", "ready", "dropped"}
    /\ right_rows_mem \in Seq(Row) /\ in_memory_mode \in BOOLEAN
    /\ right_run \in Seq(Row) /\ owned \in BOOLEAN /\ freed \in Nat
    /\ current_left_row \subseteq Row
    /\ current_mem_right_idx \in 0 .. Len(right_rows_mem)
    /\ left_chunk \in Seq(Row)
    /\ chunk_left_idx \in Nat /\ (chunk_left_idx = 0 \/ chunk_left_idx < Len(left_chunk))
    /\ right_reader \subseteq 0 .. Len(right_run)
    /\ out \subseteq Row \X Row /\ done \in BOOLEAN

(* Pairs that next() has still to return.  In a chunk, the row under the   *)
(* reader has met the left rows before chunk_left_idx, the rows after it   *)
(* have met none.                                                          *)
Rest(s, k) == ToSet(SubSeq(s, k + 1, Len(s)))

ToMeet(pos) ==
    (ToSet(left_chunk) \X Rest(right_run, pos + 1))
    \cup (Rest(left_chunk, chunk_left_idx)
             \X { right_run[k] : k \in {pos + 1} \cap DOMAIN right_run })

Pending ==
    (ToSet(left) \X (ToSet(right_rows_mem) \cup ToSet(right_run) \cup ToSet(right)))
    \cup (IF in_memory_mode
             THEN current_left_row \X Rest(right_rows_mem, current_mem_right_idx)
             ELSE UNION { ToMeet(pos) : pos \in right_reader })

Stream == INSTANCE OperatorStream WITH Row <- Row \X Row, Before <- {}, todo <- Pending

(* "Write the buffered prefix first, then stream the remainder" (92): the  *)
(* operator returns every pair of a left and a right row exactly once.     *)
CrossesAll == Stream!Spec

(* Once new has returned, next() returns every pair of the rows it kept    *)
(* exactly once, and None only then: in either mode, wherever the left     *)
(* input ends in its chunks, with the run read over again for each.        *)
CrossesKept == [][phase = "ready" => [Stream!Next]_<<Pending, out, done>>]_vars

(* The run does not go back to the pool while left rows have still to meet *)
(* it.                                                                     *)
HeldWhileRead ==
    phase = "ready" /\ (left # <<>> \/ right_reader # {}) => freed = 0

(* Once dropped, however early, the run was given back.                    *)
NothingLeaked == phase = "dropped" /\ right_run # <<>> => freed >= 1
=============================================================================
