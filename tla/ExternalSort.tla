---------------------------- MODULE ExternalSort ----------------------------
(***************************************************************************)
(* database/src/sort.rs, SortOp: fill a buffer up to the budget; if the    *)
(* input fits, sort it in memory; otherwise write sorted runs and merge    *)
(* them lazily through a heap, giving each run's blocks back when its      *)
(* reader is exhausted or the operator is dropped.                         *)
(*                                                                         *)
(* A run is its sequence of rows and a reader is a position in it (module  *)
(* RunReader shows that reading a run back is just that); its block ids    *)
(* are handed to free_run as a whole, so a run stands for them.  Keys are  *)
(* numbers: compare_rows is some total preorder, ascending or not.         *)
(***************************************************************************)
EXTENDS Integers, FiniteSets, SequencesExt

CONSTANTS
    Keys,            \* sort keys
    RowBytes,        \* what estimate_row_memory_bytes may return
    Budget,          \* sort_budget_bytes
    MaxRows          \* bound: rows of the input

Row == [id : 1 .. MaxRows, key : Keys, bytes : RowBytes]
Before == { p \in Row \X Row : p[1].key < p[2].key }

ASSUME SortAssumption ==
    /\ Keys \subseteq Int /\ RowBytes \subseteq Nat \ {0}
    /\ Budget \in Nat \ {0}
    /\ MaxRows \in Nat

VARIABLES
    input,       \* rows the child has not delivered yet
    phase,       \* fill, spill, open: inside new; then memory or merge; dropped
    all_rows,    \* the buffer being filled
    buffered_bytes, \* what has been counted for its rows
    overflow_row,\* the row that did not fit, if any
    runs,        \* the runs written, sorted
    pos,         \* rows next_owned has taken from each run's reader
    owned,       \* runs whose reader still has its block ids
    freed,       \* how often free_run was called with each run
    sorted_rows, \* what the in-memory path has left to return
    heap,        \* merge_heap: entries [row, run]
    out, done    \* the row the last next() returned; it returned None

vars == <<input, phase, all_rows, buffered_bytes, overflow_row, runs, pos, owned, freed,
          sorted_rows, heap, out, done>>

(* The arrangements sort_unstable_by may leave: equal keys in any order.   *)
SortedSeqs(rows) ==
    { s \in [1 .. Cardinality(rows) -> rows] :
        /\ ToSet(s) = rows
        /\ \A i, j \in DOMAIN s : i < j => s[i].key <= s[j].key }

Init ==
    /\ \E n \in 0 .. MaxRows : \E key \in [1 .. n -> Keys], bytes \in [1 .. n -> RowBytes] :
          input = [i \in 1 .. n |-> [id |-> i, key |-> key[i], bytes |-> bytes[i]]]
    /\ phase = "fill"
    /\ all_rows = {} /\ buffered_bytes = 0 /\ overflow_row = {}
    /\ runs = <<>> /\ pos = <<>> /\ owned = {} /\ freed = <<>>
    /\ sorted_rows = <<>> /\ heap = {}
    /\ out = {} /\ done = FALSE

-----------------------------------------------------------------------------
(* The loops of lines 123-131 and 172-180.  The first row always fits.     *)
Fits(r) == all_rows = {} \/ buffered_bytes + r.bytes <= Budget

FillRow ==
    /\ phase = "fill"
    /\ input # <<>>
    /\ Fits(Head(input))
    /\ all_rows' = all_rows \cup {Head(input)}
    /\ buffered_bytes' = buffered_bytes + Head(input).bytes
    /\ input' = Tail(input)
    /\ UNCHANGED <<phase, overflow_row, runs, pos, owned, freed, sorted_rows, heap, out, done>>

FillOverflow ==
    /\ phase = "fill"
    /\ input # <<>>
    /\ ~Fits(Head(input))
    /\ overflow_row' = {Head(input)}
    /\ input' = Tail(input)
    /\ phase' = "spill"
    /\ UNCHANGED <<all_rows, buffered_bytes, runs, pos, owned, freed, sorted_rows, heap, out, done>>

FillEnd ==
    /\ phase = "fill"
    /\ input = <<>>
    /\ \/ /\ runs = <<>>
          /\ phase' = "memory"
          /\ sorted_rows' \in SortedSeqs(all_rows)
          /\ all_rows' = {}
       \/ /\ runs # <<>>
          /\ phase' = IF all_rows = {} THEN "open" ELSE "spill"
          /\ UNCHANGED <<sorted_rows, all_rows>>
    /\ UNCHANGED <<input, buffered_bytes, overflow_row, runs, pos, owned, freed, heap, out, done>>

(* Mutant: the row that overflowed is not counted in its new buffer.       *)
SpillForgetsBytes ==
    /\ phase = "spill"
    /\ \E s \in SortedSeqs(all_rows) : runs' = Append(runs, s)
    /\ pos' = Append(pos, 0)
    /\ freed' = Append(freed, 0)
    /\ owned' = owned \cup {Len(runs) + 1}
    /\ all_rows' = overflow_row
    /\ buffered_bytes' = 0
    /\ overflow_row' = {}
    /\ phase' = "fill"
    /\ UNCHANGED <<input, sorted_rows, heap, out, done>>

(* Sort, write the run, and start the next buffer with the overflow row.   *)
Spill ==
    /\ phase = "spill"
    /\ \E s \in SortedSeqs(all_rows) : runs' = Append(runs, s)
    /\ pos' = Append(pos, 0)
    /\ freed' = Append(freed, 0)
    /\ owned' = owned \cup {Len(runs) + 1}
    /\ all_rows' = overflow_row
    /\ \/ overflow_row = {} /\ buffered_bytes' = 0
       \/ \E r \in overflow_row : buffered_bytes' = r.bytes
    /\ overflow_row' = {}
    /\ phase' = "fill"
    /\ UNCHANGED <<input, sorted_rows, heap, out, done>>

OpenMerge ==
    /\ phase = "open"
    /\ heap' = { [row |-> runs[k][1], run |-> k] : k \in { i \in DOMAIN runs : runs[i] # <<>> } }
    /\ pos' = [k \in DOMAIN runs |-> IF runs[k] # <<>> THEN 1 ELSE 0]
    /\ phase' = "merge"
    /\ UNCHANGED <<input, all_rows, buffered_bytes, overflow_row, runs, owned, freed,
                   sorted_rows, out, done>>

-----------------------------------------------------------------------------
NextInMemory ==
    /\ phase = "memory"
    /\ sorted_rows # <<>>
    /\ out' = {Head(sorted_rows)}
    /\ sorted_rows' = Tail(sorted_rows)
    /\ UNCHANGED <<input, phase, all_rows, buffered_bytes, overflow_row, runs, pos, owned, freed,
                   heap, done>>

(* Mutant: the ordering of the heap is not reversed.                       *)
IsTopUnreversed(e) == e \in heap /\ \A x \in heap : e.row.key >= x.row.key

(* BinaryHeap::pop: some entry no other one sorts before.                  *)
IsTop(e) == e \in heap /\ \A x \in heap : e.row.key <= x.row.key

(* Mutant: block_ids is not cleared.                                       *)
ReleaseKeepsIds(rs) ==
    /\ freed' = [k \in DOMAIN freed |-> IF k \in rs THEN freed[k] + 1 ELSE freed[k]]
    /\ UNCHANGED owned

(* free_run on the runs of a set, then their block_ids are cleared.        *)
Release(rs) ==
    /\ freed' = [k \in DOMAIN freed |-> IF k \in rs THEN freed[k] + 1 ELSE freed[k]]
    /\ owned' = owned \ rs

(* Return the top row and refill from its run, or free the run.            *)
NextMerged ==
    /\ phase = "merge"
    /\ \E e \in heap :
          /\ IsTop(e)
          /\ out' = {e.row}
          /\ \/ /\ pos[e.run] < Len(runs[e.run])
                /\ heap' = (heap \ {e}) \cup
                     {[row |-> runs[e.run][pos[e.run] + 1], run |-> e.run]}
                /\ pos' = [pos EXCEPT ![e.run] = @ + 1]
                /\ UNCHANGED <<owned, freed>>
             \/ /\ pos[e.run] = Len(runs[e.run])
                /\ heap' = heap \ {e}
                /\ Release({e.run} \cap owned)
                /\ UNCHANGED pos
    /\ UNCHANGED <<input, phase, all_rows, buffered_bytes, overflow_row, runs, sorted_rows, done>>

NextNone ==
    /\ \/ phase = "memory" /\ sorted_rows = <<>>
       \/ phase = "merge" /\ heap = {}
    /\ done' = TRUE
    /\ UNCHANGED <<input, phase, all_rows, buffered_bytes, overflow_row, runs, pos, owned,
                   freed, sorted_rows, heap, out>>

(* Drop: at any time after new, also before the stream has ended.          *)
Drop ==
    /\ phase \in {"memory", "merge"}
    /\ phase' = "dropped"
    /\ Release(owned)
    /\ UNCHANGED <<input, all_rows, buffered_bytes, overflow_row, runs, pos, sorted_rows, heap, out, done>>

Next == \/ FillRow \/ FillOverflow \/ FillEnd \/ Spill \/ OpenMerge
        \/ NextInMemory \/ NextMerged \/ NextNone \/ Drop

Spec == Init /\ [][Next]_vars

-----------------------------------------------------------------------------
TypeOK ==
    /\ input \in Seq(Row)
    /\ phase \in {"fill", "spill", "open", "memory", "merge", "dropped"}
    /\ all_rows \subseteq Row /\ buffered_bytes \in Nat /\ overflow_row \subseteq Row
    /\ runs \in Seq(Seq(Row) \ {<<>>})
    /\ pos \in [DOMAIN runs -> Nat] /\ freed \in [DOMAIN runs -> Nat]
    /\ owned \subseteq DOMAIN runs
    /\ sorted_rows \in Seq(Row)
    /\ heap \subseteq [row : Row, run : DOMAIN runs]
    /\ out \subseteq Row /\ done \in BOOLEAN

(* Rows that have not been returned yet, wherever they are.                *)
Unread(k)  == { runs[k][i] : i \in pos[k] + 1 .. Len(runs[k]) }
Remaining ==
    ToSet(input) \cup all_rows \cup overflow_row \cup ToSet(sorted_rows)
    \cup { e.row : e \in heap } \cup UNION { Unread(k) : k \in DOMAIN runs }

(* The operator returns every row of its input exactly once, in the order  *)
(* of the keys, and None only then: also when runs were spilled, when the  *)
(* row that overflowed the buffer went to the next run, when a row alone   *)
(* exceeds the budget, and however ties were broken.                       *)
Stream == INSTANCE OperatorStream WITH todo <- Remaining
SortsInput == Stream!Spec

(* The blocks of a run go back to the pool once, not twice, not while its  *)
(* reader still has rows to read from them, and at the latest when the     *)
(* operator is dropped, however early.                                     *)
FreedOnce ==
    \A k \in DOMAIN runs :
        /\ freed[k] = IF k \in owned THEN 0 ELSE 1
        /\ phase # "dropped" /\ pos[k] < Len(runs[k]) => freed[k] = 0
        /\ phase = "dropped" => freed[k] = 1

(* The bytes of the rows in memory, whatever the code counted for them.    *)
Bytes(rows) == Cardinality(UNION { {r} \X (1 .. r.bytes) : r \in rows })

(* The buffer exceeds the budget only by being a single row: also the one  *)
(* that starts with the row that overflowed the last.                      *)
BufferBounded == Cardinality(all_rows) > 1 => Bytes(all_rows) <= Budget

(* The heap holds one entry per run with rows left, its smallest, so the   *)
(* merge never waits for a run it has forgotten.                           *)
HeapCoversRuns ==
    phase = "merge" =>
        \A k \in DOMAIN runs :
            IF k \in owned
            THEN \E e \in heap : /\ e.run = k
                                 /\ e.row = runs[k][pos[k]]
                                 /\ \A x \in heap : x.run = k => x = e
            ELSE pos[k] = Len(runs[k])
=============================================================================
