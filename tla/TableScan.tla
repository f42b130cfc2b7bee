----------------------------- MODULE TableScan -----------------------------
(***************************************************************************)
(* The scan of a stored table: the file TableFile wrote, the place         *)
(* disk/src/disk_simulation/disk.rs gives it among the block ids, and      *)
(* database/src/table_scanner.rs, TableScanner, which narrows the range of *)
(* blocks with the statistics and reads it in batches.                     *)
(***************************************************************************)
EXTENDS TableFile

CONSTANTS
    Table, Others,     \* file ids: the table's and those of the other files
    OtherBlocks,       \* sizes of the other files, in blocks
    MinGap,            \* 10 GB in blocks
    PredLists,         \* lists of pushed predicates
    Filters,           \* dynamic filters: a column and the values let through
    BatchBlocks        \* blocks of a batch: 4 MiB, from 64 to 4096 blocks

(* A predicate compares a column with a literal; same says that literal    *)
(* and column have one type.  (To a column of strings a number is what NaN *)
(* is to a number: not comparable.)                                        *)
Predicate == [column : Columns, operator : {"EQ", "NE", "GT", "GTE", "LT", "LTE"},
              value : Value, same : BOOLEAN]

ASSUME ScanAssumption ==
    /\ Table \notin Others
    /\ OtherBlocks \subseteq Nat /\ MinGap \in Nat \ {0} /\ BatchBlocks \in Nat \ {0}
    /\ \A ps \in PredLists : ps \in Seq(Predicate)
    /\ \A F \in Filters : F.column \in Columns

VARIABLES
    file_metadata,         \* file id -> start_block and num_blocks
    current_position, anon_start_index,
    phase,                 \* layout, ready; pred, lower, upper: in new; scan
    preds, pred_idx,       \* pushed predicates, the one looked at
    scan_start_block, scan_end_block, low, high,
    current_block, batch_rows,
    filter,                \* the dynamic filter; {} until it is published
    out, done              \* the row the last next() returned; it returned None

diskVars == <<file_metadata, current_position, anon_start_index>>
search   == <<preds, pred_idx, scan_start_block, scan_end_block, low, high>>
scan     == <<current_block, batch_rows, filter, out, done>>
vars     == <<fileVars, diskVars, phase, search, scan>>

Init ==
    /\ FileInit
    /\ file_metadata = <<>> /\ current_position = 0 /\ anon_start_index = 0
    /\ phase = "layout"
    /\ preds = <<>> /\ pred_idx = 1
    /\ scan_start_block = 0 /\ scan_end_block = 0 /\ low = 0 /\ high = 0
    /\ current_block = 0 /\ batch_rows = {}
    /\ filter = {} /\ out = {} /\ done = FALSE

-----------------------------------------------------------------------------
(* Disk::generate_file_metadata_mapping, one file at a time.  Mutant: no   *)
(* room is left for the file itself.                                       *)
NextPositionNoFile(n) == current_position + MinGap

Larger(a, b)  == IF a >= b THEN a ELSE b
Smaller(a, b) == IF a <= b THEN a ELSE b

NextPosition(n) == current_position + n + Larger(4 * n, MinGap)

AddFile(f, n) ==
    /\ f \notin DOMAIN file_metadata
    /\ file_metadata' = [g \in DOMAIN file_metadata \cup {f} |->
          IF g = f THEN [start_block |-> current_position, num_blocks |-> n]
                   ELSE file_metadata[g]]
    /\ current_position' = NextPosition(n)

Layout ==
    /\ closed /\ phase = "layout"
    /\ \/ AddFile(Table, NumBlocks)
       \/ \E f \in Others, n \in OtherBlocks : AddFile(f, n)
    /\ UNCHANGED <<fileVars, anon_start_index, phase, search, scan>>

End(f) == file_metadata[f].start_block + file_metadata[f].num_blocks

(* compute_anon_start_index, once all files have their place.              *)
StartAnon ==
    /\ phase = "layout" /\ DOMAIN file_metadata = Others \cup {Table}
    /\ \E f \in DOMAIN file_metadata :
          /\ \A g \in DOMAIN file_metadata : End(g) <= End(f)
          /\ anon_start_index' = End(f) + MinGap
    /\ phase' = "ready"
    /\ UNCHANGED <<fileVars, file_metadata, current_position, search, scan>>

(* get_file_id                                                             *)
Holds(f, b) == file_metadata[f].start_block <= b /\ b < End(f)

-----------------------------------------------------------------------------
(* The rows of the table in the blocks before the one with id b: that      *)
(* block begins with the next row.                                         *)
RowsBefore(b) == LastRow(b - file_metadata[Table].start_block)

(* A value against the literal of p, as the closure cmp has it (59-69): by *)
(* total_cmp, and values of another type are Equal.                        *)
Below(v, p) == p.same /\ v < p.value
Above(v, p) == p.same /\ v > p.value

(* Range pruning, lines 72-112.                                            *)
Impossible(p) ==
    \/ /\ p.operator \in {"GT", "GTE"}
       /\ \E w \in Upper(p.column) : Below(w, p) \/ (p.operator = "GT" /\ ~Above(w, p))
    \/ /\ p.operator \in {"LT", "LTE"}
       /\ \E v \in Lower(p.column) : Above(v, p) \/ (p.operator = "LT" /\ ~Below(v, p))
    \/ /\ p.operator = "EQ"
       /\ \/ \E v \in Lower(p.column) : Above(v, p)
          \/ \E w \in Upper(p.column) : Below(w, p)

FindsLower(p) == p.operator \in {"EQ", "GT", "GTE"}
FindsUpper(p) == p.operator \in {"EQ", "LT", "LTE"}

Searches(p) == IsOrdered(p.column) /\ (FindsLower(p) \/ FindsUpper(p))

(* row_passes_scan_predicates compares with == and partial_cmp, numbers of *)
(* two types as numbers.                                                   *)
Passes(i, p) ==
    LET v == rows[i][p.column]
    IN  \/ p.operator = "EQ"  /\ Same(v, p.value)
        \/ p.operator = "NE"  /\ ~Same(v, p.value)
        \/ p.operator = "GT"  /\ Less(p.value, v)
        \/ p.operator = "GTE" /\ (Less(p.value, v) \/ Same(v, p.value))
        \/ p.operator = "LT"  /\ Less(v, p.value)
        \/ p.operator = "LTE" /\ (Less(v, p.value) \/ Same(v, p.value))

PassesAll(i) == \A k \in 1 .. Len(preds) : Passes(i, preds[k])

-----------------------------------------------------------------------------
(* The statistics are read back from JSON (db_context.rs), which has null  *)
(* for a NaN: the database does not start with a bound like that.          *)
StatsLoad == \A c \in Columns : (Lower(c) \cup Upper(c)) \cap NaNs = {}

(* TableScanner::new                                                       *)
Open(ps) ==
    /\ phase = "ready" /\ StatsLoad
    /\ phase' = "pred"
    /\ preds' = ps /\ pred_idx' = 1
    /\ scan_start_block' = file_metadata[Table].start_block
    /\ scan_end_block' = End(Table)
    /\ UNCHANGED <<fileVars, diskVars, low, high, scan>>

HasPred == phase = "pred" /\ pred_idx <= Len(preds)
Pred    == preds[pred_idx]

StartScan(start) == phase' = "scan" /\ current_block' = start

NextPred == phase' = "pred" /\ pred_idx' = pred_idx + 1

(* An impossible predicate empties the range and ends the loop.            *)
Prune ==
    /\ HasPred /\ Impossible(Pred)
    /\ scan_end_block' = scan_start_block
    /\ StartScan(scan_start_block)
    /\ UNCHANGED <<fileVars, diskVars, preds, pred_idx, scan_start_block, low, high,
                   batch_rows, filter, out, done>>

SkipSearch ==
    /\ HasPred /\ ~Impossible(Pred) /\ ~Searches(Pred)
    /\ NextPred
    /\ UNCHANGED <<fileVars, diskVars, preds, scan_start_block, scan_end_block, low, high, scan>>

StartSearch ==
    /\ HasPred /\ ~Impossible(Pred) /\ Searches(Pred)
    /\ phase' = IF FindsLower(Pred) THEN "lower" ELSE "upper"
    /\ low' = scan_start_block /\ high' = scan_end_block
    /\ UNCHANGED <<fileVars, diskVars, preds, pred_idx, scan_start_block, scan_end_block, scan>>

(* The first block whose last row is not below the literal.  No block is   *)
(* empty, so the loop is never left early.  Mutants: the last row may also *)
(* equal the literal; low is not moved past mid.                           *)
mid == low + (high - low) \div 2

LowerKeepsOnlyAbove(v) == ~Above(v, Pred)
LowerMovesOn(v)        == Below(v, Pred)

PastMidStays == mid
PastMid      == mid + 1

LowerStep ==
    /\ phase = "lower" /\ low < high
    /\ IF LowerMovesOn(rows[RowsBefore(mid + 1)][Pred.column])
       THEN low' = PastMid /\ UNCHANGED high
       ELSE high' = mid /\ UNCHANGED low
    /\ UNCHANGED <<fileVars, diskVars, phase, preds, pred_idx, scan_start_block,
                   scan_end_block, scan>>

(* EQ goes on with the upper bound, over the range that is left.           *)
LowerEnd ==
    /\ phase = "lower" /\ low >= high
    /\ scan_start_block' = Larger(scan_start_block, low)
    /\ IF FindsUpper(Pred)
       THEN /\ phase' = "upper"
            /\ low' = scan_start_block' /\ high' = scan_end_block
            /\ UNCHANGED pred_idx
       ELSE NextPred /\ UNCHANGED <<low, high>>
    /\ UNCHANGED <<fileVars, diskVars, preds, scan_end_block, scan>>

(* The first block whose first row is above the literal.                   *)
UpperStep ==
    /\ phase = "upper" /\ low < high
    /\ IF Above(rows[RowsBefore(mid) + 1][Pred.column], Pred)
       THEN high' = mid /\ UNCHANGED low
       ELSE low' = PastMid /\ UNCHANGED high
    /\ UNCHANGED <<fileVars, diskVars, phase, preds, pred_idx, scan_start_block,
                   scan_end_block, scan>>

UpperEnd ==
    /\ phase = "upper" /\ low >= high
    /\ scan_end_block' = Smaller(scan_end_block, low)
    /\ NextPred
    /\ UNCHANGED <<fileVars, diskVars, preds, scan_start_block, low, high, scan>>

SearchDone ==
    /\ phase = "pred" /\ pred_idx > Len(preds)
    /\ StartScan(scan_start_block)
    /\ UNCHANGED <<fileVars, diskVars, search, batch_rows, filter, out, done>>

-----------------------------------------------------------------------------
(* The hash join above publishes its filter once, between two calls: the   *)
(* lock is never taken when next() tries it.                               *)
Publish(F) ==
    /\ phase = "scan" /\ filter = {} /\ ~done
    /\ filter' = {F}
    /\ UNCHANGED <<fileVars, diskVars, phase, search, current_block, batch_rows, out, done>>

MightContain(i) == \A F \in filter : rows[i][F.column] \in F.values

(* next(): the rows of a batch leave it in stored order.                   *)
NextRow ==
    /\ phase = "scan"
    /\ \E i \in batch_rows :
          /\ \A j \in batch_rows : i <= j
          /\ out' = {i}
          /\ batch_rows' = batch_rows \ {i}
    /\ UNCHANGED <<fileVars, diskVars, phase, search, current_block, filter, done>>

(* Mutant: a batch is always full.                                         *)
CountFull == BatchBlocks

Count == Smaller(BatchBlocks, scan_end_block - current_block)

NextBatch ==
    /\ phase = "scan" /\ batch_rows = {} /\ current_block < scan_end_block
    /\ current_block' = current_block + Count
    /\ batch_rows' = { i \in RowsBefore(current_block) + 1 .. RowsBefore(current_block') :
                         PassesAll(i) /\ MightContain(i) }
    /\ UNCHANGED <<fileVars, diskVars, phase, search, filter, out, done>>

NextNone ==
    /\ phase = "scan" /\ batch_rows = {} /\ current_block >= scan_end_block
    /\ done' = TRUE
    /\ UNCHANGED <<fileVars, diskVars, phase, search, current_block, batch_rows,
                   filter, out>>

Generate == FileNext /\ UNCHANGED <<diskVars, phase, search, scan>>

ScanNext == \/ \E ps \in PredLists : Open(ps)
            \/ Prune \/ SkipSearch \/ StartSearch
            \/ LowerStep \/ LowerEnd \/ UpperStep \/ UpperEnd \/ SearchDone
            \/ NextRow \/ NextBatch \/ NextNone

Next == Generate \/ Layout \/ StartAnon \/ ScanNext \/ \E F \in Filters : Publish(F)

Spec == Init /\ [][Next]_vars

(* The scan belongs to one thread that polls it to its end.                *)
FairSpec == Spec /\ WF_vars(ScanNext)

-----------------------------------------------------------------------------
opened == phase \in {"pred", "lower", "upper", "scan"}

TypeOK ==
    /\ DOMAIN file_metadata \subseteq Others \cup {Table}
    /\ \A f \in DOMAIN file_metadata : file_metadata[f] \in [start_block : Nat, num_blocks : Nat]
    /\ current_position \in Nat /\ anon_start_index \in Nat
    /\ phase \in {"layout", "ready", "pred", "lower", "upper", "scan"}
    /\ pred_idx \in 1 .. Len(preds) + 1
    /\ opened =>
          /\ file_metadata[Table].start_block <= scan_start_block
          /\ scan_start_block <= scan_end_block /\ scan_end_block <= End(Table)
    /\ phase \in {"lower", "upper"} =>
          /\ pred_idx <= Len(preds)
          /\ scan_start_block <= low /\ low <= high /\ high <= scan_end_block
    /\ phase = "scan" => scan_start_block <= current_block /\ current_block <= scan_end_block
    /\ batch_rows \subseteq 1 .. Len(rows)
    /\ out \subseteq 1 .. MaxRows /\ done \in BOOLEAN

(* No block belongs to two files, and scratch blocks start above them all: *)
(* whatever the sizes of the files, a block the database asks for has one  *)
(* owner, and a write to scratch never lands in a table.                   *)
FilesApart ==
    /\ \A f, g \in DOMAIN file_metadata :
          f # g => End(f) < file_metadata[g].start_block \/ End(g) < file_metadata[f].start_block
    /\ phase # "layout" => \A f \in DOMAIN file_metadata : End(f) < anon_start_index

(* What the scan is about to read, in a search or as a batch, is in its    *)
(* file: the disk would fail the whole command otherwise.                  *)
ReadsOwnFile ==
    /\ phase \in {"lower", "upper"} /\ low < high => Holds(Table, mid)
    /\ phase = "scan" /\ current_block < scan_end_block =>
          \A b \in current_block .. (current_block + Count - 1) : Holds(Table, b)

(* Rows that next() has still to return: while new searches, every row     *)
(* that passes the predicates; then those of the batch and of the blocks   *)
(* not read yet.                                                           *)
Pending ==
    CASE phase \in {"layout", "ready"} -> {}
      [] phase \in {"pred", "lower", "upper"} -> { i \in 1 .. Len(rows) : PassesAll(i) }
      [] phase = "scan" ->
            batch_rows \cup { i \in RowsBefore(current_block) + 1 .. RowsBefore(scan_end_block) :
                                PassesAll(i) }

StoredOrder == { x \in (1 .. MaxRows) \X (1 .. MaxRows) : x[1] < x[2] }

Stream == INSTANCE OperatorStream WITH Row <- 1 .. MaxRows, Before <- StoredOrder,
                                       todo <- Pending

(* A step that only drops rows the published filter rules out.             *)
DropsFiltered ==
    /\ \A i \in Pending \ Pending' : ~MightContain(i)
    /\ Pending' \subseteq Pending
    /\ UNCHANGED <<out, done>>

(* The search and the test of the rows use two comparisons; for this       *)
(* predicate and the values of its column they come to the same.           *)
Agrees(p) ==
    \A i \in 1 .. Len(rows) :
        LET v == rows[i][p.column]
        IN  (Below(v, p) <=> Less(v, p.value)) /\ (Above(v, p) <=> Less(p.value, v))

Misjudged(p) == (FindsLower(p) \/ FindsUpper(p)) /\ ~Agrees(p)

(* The scan begins without rows that pass, because of such a predicate.    *)
DropsMisjudged ==
    /\ phase # "scan" /\ \E k \in 1 .. Len(preds) : Misjudged(preds[k])
    /\ Pending' \subseteq Pending
    /\ UNCHANGED <<out, done>>

(* The scan returns every row that passes the pushed predicates exactly    *)
(* once and in stored order, and None only then.  Neither pruning nor the  *)
(* binary searches lose a row, wherever the literals fall, unless a        *)
(* predicate is misjudged: its literal is of another type, or a zero, or   *)
(* there is NaN.  Apart from that only a dynamic filter drops rows, and    *)
(* only those whose key it does not contain.                               *)
ScansAll ==
    [][opened => [Stream!Next \/ DropsFiltered \/ DropsMisjudged]_<<Pending, out, done>>]_vars

(* The scan comes to its end: both binary searches stop.                   *)
Ends == opened ~> done
=============================================================================
