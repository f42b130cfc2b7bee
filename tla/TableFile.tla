----------------------------- MODULE TableFile -----------------------------
(***************************************************************************)
(* What the generator makes of a table: the blocks of its file             *)
(* (generator/src/main.rs, save_row_stream_to_file) and the statistics of  *)
(* its columns (stats_generator.rs).  It reads the table once for each;    *)
(* both passes see the same rows and the model takes them together.        *)
(*                                                                         *)
(* The rows are numbered in the order of the file and a block is known by  *)
(* the number of its last row.                                             *)
(***************************************************************************)
EXTENDS Integers, Sequences

CONSTANTS
    Columns,     \* column names of the table
    Ranged,      \* those that are no strings: only they get a RangeStat
    Value,       \* values of columns and literals: places in total_cmp or cmp
    Number,      \* the number a value stands for: one for -0.0 and 0.0
    NaNs,        \* the values that are no number
    RowSet,      \* the rows a table may have
    find_row_size(_),
    Usable,      \* block_size - 2, in units of row size
    MaxRows      \* bound: rows of the table

ASSUME FileAssumption ==
    /\ Ranged \subseteq Columns
    /\ Value \subseteq Int /\ Number \in [Value -> Int] /\ NaNs \subseteq Value
    /\ RowSet \subseteq [Columns -> Value]
    /\ Usable \in Nat \ {0}
    /\ \A r \in RowSet : find_row_size(r) \in 1 .. Usable   \* a longer row would be cut off
    /\ MaxRows \in Nat

VARIABLES
    rows,                       \* the rows read
    last,                       \* last row of every block written
    occupied_capacity, current_row_count,
    is_physically_ordered, lower_bound, upper_bound, last_element,
    closed                      \* the last block and the statistics are written

fileVars == <<rows, last, occupied_capacity, current_row_count,
              is_physically_ordered, lower_bound, upper_bound, last_element, closed>>

FileInit ==
    /\ rows = <<>> /\ last = <<>>
    /\ occupied_capacity = 0 /\ current_row_count = 0
    /\ is_physically_ordered = [c \in Columns |-> TRUE]
    /\ lower_bound = [c \in Columns |-> {}] /\ upper_bound = [c \in Columns |-> {}]
    /\ last_element = [c \in Columns |-> {}]
    /\ closed = FALSE

-----------------------------------------------------------------------------
(* partial_cmp and == of Data (common/src/lib.rs) go by the number, and    *)
(* nothing is less than, greater than or equal to NaN.  That is not the    *)
(* order of places: there -0.0 comes before 0.0 and NaN after all.         *)
Less(v, w) == v \notin NaNs /\ w \notin NaNs /\ Number[v] < Number[w]
Same(v, w) == v \notin NaNs /\ w \notin NaNs /\ Number[v] = Number[w]

-----------------------------------------------------------------------------
(* StatsGenerator::update, for every column.  Bounds and last element are  *)
(* {} for None.  Mutant: equal neighbours are taken for a decrease.        *)
OutOfOrderOrEqual(c, v) == \E w \in last_element[c] : ~Less(w, v)

OutOfOrder(c, v) == \E w \in last_element[c] : Less(v, w)

Update(r) ==
    /\ lower_bound' = [c \in Columns |->
          IF \E w \in lower_bound[c] : ~Less(r[c], w) THEN lower_bound[c] ELSE {r[c]}]
    /\ upper_bound' = [c \in Columns |->
          IF \E w \in upper_bound[c] : ~Less(w, r[c]) THEN upper_bound[c] ELSE {r[c]}]
    /\ is_physically_ordered' =
          [c \in Columns |-> is_physically_ordered[c] /\ ~OutOfOrder(c, r[c])]
    /\ last_element' = [c \in Columns |-> {r[c]}]

(* A row that does not fit any more closes the block before it.            *)
(* Mutant: the block is closed after it.                                   *)
ClosesBlockLate == Append(last, Len(rows) + 1)

ClosesBlock == Append(last, Len(rows))

WriteRow(r) ==
    /\ ~closed /\ Len(rows) < MaxRows
    /\ rows' = Append(rows, r)
    /\ IF occupied_capacity + find_row_size(r) > Usable
       THEN /\ last' = ClosesBlock
            /\ occupied_capacity' = find_row_size(r) /\ current_row_count' = 1
       ELSE /\ occupied_capacity' = occupied_capacity + find_row_size(r)
            /\ current_row_count' = current_row_count + 1
            /\ UNCHANGED last
    /\ Update(r)
    /\ UNCHANGED closed

Close ==
    /\ ~closed
    /\ last' = IF current_row_count > 0 THEN ClosesBlock ELSE last
    /\ closed' = TRUE
    /\ UNCHANGED <<rows, occupied_capacity, current_row_count, is_physically_ordered,
                   lower_bound, upper_bound, last_element>>

FileNext == Close \/ \E r \in RowSet : WriteRow(r)

-----------------------------------------------------------------------------
(* StatsGenerator::build: nothing is known of an empty table.              *)
IsOrdered(c) == rows # <<>> /\ is_physically_ordered[c]
Lower(c)     == IF c \in Ranged THEN lower_bound[c] ELSE {}
Upper(c)     == IF c \in Ranged THEN upper_bound[c] ELSE {}

(* Block b of the file holds the rows LastRow(b - 1) + 1 to LastRow(b).    *)
NumBlocks  == Len(last)
LastRow(b) == IF b = 0 THEN 0 ELSE last[b]

-----------------------------------------------------------------------------
(* The blocks written hold the rows in order, with no block empty, and the *)
(* open block has the rest: none after the file is closed.                 *)
BlocksCoverRows ==
    /\ \A b, c \in 0 .. NumBlocks : b < c => LastRow(b) < LastRow(c)
    /\ LastRow(NumBlocks) + (IF closed THEN 0 ELSE current_row_count) = Len(rows)

(* The statistics the scanner and the planner trust say what the file      *)
(* holds: a column without NaN is marked ordered exactly if no row has a   *)
(* smaller number than an earlier one, and the bounds are values of the    *)
(* column, with none less or greater.  (A NaN is neither, so 1.0, NaN, 0.0 *)
(* is marked ordered too, and as the first value it remains the bound.)    *)
StatsTrue ==
    \A c \in Columns :
       /\ (\A i \in 1 .. Len(rows) : rows[i][c] \notin NaNs) =>
             (is_physically_ordered[c] <=>
                \A i, j \in 1 .. Len(rows) : i <= j => ~Less(rows[j][c], rows[i][c]))
       /\ \A i \in 1 .. Len(rows) :
             \E v \in lower_bound[c], w \in upper_bound[c] :
                ~Less(rows[i][c], v) /\ ~Less(w, rows[i][c])
       /\ lower_bound[c] \cup upper_bound[c] \subseteq { rows[i][c] : i \in 1 .. Len(rows) }
=============================================================================
