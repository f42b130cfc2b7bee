-------------------------- MODULE TableScanProofs --------------------------
(***************************************************************************)
(* Proofs about TableFile and TableScan: the generator keeps its blocks    *)
(* and statistics true to the rows, the files keep apart on the disk, the  *)
(* scan stays in its file, and for every table, layout and list of         *)
(* predicates neither pruning nor the binary searches lose a row, unless   *)
(* the order they go by misjudges a predicate; the searches halve their    *)
(* range, and new and next() come to an end.                               *)
(***************************************************************************)
EXTENDS TableScan, FiniteSetTheorems, WellFoundedInduction, TLAPS

-----------------------------------------------------------------------------
(* The generator: the blocks of a table file cover the rows, the           *)
(* statistics of its columns are true of them.                             *)

FileTypeOK ==
    /\ rows \in Seq(RowSet) /\ Len(rows) <= MaxRows
    /\ last \in Seq(Nat) /\ closed \in BOOLEAN
    /\ current_row_count \in Nat /\ occupied_capacity \in Nat
    /\ is_physically_ordered \in [Columns -> BOOLEAN]
    /\ lower_bound \in [Columns -> SUBSET Value] /\ upper_bound \in [Columns -> SUBSET Value]

(* last_element is the last row; a block with something in it has a row.   *)
Follows ==
    /\ last_element = [c \in Columns |-> IF Len(rows) = 0 THEN {} ELSE {rows[Len(rows)][c]}]
    /\ occupied_capacity > 0 => current_row_count > 0

SingleBounds ==
    \A c \in Columns : /\ \A v, w \in lower_bound[c] : v = w
                       /\ \A v, w \in upper_bound[c] : v = w

FileInv == FileTypeOK /\ Follows /\ SingleBounds /\ BlocksCoverRows /\ StatsTrue

LEMMA AppendFacts ==
    ASSUME NEW S, NEW s \in Seq(S), NEW x \in S
    PROVE  /\ Append(s, x) \in Seq(S) /\ Len(Append(s, x)) = Len(s) + 1
           /\ \A i \in 1 .. Len(s) : Append(s, x)[i] = s[i]
           /\ Append(s, x)[Len(s) + 1] = x
OBVIOUS

LEMMA SeqFacts ==
    ASSUME NEW S, NEW s \in Seq(S)
    PROVE  Len(s) \in Nat /\ \A i \in 1 .. Len(s) : s[i] \in S
OBVIOUS

(* What is not less: less is transitive among numbers.                     *)
LEMMA LessFacts ==
    ASSUME NEW u \in Value, NEW v \in Value, NEW w \in Value
    PROVE  /\ ~Less(v, v)
           /\ Less(u, v) /\ ~Less(w, v) => ~Less(w, u)
           /\ Less(v, u) /\ ~Less(v, w) => ~Less(u, w)
           /\ v \notin NaNs /\ ~Less(v, u) /\ ~Less(w, v) => ~Less(w, u)
<1>1. Number[u] \in Int /\ Number[v] \in Int /\ Number[w] \in Int
  BY FileAssumption
<1> QED
  BY <1>1 DEF Less

LEMMA FileInitInv == FileInit => FileInv
<1> SUFFICES ASSUME FileInit PROVE FileInv
  OBVIOUS
<1>1. Len(rows) = 0 /\ Len(last) = 0 /\ rows \in Seq(RowSet) /\ last \in Seq(Nat)
  BY DEF FileInit
<1>2. FileTypeOK
  <2>1. Len(rows) <= MaxRows /\ 0 \in Nat
    BY <1>1, FileAssumption
  <2>2. /\ is_physically_ordered \in [Columns -> BOOLEAN]
        /\ lower_bound \in [Columns -> SUBSET Value] /\ upper_bound \in [Columns -> SUBSET Value]
    BY DEF FileInit
  <2> QED
    BY <1>1, <2>1, <2>2 DEF FileInit, FileTypeOK
<1>3. Follows
  BY <1>1 DEF FileInit, Follows
<1>4. BlocksCoverRows
  BY <1>1 DEF FileInit, BlocksCoverRows, NumBlocks, LastRow
<1>5. StatsTrue
  <2>1. 1 .. Len(rows) = {}
    BY <1>1
  <2>2. \A c \in Columns : /\ is_physically_ordered[c] = TRUE
                           /\ lower_bound[c] = {} /\ upper_bound[c] = {}
    BY DEF FileInit
  <2> QED
    BY <2>1, <2>2 DEF StatsTrue
<1>6. SingleBounds
  BY DEF FileInit, SingleBounds
<1> QED
  BY <1>2, <1>3, <1>4, <1>5, <1>6 DEF FileInv

(* A block closed behind the rows read so far keeps the blocks in order.   *)
LEMMA ClosesBlockCovers ==
    ASSUME FileInv, current_row_count > 0, ~closed
    PROVE  /\ ClosesBlock \in Seq(Nat) /\ Len(ClosesBlock) = NumBlocks + 1
           /\ \A b \in 0 .. NumBlocks :
                 (IF b = 0 THEN 0 ELSE ClosesBlock[b]) = LastRow(b) /\ LastRow(b) < Len(rows)
           /\ ClosesBlock[NumBlocks + 1] = Len(rows)
<1>1. Len(rows) \in Nat /\ last \in Seq(Nat) /\ NumBlocks \in Nat
  BY DEF FileInv, FileTypeOK, NumBlocks
<1>2. /\ ClosesBlock \in Seq(Nat) /\ Len(ClosesBlock) = NumBlocks + 1
      /\ \A b \in 1 .. NumBlocks : ClosesBlock[b] = last[b]
      /\ ClosesBlock[NumBlocks + 1] = Len(rows)
  BY <1>1, AppendFacts DEF ClosesBlock, NumBlocks
<1>3. \A b \in 0 .. NumBlocks : LastRow(b) \in Nat
  BY <1>1, SeqFacts DEF LastRow, NumBlocks
<1>4. LastRow(NumBlocks) < Len(rows)
  BY <1>1, <1>3 DEF FileInv, FileTypeOK, BlocksCoverRows
<1>5. ASSUME NEW b \in 0 .. NumBlocks
      PROVE  (IF b = 0 THEN 0 ELSE ClosesBlock[b]) = LastRow(b) /\ LastRow(b) < Len(rows)
  <2>1. (IF b = 0 THEN 0 ELSE ClosesBlock[b]) = LastRow(b)
    BY <1>1, <1>2 DEF LastRow
  <2>2. LastRow(b) <= LastRow(NumBlocks)
    <3>1. b < NumBlocks => LastRow(b) < LastRow(NumBlocks)
      BY <1>1 DEF FileInv, BlocksCoverRows
    <3>2. b = NumBlocks \/ b < NumBlocks
      BY <1>1
    <3> QED
      BY <1>1, <1>3, <3>1, <3>2
  <2> QED
    BY <1>1, <1>3, <1>4, <2>1, <2>2
<1> QED
  BY <1>2, <1>5

(* So the file is in order after the block is written.                     *)
LEMMA BlockClosed ==
    ASSUME FileInv, current_row_count > 0, ~closed, last' = ClosesBlock
    PROVE  /\ last' \in Seq(Nat) /\ NumBlocks' \in Nat
           /\ LastRow(NumBlocks)' = Len(rows)
           /\ \A b, c \in 0 .. NumBlocks' : b < c => LastRow(b)' < LastRow(c)'
<1>1. NumBlocks \in Nat /\ Len(rows) \in Nat
  BY SeqFacts DEF FileInv, FileTypeOK, NumBlocks
<1>2. last' \in Seq(Nat) /\ NumBlocks' = NumBlocks + 1
  BY ClosesBlockCovers DEF NumBlocks
<1>3. ASSUME NEW b \in 0 .. NumBlocks
      PROVE  LastRow(b)' = LastRow(b) /\ LastRow(b) < Len(rows)
  <2>1. LastRow(b)' = IF b = 0 THEN 0 ELSE ClosesBlock[b]
    BY DEF LastRow
  <2> QED
    BY <2>1, ClosesBlockCovers
<1>4. LastRow(NumBlocks)' = Len(rows)
  <2>1. LastRow(NumBlocks)' = IF NumBlocks' = 0 THEN 0 ELSE last'[NumBlocks']
    BY DEF LastRow
  <2>2. ClosesBlock[NumBlocks + 1] = Len(rows)
    BY ClosesBlockCovers
  <2> QED
    BY <1>1, <1>2, <2>1, <2>2
<1>5. ASSUME NEW b \in 0 .. NumBlocks', NEW c \in 0 .. NumBlocks', b < c
      PROVE  LastRow(b)' < LastRow(c)'
  <2>1. b \in 0 .. NumBlocks
    BY <1>1, <1>2, <1>5
  <2>2. CASE c = NumBlocks'
    <3>1. LastRow(c)' = LastRow(NumBlocks)'
      BY <2>2 DEF LastRow
    <3> QED
      BY <1>3, <1>4, <2>1, <3>1
  <2>3. CASE c \in 0 .. NumBlocks
    <3>1. LastRow(b) < LastRow(c)
      BY <1>5, <2>1, <2>3 DEF FileInv, BlocksCoverRows
    <3> QED
      BY <1>3, <2>1, <2>3, <3>1
  <2>4. c = NumBlocks' \/ c \in 0 .. NumBlocks
    BY <1>1, <1>2
  <2> QED
    BY <2>2, <2>3, <2>4
<1> QED
  BY <1>1, <1>2, <1>4, <1>5

(* A row more leaves the ordered flag true of a column without NaN.        *)
LEMMA OrderedUpdate ==
    ASSUME FileInv, NEW r \in RowSet, Update(r), rows' = Append(rows, r), NEW c \in Columns,
           \A i \in 1 .. Len(rows') : rows'[i][c] \notin NaNs
    PROVE  is_physically_ordered'[c] <=>
              \A i, j \in 1 .. Len(rows') : i <= j => ~Less(rows'[j][c], rows'[i][c])
<1>1. /\ Len(rows) \in Nat /\ Len(rows') = Len(rows) + 1
      /\ \A i \in 1 .. Len(rows) : rows'[i] = rows[i]
      /\ rows'[Len(rows) + 1] = r
  BY AppendFacts, SeqFacts DEF FileInv, FileTypeOK
<1>2. r[c] \in Value /\ \A i \in 1 .. Len(rows) : rows[i][c] \in Value /\ rows[i][c] \notin NaNs
  <2>1. \A i \in 1 .. Len(rows) : rows[i] \in RowSet
    BY SeqFacts DEF FileInv, FileTypeOK
  <2>2. \A i \in 1 .. Len(rows) : i \in 1 .. Len(rows') /\ rows'[i] = rows[i]
    BY <1>1
  <2> QED
    BY <2>1, <2>2, FileAssumption
<1>3. is_physically_ordered[c] <=>
         \A i, j \in 1 .. Len(rows) : i <= j => ~Less(rows[j][c], rows[i][c])
  BY <1>2 DEF FileInv, StatsTrue
<1>4. is_physically_ordered'[c] <=>
         is_physically_ordered[c] /\ (Len(rows) > 0 => ~Less(r[c], rows[Len(rows)][c]))
  <2>1. last_element[c] = IF Len(rows) = 0 THEN {} ELSE {rows[Len(rows)][c]}
    BY DEF FileInv, Follows
  <2>2. is_physically_ordered'[c] <=> is_physically_ordered[c] /\ ~OutOfOrder(c, r[c])
    BY DEF Update, FileInv, FileTypeOK
  <2>3. OutOfOrder(c, r[c]) <=> Len(rows) > 0 /\ Less(r[c], rows[Len(rows)][c])
    BY <1>1, <2>1 DEF OutOfOrder
  <2> QED
    BY <2>2, <2>3
<1>5. ASSUME is_physically_ordered'[c],
             NEW i \in 1 .. Len(rows'), NEW j \in 1 .. Len(rows'), i <= j
      PROVE  ~Less(rows'[j][c], rows'[i][c])
  <2>1. CASE j = Len(rows) + 1 /\ i <= Len(rows)
    <3>1. i \in 1 .. Len(rows) /\ Len(rows) \in 1 .. Len(rows) /\ i <= Len(rows) /\ Len(rows) > 0
      BY <1>1, <2>1
    <3>2. ~Less(rows[Len(rows)][c], rows[i][c]) /\ ~Less(r[c], rows[Len(rows)][c])
      BY <1>3, <1>4, <1>5, <3>1
    <3>3. ~Less(r[c], rows[i][c])
      BY <1>2, <3>1, <3>2, LessFacts
    <3> QED
      BY <1>1, <2>1, <3>1, <3>3
  <2>2. CASE j = Len(rows) + 1 /\ i = Len(rows) + 1
    BY <1>1, <1>2, <2>2, LessFacts
  <2>3. CASE j <= Len(rows)
    <3>1. i \in 1 .. Len(rows) /\ j \in 1 .. Len(rows)
      BY <1>1, <1>5, <2>3
    <3> QED
      BY <1>1, <1>3, <1>4, <1>5, <3>1
  <2> QED
    BY <1>1, <1>5, <2>1, <2>2, <2>3
<1>6. ASSUME \A i, j \in 1 .. Len(rows') : i <= j => ~Less(rows'[j][c], rows'[i][c])
      PROVE  is_physically_ordered'[c]
  <2>1. ASSUME NEW i \in 1 .. Len(rows), NEW j \in 1 .. Len(rows), i <= j
        PROVE  ~Less(rows[j][c], rows[i][c])
    <3>1. i \in 1 .. Len(rows') /\ j \in 1 .. Len(rows')
      BY <1>1
    <3> QED
      BY <1>1, <1>6, <2>1, <3>1
  <2>2. ASSUME Len(rows) > 0 PROVE ~Less(r[c], rows[Len(rows)][c])
    <3>1. /\ Len(rows) \in 1 .. Len(rows') /\ Len(rows) + 1 \in 1 .. Len(rows')
          /\ Len(rows) \in 1 .. Len(rows) /\ Len(rows) <= Len(rows) + 1
      BY <1>1, <2>2
    <3> QED
      BY <1>1, <1>6, <3>1
  <2> QED
    BY <1>3, <1>4, <2>1, <2>2
<1> QED
  BY <1>5, <1>6

(* And the bounds, which stay or become the value of that row.             *)
LEMMA BoundsUpdate ==
    ASSUME FileInv, NEW r \in RowSet, Update(r), rows' = Append(rows, r), NEW c \in Columns
    PROVE  /\ \A i \in 1 .. Len(rows') :
                 \E v \in lower_bound'[c], w \in upper_bound'[c] :
                    ~Less(rows'[i][c], v) /\ ~Less(w, rows'[i][c])
           /\ lower_bound'[c] \cup upper_bound'[c] \subseteq { rows'[i][c] : i \in 1 .. Len(rows') }
<1>1. /\ Len(rows) \in Nat /\ Len(rows') = Len(rows) + 1
      /\ \A i \in 1 .. Len(rows) : rows'[i] = rows[i]
      /\ rows'[Len(rows) + 1] = r
  BY AppendFacts, SeqFacts DEF FileInv, FileTypeOK
<1>2. r[c] \in Value /\ \A i \in 1 .. Len(rows) : rows[i][c] \in Value
  <2>1. \A i \in 1 .. Len(rows) : rows[i] \in RowSet
    BY SeqFacts DEF FileInv, FileTypeOK
  <2> QED
    BY <2>1, FileAssumption
<1>3. /\ \A i \in 1 .. Len(rows) :
            \E v \in lower_bound[c], w \in upper_bound[c] :
               ~Less(rows[i][c], v) /\ ~Less(w, rows[i][c])
      /\ lower_bound[c] \cup upper_bound[c] \subseteq { rows[i][c] : i \in 1 .. Len(rows) }
  BY DEF FileInv, StatsTrue
<1>4. /\ lower_bound'[c] = IF \E w \in lower_bound[c] : ~Less(r[c], w) THEN lower_bound[c] ELSE {r[c]}
      /\ upper_bound'[c] = IF \E w \in upper_bound[c] : ~Less(w, r[c]) THEN upper_bound[c] ELSE {r[c]}
      /\ lower_bound[c] \subseteq Value /\ upper_bound[c] \subseteq Value
  BY DEF Update, FileInv, FileTypeOK
<1>5. ASSUME NEW i \in 1 .. Len(rows') PROVE \E v \in lower_bound'[c] : ~Less(rows'[i][c], v)
  <2>1. CASE i = Len(rows) + 1
    BY <1>1, <1>2, <1>4, <2>1, LessFacts
  <2>2. CASE i \in 1 .. Len(rows)
    <3>1. PICK v \in lower_bound[c] : ~Less(rows[i][c], v)
      BY <1>3, <2>2
    <3>2. rows'[i][c] = rows[i][c] /\ rows[i][c] \in Value /\ v \in Value
      BY <1>1, <1>2, <1>4, <2>2
    <3>3. CASE \E w \in lower_bound[c] : ~Less(r[c], w)
      BY <1>4, <3>1, <3>2, <3>3
    <3>4. CASE ~\E w \in lower_bound[c] : ~Less(r[c], w)
      <4>1. lower_bound'[c] = {r[c]} /\ Less(r[c], v)
        BY <1>4, <3>1, <3>4
      <4>2. ~Less(rows[i][c], r[c])
        BY <1>2, <3>1, <3>2, <4>1, LessFacts
      <4> QED
        BY <3>2, <4>1, <4>2
    <3> QED
      BY <3>3, <3>4
  <2>3. i = Len(rows) + 1 \/ i \in 1 .. Len(rows)
    BY <1>1
  <2> QED
    BY <2>1, <2>2, <2>3
<1>6. ASSUME NEW i \in 1 .. Len(rows') PROVE \E w \in upper_bound'[c] : ~Less(w, rows'[i][c])
  <2>1. CASE i = Len(rows) + 1
    BY <1>1, <1>2, <1>4, <2>1, LessFacts
  <2>2. CASE i \in 1 .. Len(rows)
    <3>1. PICK w \in upper_bound[c] : ~Less(w, rows[i][c])
      BY <1>3, <2>2
    <3>2. rows'[i][c] = rows[i][c] /\ rows[i][c] \in Value /\ w \in Value
      BY <1>1, <1>2, <1>4, <2>2
    <3>3. CASE \E v \in upper_bound[c] : ~Less(v, r[c])
      BY <1>4, <3>1, <3>2, <3>3
    <3>4. CASE ~\E v \in upper_bound[c] : ~Less(v, r[c])
      <4>1. upper_bound'[c] = {r[c]} /\ Less(w, r[c])
        BY <1>4, <3>1, <3>4
      <4>2. ~Less(r[c], rows[i][c])
        BY <1>2, <3>1, <3>2, <4>1, LessFacts
      <4> QED
        BY <3>2, <4>1, <4>2
    <3> QED
      BY <3>3, <3>4
  <2>3. i = Len(rows) + 1 \/ i \in 1 .. Len(rows)
    BY <1>1
  <2> QED
    BY <2>1, <2>2, <2>3
<1>7. lower_bound'[c] \cup upper_bound'[c] \subseteq { rows'[i][c] : i \in 1 .. Len(rows') }
  <2>1. r[c] \in { rows'[i][c] : i \in 1 .. Len(rows') }
    BY <1>1
  <2>2. { rows[i][c] : i \in 1 .. Len(rows) } \subseteq { rows'[i][c] : i \in 1 .. Len(rows') }
    BY <1>1
  <2> QED
    BY <1>3, <1>4, <2>1, <2>2
<1> QED
  BY <1>5, <1>6, <1>7

LEMMA UpdateInv ==
    ASSUME FileInv, NEW r \in RowSet, Update(r), rows' = Append(rows, r)
    PROVE  StatsTrue'
BY OrderedUpdate, BoundsUpdate DEF StatsTrue

LEMMA WriteRowInv == ASSUME FileInv, NEW r \in RowSet, WriteRow(r) PROVE FileInv'
<1>1. /\ Len(rows) \in Nat /\ rows' = Append(rows, r) /\ Len(rows') = Len(rows) + 1
      /\ rows' \in Seq(RowSet) /\ rows'[Len(rows) + 1] = r
      /\ NumBlocks \in Nat /\ \A b \in 1 .. NumBlocks : last[b] \in Nat
      /\ find_row_size(r) \in 1 .. Usable /\ Usable \in Nat
      /\ occupied_capacity \in Nat /\ current_row_count \in Nat /\ MaxRows \in Nat
  <2>1. rows \in Seq(RowSet) /\ last \in Seq(Nat) /\ rows' = Append(rows, r)
    BY DEF FileInv, FileTypeOK, WriteRow
  <2>2. /\ Len(rows) \in Nat /\ Len(rows') = Len(rows) + 1
        /\ rows' \in Seq(RowSet) /\ rows'[Len(rows) + 1] = r
    BY <2>1, AppendFacts, SeqFacts
  <2>3. NumBlocks \in Nat /\ \A b \in 1 .. NumBlocks : last[b] \in Nat
    BY <2>1, SeqFacts DEF NumBlocks
  <2>4. find_row_size(r) \in 1 .. Usable /\ Usable \in Nat /\ MaxRows \in Nat
    BY FileAssumption
  <2>5. occupied_capacity \in Nat /\ current_row_count \in Nat
    BY DEF FileInv, FileTypeOK
  <2> QED
    BY <2>1, <2>2, <2>3, <2>4, <2>5
<1>2. StatsTrue'
  BY UpdateInv DEF WriteRow
<1>3. Follows'
  <2>1. \A c \in Columns : last_element'[c] = {rows'[Len(rows')][c]}
    BY <1>1 DEF WriteRow, Update
  <2>2. last_element' = [c \in Columns |-> {rows'[Len(rows')][c]}]
    BY <1>1 DEF WriteRow, Update
  <2>3. current_row_count' > 0
    BY <1>1 DEF WriteRow
  <2> QED
    BY <1>1, <2>2, <2>3 DEF Follows
<1>4. last' \in Seq(Nat) /\ BlocksCoverRows'
  <2>1. CASE occupied_capacity + find_row_size(r) > Usable
    <3>1. current_row_count > 0 /\ ~closed /\ last' = ClosesBlock /\ current_row_count' = 1 /\ ~closed'
      BY <1>1, <2>1 DEF WriteRow, FileInv, Follows
    <3>2. Len(rows) + 1 = Len(rows')
      BY <1>1
    <3> QED
      BY <1>1, <3>1, <3>2, BlockClosed DEF BlocksCoverRows
  <2>2. CASE ~(occupied_capacity + find_row_size(r) > Usable)
    <3>1. last' = last /\ ~closed /\ ~closed' /\ current_row_count' = current_row_count + 1
      BY <2>2 DEF WriteRow
    <3>2. LastRow(NumBlocks) \in Nat
      BY <1>1 DEF LastRow
    <3>3. LastRow(NumBlocks)' = LastRow(NumBlocks) /\ NumBlocks' = NumBlocks
      BY <3>1 DEF LastRow, NumBlocks
    <3>4. LastRow(NumBlocks) + current_row_count = Len(rows)
      BY <3>1 DEF FileInv, BlocksCoverRows
    <3>5. \A b, c \in 0 .. NumBlocks' : b < c => LastRow(b)' < LastRow(c)'
      BY <3>1, <3>3 DEF FileInv, BlocksCoverRows, LastRow
    <3> QED
      BY <1>1, <3>1, <3>2, <3>3, <3>4, <3>5 DEF BlocksCoverRows, FileInv, FileTypeOK
  <2> QED
    BY <2>1, <2>2
<1>5. FileTypeOK'
  <2>1. current_row_count' \in Nat /\ occupied_capacity' \in Nat /\ Len(rows') <= MaxRows
    BY <1>1 DEF WriteRow
  <2>2. \A c \in Columns : r[c] \in Value
    BY FileAssumption
  <2>3. /\ lower_bound' \in [Columns -> SUBSET Value] /\ upper_bound' \in [Columns -> SUBSET Value]
        /\ is_physically_ordered' \in [Columns -> BOOLEAN]
    BY <2>2 DEF WriteRow, Update, FileInv, FileTypeOK
  <2> QED
    BY <1>1, <1>4, <2>1, <2>3 DEF WriteRow, FileInv, FileTypeOK
<1>6. SingleBounds'
  <2>1. \A c \in Columns :
           /\ lower_bound'[c] = lower_bound[c] \/ lower_bound'[c] = {r[c]}
           /\ upper_bound'[c] = upper_bound[c] \/ upper_bound'[c] = {r[c]}
    BY DEF WriteRow, Update
  <2> QED
    BY <2>1 DEF FileInv, SingleBounds
<1> QED
  BY <1>2, <1>3, <1>4, <1>5, <1>6 DEF FileInv

LEMMA CloseInv == ASSUME FileInv, Close PROVE FileInv'
<1>1. /\ Len(rows) \in Nat /\ NumBlocks \in Nat /\ current_row_count \in Nat
      /\ rows' = rows /\ ~closed /\ closed'
  BY SeqFacts DEF FileInv, FileTypeOK, Close, NumBlocks
<1>2. last' \in Seq(Nat) /\ BlocksCoverRows'
  <2>1. CASE current_row_count > 0
    <3>1. last' = ClosesBlock
      BY <2>1 DEF Close
    <3> QED
      BY <1>1, <2>1, <3>1, BlockClosed DEF BlocksCoverRows
  <2>2. CASE current_row_count = 0
    <3>1. last' = last
      BY <2>2 DEF Close
    <3> QED
      BY <1>1, <2>2, <3>1 DEF FileInv, FileTypeOK, BlocksCoverRows, LastRow, NumBlocks
  <2> QED
    BY <1>1, <2>1, <2>2
<1>3. FileTypeOK' /\ Follows'
  BY <1>1, <1>2 DEF FileInv, FileTypeOK, Follows, Close
<1>4. StatsTrue' /\ SingleBounds'
  BY DEF FileInv, StatsTrue, SingleBounds, Close
<1> QED
  BY <1>2, <1>3, <1>4 DEF FileInv

LEMMA FileNextInv == ASSUME FileInv, FileNext PROVE FileInv'
BY WriteRowInv, CloseInv DEF FileNext

LEMMA FileUnchanged == ASSUME FileInv, UNCHANGED fileVars PROVE FileInv'
<1>1. FileTypeOK' /\ Follows' /\ SingleBounds'
  BY DEF fileVars, FileInv, FileTypeOK, Follows, SingleBounds
<1>2. BlocksCoverRows'
  BY DEF fileVars, FileInv, BlocksCoverRows, LastRow, NumBlocks
<1>3. StatsTrue'
  BY DEF fileVars, FileInv, StatsTrue
<1> QED
  BY <1>1, <1>2, <1>3 DEF FileInv

(* The bounds enclose the column, each being one value of it.              *)
LEMMA BoundsHold ==
    ASSUME FileInv, NEW c \in Columns, NEW i \in 1 .. Len(rows)
    PROVE  /\ \A v \in lower_bound[c] : ~Less(rows[i][c], v)
           /\ \A w \in upper_bound[c] : ~Less(w, rows[i][c])
           /\ \A v \in lower_bound[c] \cup upper_bound[c] : \E j \in 1 .. Len(rows) : v = rows[j][c]
<1>1. PICK v \in lower_bound[c], w \in upper_bound[c] :
         ~Less(rows[i][c], v) /\ ~Less(w, rows[i][c])
  BY DEF FileInv, StatsTrue
<1>2. \A u \in lower_bound[c] : u = v
  BY <1>1 DEF FileInv, SingleBounds
<1>3. \A u \in upper_bound[c] : u = w
  BY <1>1 DEF FileInv, SingleBounds
<1>4. lower_bound[c] \cup upper_bound[c] \subseteq { rows[j][c] : j \in 1 .. Len(rows) }
  BY DEF FileInv, StatsTrue
<1> QED
  BY <1>1, <1>2, <1>3, <1>4

-----------------------------------------------------------------------------
(* The layout of the disk and the scan.                                    *)

(* The search may look at every predicate.                                 *)
Judged == \A k \in 1 .. Len(preds) : ~Misjudged(preds[k])

Matches == { i \in 1 .. Len(rows) : PassesAll(i) }

(* The matching rows lie behind block lo, and in front of block hi.        *)
After(lo)  == Judged => \A i \in Matches : RowsBefore(lo) < i
Before(hi) == Judged => \A i \in Matches : i <= RowsBefore(hi)

LayoutInv ==
    /\ DOMAIN file_metadata \subseteq Others \cup {Table}
    /\ \A f \in DOMAIN file_metadata :
          file_metadata[f] \in [start_block : Nat, num_blocks : Nat] /\ End(f) < current_position
    /\ current_position \in Nat /\ anon_start_index \in Nat
    /\ Table \in DOMAIN file_metadata => closed /\ file_metadata[Table].num_blocks = NumBlocks
    /\ phase # "layout" => DOMAIN file_metadata = Others \cup {Table}
    /\ FilesApart

(* The predicates are those of a list, and the range is one of the file.   *)
RangeInv ==
    /\ phase \in {"layout", "ready", "pred", "lower", "upper", "scan"}
    /\ preds \in Seq(Predicate) /\ pred_idx \in 1 .. Len(preds) + 1
    /\ scan_start_block \in Nat /\ scan_end_block \in Nat
    /\ low \in Nat /\ high \in Nat /\ current_block \in Nat
    /\ opened => /\ file_metadata[Table].start_block <= scan_start_block
                 /\ scan_start_block <= scan_end_block /\ scan_end_block <= End(Table)

Searching == phase \in {"lower", "upper"}

(* What the searches have left out does not match.                         *)
SearchInv ==
    /\ phase \in {"pred", "lower", "upper"} =>
          After(scan_start_block) /\ Before(scan_end_block)
    /\ Searching => /\ pred_idx <= Len(preds) /\ IsOrdered(Pred.column)
                    /\ scan_start_block <= low /\ low <= high /\ high <= scan_end_block
    /\ phase = "lower" => FindsLower(Pred) /\ After(low)
    /\ phase = "upper" => FindsUpper(Pred) /\ Before(high)

(* A batch holds rows that match, of the blocks read.                      *)
BatchInv ==
    /\ done \in BOOLEAN /\ out \subseteq 1 .. MaxRows
    /\ phase # "scan" => batch_rows = {} /\ ~done
    /\ phase = "scan" => /\ scan_start_block <= current_block /\ current_block <= scan_end_block
                         /\ \A i \in batch_rows : i \in Matches /\ i <= RowsBefore(current_block)
    /\ done => batch_rows = {} /\ current_block >= scan_end_block

Inv == FileInv /\ LayoutInv /\ RangeInv /\ SearchInv /\ BatchInv

-----------------------------------------------------------------------------
LEMMA SizeFacts == LayoutInv => \A f \in DOMAIN file_metadata :
                      /\ file_metadata[f].start_block \in Nat /\ file_metadata[f].num_blocks \in Nat
                      /\ End(f) = file_metadata[f].start_block + file_metadata[f].num_blocks
                      /\ End(f) \in Nat
BY DEF LayoutInv, End

(* The blocks of the table hold its rows in order.                         *)
LEMMA BlockFacts ==
    ASSUME FileInv, LayoutInv, phase # "layout"
    PROVE  /\ closed /\ Table \in DOMAIN file_metadata
           /\ file_metadata[Table].start_block \in Nat /\ End(Table) \in Nat
           /\ file_metadata[Table].start_block <= End(Table)
           /\ Len(rows) \in Nat
           /\ RowsBefore(file_metadata[Table].start_block) = 0
           /\ RowsBefore(End(Table)) = Len(rows)
           /\ \A b \in file_metadata[Table].start_block .. End(Table) :
                 RowsBefore(b) \in 0 .. Len(rows)
           /\ \A b, c \in file_metadata[Table].start_block .. End(Table) :
                 b < c => RowsBefore(b) < RowsBefore(c)
<1>1. /\ closed /\ Table \in DOMAIN file_metadata
      /\ file_metadata[Table].num_blocks = NumBlocks
  BY DEF LayoutInv
<1>2. /\ file_metadata[Table].start_block \in Nat /\ NumBlocks \in Nat
      /\ End(Table) = file_metadata[Table].start_block + NumBlocks
  BY <1>1, SizeFacts
<1>3. /\ Len(rows) \in Nat /\ LastRow(0) = 0 /\ LastRow(NumBlocks) = Len(rows)
      /\ \A b \in 0 .. NumBlocks : LastRow(b) \in Nat
  <2>1. Len(rows) \in Nat /\ \A b \in 1 .. NumBlocks : last[b] \in Nat
    BY SeqFacts DEF FileInv, FileTypeOK, NumBlocks
  <2>2. \A b \in 0 .. NumBlocks : LastRow(b) \in Nat
    BY <1>2, <2>1 DEF LastRow
  <2>3. LastRow(NumBlocks) + 0 = Len(rows)
    BY <1>1 DEF FileInv, BlocksCoverRows
  <2>4. LastRow(0) = 0
    BY DEF LastRow
  <2> QED
    BY <1>2, <2>1, <2>2, <2>3, <2>4
<1>4. \A b, c \in 0 .. NumBlocks : b < c => LastRow(b) < LastRow(c)
  BY DEF FileInv, BlocksCoverRows
<1>5. \A b \in 0 .. NumBlocks : LastRow(b) <= Len(rows)
  <2>1. ASSUME NEW b \in 0 .. NumBlocks PROVE LastRow(b) <= Len(rows)
    <3>1. CASE b = NumBlocks
      BY <1>3, <3>1
    <3>2. CASE b < NumBlocks
      <4>1. LastRow(b) < LastRow(NumBlocks)
        BY <1>2, <1>4, <3>2
      <4> QED
        BY <1>3, <4>1
    <3> QED
      BY <1>2, <3>1, <3>2
  <2> QED
    BY <2>1
<1>6. \A b \in file_metadata[Table].start_block .. End(Table) :
         /\ b - file_metadata[Table].start_block \in 0 .. NumBlocks
         /\ RowsBefore(b) = LastRow(b - file_metadata[Table].start_block)
  BY <1>2 DEF RowsBefore
<1>7. /\ RowsBefore(file_metadata[Table].start_block) = 0 /\ RowsBefore(End(Table)) = Len(rows)
  <2>1. /\ file_metadata[Table].start_block - file_metadata[Table].start_block = 0
        /\ End(Table) - file_metadata[Table].start_block = NumBlocks
    BY <1>2
  <2> QED
    BY <1>3, <2>1 DEF RowsBefore
<1>8. ASSUME NEW b \in file_metadata[Table].start_block .. End(Table),
             NEW c \in file_metadata[Table].start_block .. End(Table), b < c
      PROVE  RowsBefore(b) < RowsBefore(c)
  <2>1. b - file_metadata[Table].start_block < c - file_metadata[Table].start_block
    BY <1>2, <1>8
  <2> QED
    BY <1>4, <1>6, <2>1
<1>9. \A b \in file_metadata[Table].start_block .. End(Table) : RowsBefore(b) \in 0 .. Len(rows)
  BY <1>3, <1>5, <1>6
<1> QED
  BY <1>1, <1>2, <1>3, <1>7, <1>8, <1>9

(* An ordered column of numbers grows from row to row.                     *)
LEMMA OrderedRows ==
    ASSUME FileInv, NEW c \in Columns, IsOrdered(c),
           \A k \in 1 .. Len(rows) : rows[k][c] \notin NaNs,
           NEW i \in 1 .. Len(rows), NEW j \in 1 .. Len(rows), i <= j
    PROVE  ~Less(rows[j][c], rows[i][c])
BY DEF FileInv, StatsTrue, IsOrdered

LEMMA RowFacts ==
    ASSUME FileInv, NEW c \in Columns, NEW i \in 1 .. Len(rows)
    PROVE  rows[i][c] \in Value
<1>1. rows[i] \in RowSet
  BY SeqFacts DEF FileInv, FileTypeOK
<1> QED
  BY <1>1, FileAssumption

LEMMA PredFacts ==
    ASSUME RangeInv, pred_idx <= Len(preds)
    PROVE  /\ pred_idx \in 1 .. Len(preds) /\ Pred \in Predicate
           /\ Pred.column \in Columns /\ Pred.value \in Value
           /\ Judged /\ (FindsLower(Pred) \/ FindsUpper(Pred)) => Agrees(Pred)
           /\ \A i \in Matches : i \in 1 .. Len(rows) /\ Passes(i, Pred)
<1>1. Len(preds) \in Nat /\ pred_idx \in 1 .. Len(preds)
  BY SeqFacts DEF RangeInv
<1>2. Pred \in Predicate
  BY <1>1, SeqFacts DEF RangeInv, Pred
<1>3. Pred.column \in Columns /\ Pred.value \in Value
  BY <1>2 DEF Predicate
<1>4. Judged => ~Misjudged(Pred)
  BY <1>1 DEF Judged, Pred
<1>5. \A i \in Matches : i \in 1 .. Len(rows) /\ Passes(i, Pred)
  BY <1>1 DEF Matches, PassesAll, Pred
<1> QED
  BY <1>1, <1>2, <1>3, <1>4, <1>5 DEF Misjudged

(* A value on the near side of one beyond the literal does not equal the   *)
(* literal, nor is it beyond it the other way.                             *)
LEMMA BesideLiteral ==
    ASSUME NEW u \in Value, NEW v \in Value, NEW w \in Value
    PROVE  /\ Less(v, w) /\ ~Less(v, u) => ~Same(u, w) /\ ~Less(w, u)
           /\ Less(w, v) /\ ~Less(u, v) => ~Same(u, w) /\ ~Less(u, w)
<1>1. Number[u] \in Int /\ Number[v] \in Int /\ Number[w] \in Int
  BY FileAssumption
<1> QED
  BY <1>1 DEF Less, Same

(* Where the two comparisons agree and one row differs from the literal,   *)
(* literal and column are numbers: NaN has a place, but is never less.     *)
LEMMA NumbersOnly ==
    ASSUME FileInv, NEW p \in Predicate, Agrees(p), NEW j \in 1 .. Len(rows),
           \/ Below(rows[j][p.column], p) \/ Above(rows[j][p.column], p)
           \/ Less(rows[j][p.column], p.value) \/ Less(p.value, rows[j][p.column])
    PROVE  \A i \in 1 .. Len(rows) : rows[i][p.column] \notin NaNs
<1>1. p.value \in Value /\ p.column \in Columns
  BY DEF Predicate
<1>2. p.same /\ p.value \notin NaNs
  BY DEF Agrees, Below, Above, Less
<1> SUFFICES ASSUME NEW i \in 1 .. Len(rows), rows[i][p.column] \in NaNs PROVE FALSE
  OBVIOUS
<1>3. rows[i][p.column] \in Value /\ rows[i][p.column] # p.value
  BY <1>1, <1>2, RowFacts
<1>4. rows[i][p.column] \in Int /\ p.value \in Int
  BY <1>1, <1>3, FileAssumption
<1>5. rows[i][p.column] < p.value \/ rows[i][p.column] > p.value
  BY <1>3, <1>4
<1>6. Below(rows[i][p.column], p) \/ Above(rows[i][p.column], p)
  BY <1>2, <1>5 DEF Below, Above
<1>7. Less(rows[i][p.column], p.value) \/ Less(p.value, rows[i][p.column])
  BY <1>6 DEF Agrees
<1> QED
  BY <1>7 DEF Less

(* A literal outside the range of the column matches no row.               *)
LEMMA ImpossibleMatchesNone ==
    ASSUME FileInv, RangeInv, pred_idx <= Len(preds), Judged, Impossible(Pred)
    PROVE  Matches = {}
<1> SUFFICES ASSUME NEW i \in Matches PROVE FALSE
  OBVIOUS
<1>1. /\ i \in 1 .. Len(rows) /\ Passes(i, Pred) /\ Pred \in Predicate
      /\ Pred.column \in Columns /\ Pred.value \in Value
  BY PredFacts
<1>2. Agrees(Pred)
  BY PredFacts DEF Impossible, FindsLower, FindsUpper
<1> DEFINE u == rows[i][Pred.column]
<1>3. u \in Value
  BY <1>1, RowFacts
<1>4. /\ \A v \in Lower(Pred.column) : ~Less(u, v)
      /\ \A w \in Upper(Pred.column) : ~Less(w, u)
      /\ \A v \in Lower(Pred.column) \cup Upper(Pred.column) :
            \E j \in 1 .. Len(rows) : v = rows[j][Pred.column]
  BY <1>1, BoundsHold DEF Lower, Upper
<1>5. ASSUME NEW v \in Lower(Pred.column) \cup Upper(Pred.column)
      PROVE  /\ v \in Value
             /\ Below(v, Pred) <=> Less(v, Pred.value)
             /\ Above(v, Pred) <=> Less(Pred.value, v)
             /\ Less(u, Pred.value) \/ Less(Pred.value, u) => v \notin NaNs
  <2>1. PICK j \in 1 .. Len(rows) : v = rows[j][Pred.column]
    BY <1>4
  <2>2. v \in Value
    BY <1>1, <2>1, RowFacts
  <2>3. Less(u, Pred.value) \/ Less(Pred.value, u) => v \notin NaNs
    BY <1>1, <1>2, <2>1, NumbersOnly
  <2> QED
    BY <1>2, <2>1, <2>2, <2>3 DEF Agrees
<1>6. /\ Pred.operator = "EQ" => Same(u, Pred.value)
      /\ Pred.operator = "GT" => Less(Pred.value, u)
      /\ Pred.operator = "LT" => Less(u, Pred.value)
      /\ Pred.operator = "GTE" => Less(Pred.value, u) \/ Same(u, Pred.value)
      /\ Pred.operator = "LTE" => Less(u, Pred.value) \/ Same(u, Pred.value)
  BY <1>1 DEF Passes
<1> HIDE DEF u
<1>7. ASSUME NEW w \in Upper(Pred.column), Below(w, Pred) PROVE ~Same(u, Pred.value) /\ ~Less(Pred.value, u)
  BY <1>1, <1>3, <1>4, <1>5, <1>7, BesideLiteral
<1>8. ASSUME NEW v \in Lower(Pred.column), Above(v, Pred) PROVE ~Same(u, Pred.value) /\ ~Less(u, Pred.value)
  BY <1>1, <1>3, <1>4, <1>5, <1>8, BesideLiteral
<1>9. ASSUME NEW w \in Upper(Pred.column), Less(Pred.value, u) PROVE Above(w, Pred)
  <2>1. w \in Value /\ w \notin NaNs /\ ~Less(w, u)
    BY <1>4, <1>5, <1>9
  <2>2. Number[u] \in Int /\ Number[w] \in Int /\ Number[Pred.value] \in Int
    BY <1>1, <1>3, <2>1, FileAssumption
  <2>3. Less(Pred.value, w)
    BY <1>9, <2>1, <2>2 DEF Less
  <2> QED
    BY <1>5, <2>3
<1>10. ASSUME NEW v \in Lower(Pred.column), Less(u, Pred.value) PROVE Below(v, Pred)
  <2>1. v \in Value /\ v \notin NaNs /\ ~Less(u, v)
    BY <1>4, <1>5, <1>10
  <2>2. Number[u] \in Int /\ Number[v] \in Int /\ Number[Pred.value] \in Int
    BY <1>1, <1>3, <2>1, FileAssumption
  <2>3. Less(v, Pred.value)
    BY <1>10, <2>1, <2>2 DEF Less
  <2> QED
    BY <1>5, <2>3
<1> QED
  BY <1>6, <1>7, <1>8, <1>9, <1>10 DEF Impossible

-----------------------------------------------------------------------------
(* Init, and the steps before the scan is opened.                          *)
LEMMA InitInv == Init => Inv
<1> SUFFICES ASSUME Init PROVE Inv
  OBVIOUS
<1>1. FileInv
  BY FileInitInv DEF Init
<1>2. DOMAIN file_metadata = {} /\ phase = "layout" /\ ~opened
  BY DEF Init, opened
<1>3. LayoutInv
  BY <1>2 DEF Init, LayoutInv, FilesApart
<1>4. RangeInv
  <2>1. preds \in Seq(Predicate) /\ Len(preds) = 0 /\ 1 \in 1 .. 0 + 1 /\ 0 \in Nat
    BY DEF Init
  <2> QED
    BY <1>2, <2>1 DEF Init, RangeInv
<1>5. SearchInv /\ BatchInv
  BY <1>2 DEF Init, SearchInv, BatchInv, Searching
<1> QED
  BY <1>1, <1>3, <1>4, <1>5 DEF Inv

LEMMA GenerateInv == ASSUME Inv, Generate PROVE Inv'
<1>1. FileInv'
  BY FileNextInv DEF Inv, Generate
<1>2. ~closed
  BY DEF Generate, FileNext, Close, WriteRow
<1>3. Table \notin DOMAIN file_metadata /\ phase = "layout" /\ ~opened
  BY <1>2 DEF Inv, LayoutInv, opened
<1>4. UNCHANGED <<diskVars, phase, search, scan>>
  BY DEF Generate
<1>5. ~opened' /\ phase' = "layout" /\ ~Searching'
  BY <1>3, <1>4 DEF opened, Searching
<1>6. LayoutInv'
  BY <1>3, <1>4 DEF Inv, LayoutInv, diskVars, End, FilesApart
<1>7. RangeInv'
  BY <1>4, <1>5 DEF Inv, RangeInv, search, scan
<1>8. SearchInv' /\ BatchInv'
  BY <1>3, <1>4, <1>5 DEF Inv, SearchInv, BatchInv, scan
<1> QED
  BY <1>1, <1>6, <1>7, <1>8 DEF Inv

LEMMA AddFileApart ==
    ASSUME LayoutInv, phase = "layout", phase' = "layout", UNCHANGED <<last, closed, anon_start_index>>,
           NEW f \in Others \cup {Table}, NEW n \in Nat,
           f = Table => closed /\ n = NumBlocks,
           AddFile(f, n)
    PROVE  LayoutInv'
<1>1. /\ f \notin DOMAIN file_metadata
      /\ DOMAIN file_metadata' = DOMAIN file_metadata \cup {f}
      /\ file_metadata'[f] = [start_block |-> current_position, num_blocks |-> n]
      /\ \A g \in DOMAIN file_metadata : file_metadata'[g] = file_metadata[g]
  BY DEF AddFile
<1>2. /\ current_position \in Nat /\ current_position' \in Nat
      /\ current_position + n < current_position'
  BY ScanAssumption DEF LayoutInv, AddFile, NextPosition, Larger
<1>3. \A g \in DOMAIN file_metadata : End(g)' = End(g)
  BY <1>1 DEF End
<1>4. End(f)' = current_position + n
  BY <1>1 DEF End
<1>5. \A g \in DOMAIN file_metadata :
         End(g) \in Nat /\ End(g) < current_position
         /\ file_metadata[g] \in [start_block : Nat, num_blocks : Nat]
  BY SizeFacts DEF LayoutInv
<1>6. \A g \in DOMAIN file_metadata' :
         file_metadata'[g] \in [start_block : Nat, num_blocks : Nat] /\ End(g)' < current_position'
  BY <1>1, <1>2, <1>3, <1>4, <1>5
<1>7. FilesApart'
  <2>1. ASSUME NEW g \in DOMAIN file_metadata', NEW h \in DOMAIN file_metadata', g # h
        PROVE  \/ End(g)' < file_metadata'[h].start_block
               \/ End(h)' < file_metadata'[g].start_block
    <3>1. CASE g = f
      <4>1. h \in DOMAIN file_metadata
        BY <1>1, <2>1, <3>1
      <4>2. End(h)' < current_position
        BY <1>3, <1>5, <4>1
      <4> QED
        BY <1>1, <3>1, <4>2
    <3>2. CASE h = f
      <4>1. g \in DOMAIN file_metadata
        BY <1>1, <2>1, <3>2
      <4>2. End(g)' < current_position
        BY <1>3, <1>5, <4>1
      <4> QED
        BY <1>1, <3>2, <4>2
    <3>3. CASE g # f /\ h # f
      <4>1. g \in DOMAIN file_metadata /\ h \in DOMAIN file_metadata
        BY <1>1, <3>3
      <4> QED
        BY <1>1, <1>3, <2>1, <4>1 DEF LayoutInv, FilesApart
    <3> QED
      BY <3>1, <3>2, <3>3
  <2> QED
    BY <2>1 DEF FilesApart
<1>8. Table \in DOMAIN file_metadata' => closed' /\ file_metadata'[Table].num_blocks = NumBlocks'
  <2>1. CASE f = Table
    BY <1>1, <2>1 DEF NumBlocks
  <2>2. CASE f # Table
    BY <1>1, <2>2 DEF LayoutInv, NumBlocks
  <2> QED
    BY <2>1, <2>2
<1> QED
  BY <1>1, <1>2, <1>6, <1>7, <1>8 DEF LayoutInv

LEMMA LayoutStepInv == ASSUME Inv, Layout PROVE Inv'
<1>1. /\ closed /\ phase = "layout" /\ phase' = "layout"
      /\ UNCHANGED <<fileVars, anon_start_index, phase, search, scan>>
  BY DEF Layout
<1>2. FileInv'
  BY <1>1, FileUnchanged DEF Inv
<1>3. LayoutInv'
  <2>1. NumBlocks \in Nat
    BY SeqFacts DEF Inv, FileInv, FileTypeOK, NumBlocks
  <2>2. UNCHANGED <<last, closed, anon_start_index>>
    BY <1>1 DEF fileVars
  <2>3. CASE AddFile(Table, NumBlocks)
    BY <1>1, <2>1, <2>2, <2>3, AddFileApart DEF Inv
  <2>4. ASSUME NEW f \in Others, NEW n \in OtherBlocks, AddFile(f, n) PROVE LayoutInv'
    BY <1>1, <2>2, <2>4, AddFileApart, ScanAssumption DEF Inv
  <2> QED
    BY <2>3, <2>4 DEF Layout
<1>4. ~opened' /\ ~opened /\ ~Searching' /\ phase' # "scan"
  BY <1>1 DEF opened, Searching
<1>5. RangeInv'
  BY <1>1, <1>4 DEF Inv, RangeInv, search, scan
<1>6. SearchInv' /\ BatchInv'
  BY <1>1, <1>4 DEF Inv, SearchInv, BatchInv, scan
<1> QED
  BY <1>2, <1>3, <1>5, <1>6 DEF Inv

LEMMA StartAnonInv == ASSUME Inv, StartAnon PROVE Inv'
<1>1. /\ phase = "layout" /\ phase' = "ready" /\ DOMAIN file_metadata = Others \cup {Table}
      /\ UNCHANGED <<fileVars, file_metadata, current_position, search, scan>>
  BY DEF StartAnon
<1>2. FileInv'
  BY <1>1, FileUnchanged DEF Inv
<1>3. LayoutInv'
  <2>1. PICK f \in DOMAIN file_metadata :
           /\ \A g \in DOMAIN file_metadata : End(g) <= End(f)
           /\ anon_start_index' = End(f) + MinGap
    BY DEF StartAnon
  <2>2. \A g \in DOMAIN file_metadata : End(g) \in Nat /\ End(g)' = End(g)
    BY <1>1, SizeFacts DEF Inv, End
  <2>3. anon_start_index' \in Nat /\ \A g \in DOMAIN file_metadata : End(g)' < anon_start_index'
    BY <2>1, <2>2, ScanAssumption
  <2>4. FilesApart'
    BY <1>1, <2>2, <2>3 DEF Inv, LayoutInv, FilesApart
  <2> QED
    BY <1>1, <2>2, <2>3, <2>4 DEF Inv, LayoutInv, fileVars, NumBlocks
<1>4. ~opened' /\ ~opened /\ ~Searching' /\ phase' # "scan"
  BY <1>1 DEF opened, Searching
<1>5. RangeInv'
  BY <1>1, <1>4 DEF Inv, RangeInv, search, scan
<1>6. SearchInv' /\ BatchInv'
  BY <1>1, <1>4 DEF Inv, SearchInv, BatchInv, scan
<1> QED
  BY <1>2, <1>3, <1>5, <1>6 DEF Inv

-----------------------------------------------------------------------------
(* The searches.  They leave file and layout alone.                        *)
LEMMA FileStays ==
    ASSUME Inv, UNCHANGED <<fileVars, diskVars>>, phase # "layout", phase' # "layout"
    PROVE  /\ FileInv' /\ LayoutInv' /\ End(Table)' = End(Table)
           /\ UNCHANGED <<rows, last, file_metadata>>
           /\ \A c \in Columns : IsOrdered(c)' = IsOrdered(c)
<1>1. FileInv' /\ UNCHANGED <<rows, last, file_metadata, closed>>
  BY FileUnchanged DEF Inv, fileVars, diskVars
<1>2. LayoutInv'
  BY DEF Inv, LayoutInv, fileVars, diskVars, End, FilesApart, NumBlocks
<1> QED
  BY <1>1, <1>2 DEF End, IsOrdered, fileVars

LEMMA MatchesStay ==
    ASSUME UNCHANGED <<rows, preds>>
    PROVE  Matches' = Matches
BY DEF Matches, PassesAll, Passes

LEMMA JudgedStays ==
    ASSUME UNCHANGED <<rows, preds>>
    PROVE  Judged' <=> Judged
BY DEF Judged, Misjudged, Agrees, Below, Above

LEMMA OpenInv == ASSUME Inv, NEW ps \in PredLists, Open(ps) PROVE Inv'
<1>1. /\ phase = "ready" /\ phase' = "pred" /\ opened' /\ ~Searching'
      /\ preds' = ps /\ pred_idx' = 1
      /\ scan_start_block' = file_metadata[Table].start_block /\ scan_end_block' = End(Table)
      /\ UNCHANGED <<fileVars, diskVars, low, high, scan>>
  BY DEF Open, opened, Searching
<1>2. FileInv' /\ LayoutInv' /\ End(Table)' = End(Table) /\ UNCHANGED <<rows, last, file_metadata>>
  BY <1>1, FileStays
<1>3. RangeInv'
  <2>1. ps \in Seq(Predicate) /\ 1 \in 1 .. Len(ps) + 1
    BY ScanAssumption, SeqFacts
  <2>2. /\ file_metadata[Table].start_block \in Nat /\ End(Table) \in Nat
        /\ file_metadata[Table].start_block <= End(Table)
    BY <1>1, BlockFacts DEF Inv
  <2>3. low' \in Nat /\ high' \in Nat /\ current_block' \in Nat
    BY <1>1 DEF Inv, RangeInv, scan
  <2> QED
    BY <1>1, <1>2, <2>1, <2>2, <2>3 DEF RangeInv
<1>4. SearchInv'
  <2>1. \A i \in Matches' : i \in 1 .. Len(rows)
    BY <1>2 DEF Matches
  <2>2. /\ RowsBefore(file_metadata[Table].start_block) = 0 /\ RowsBefore(End(Table)) = Len(rows)
        /\ Len(rows) \in Nat
    BY <1>1, BlockFacts DEF Inv
  <2>3. RowsBefore(scan_start_block)' = 0
    BY <1>1, <1>2, <2>2 DEF RowsBefore, LastRow
  <2>4. RowsBefore(scan_end_block)' = Len(rows)
    BY <1>1, <1>2, <2>2 DEF RowsBefore, LastRow
  <2>5. After(scan_start_block)'
    BY <2>1, <2>2, <2>3 DEF After
  <2>6. Before(scan_end_block)'
    BY <2>1, <2>2, <2>4 DEF Before
  <2> QED
    BY <1>1, <2>5, <2>6 DEF SearchInv
<1>5. BatchInv'
  BY <1>1 DEF Inv, BatchInv, scan
<1> QED
  BY <1>2, <1>3, <1>4, <1>5 DEF Inv

LEMMA PruneInv == ASSUME Inv, Prune PROVE Inv'
<1>1. /\ phase = "pred" /\ phase' = "scan" /\ opened /\ opened' /\ ~Searching'
      /\ scan_end_block' = scan_start_block /\ current_block' = scan_start_block
      /\ UNCHANGED <<fileVars, diskVars, preds, pred_idx, scan_start_block, low, high,
                     batch_rows, filter, out, done>>
  BY DEF Prune, HasPred, StartScan, opened, Searching
<1>2. FileInv' /\ LayoutInv' /\ End(Table)' = End(Table) /\ UNCHANGED <<rows, last, file_metadata>>
  BY <1>1, FileStays
<1>3. RangeInv'
  <2>1. file_metadata[Table].start_block \in Nat /\ End(Table) \in Nat
    BY <1>1, BlockFacts DEF Inv
  <2> QED
    BY <1>1, <1>2, <2>1 DEF Inv, RangeInv
<1>4. SearchInv'
  BY <1>1 DEF SearchInv
<1>5. BatchInv'
  BY <1>1 DEF Inv, BatchInv, RangeInv
<1> QED
  BY <1>2, <1>3, <1>4, <1>5 DEF Inv

(* The next predicate, over a range that has lost no match.                *)
LEMMA NextPredInv ==
    ASSUME Inv, NextPred, opened, pred_idx <= Len(preds),
           UNCHANGED <<fileVars, diskVars, preds, scan>>, phase # "scan",
           scan_start_block' \in Nat, scan_end_block' \in Nat, low' \in Nat, high' \in Nat,
           scan_start_block <= scan_start_block', scan_end_block' <= scan_end_block,
           scan_start_block' <= scan_end_block',
           After(scan_start_block'), Before(scan_end_block')
    PROVE  Inv'
<1>1. /\ phase' = "pred" /\ pred_idx' = pred_idx + 1 /\ opened' /\ ~Searching' /\ phase # "layout"
  BY DEF NextPred, opened, Searching
<1>2. FileInv' /\ LayoutInv' /\ End(Table)' = End(Table) /\ UNCHANGED <<rows, last, file_metadata>>
  BY <1>1, FileStays
<1>3. RangeInv'
  <2>1. pred_idx' \in 1 .. Len(preds) + 1
    BY <1>1, PredFacts, SeqFacts DEF Inv, RangeInv
  <2>2. file_metadata[Table].start_block \in Nat /\ End(Table) \in Nat
    BY <1>1, BlockFacts DEF Inv
  <2>3. /\ file_metadata[Table].start_block <= scan_start_block'
        /\ scan_end_block' <= End(Table)
    <3>1. /\ scan_start_block \in Nat /\ scan_end_block \in Nat
          /\ file_metadata[Table].start_block <= scan_start_block /\ scan_end_block <= End(Table)
      BY DEF Inv, RangeInv
    <3> HIDE DEF End
    <3> QED
      BY <2>2, <3>1
  <2>4. preds' \in Seq(Predicate) /\ current_block' \in Nat
    BY DEF Inv, RangeInv, scan
  <2>5. file_metadata' = file_metadata /\ End(Table)' = End(Table)
    BY <1>2
  <2>6. file_metadata'[Table].start_block = file_metadata[Table].start_block
    BY <2>5
  <2> QED
    BY <1>1, <2>1, <2>3, <2>4, <2>5, <2>6 DEF RangeInv
<1>4. Matches' = Matches /\ (Judged' <=> Judged)
  BY <1>2, MatchesStay, JudgedStays
<1>5. After(scan_start_block)' /\ Before(scan_end_block)'
  BY <1>2, <1>4 DEF After, Before, RowsBefore, LastRow
<1>6. SearchInv'
  BY <1>1, <1>5 DEF SearchInv
<1>7. BatchInv'
  BY <1>1 DEF Inv, BatchInv, scan
<1> QED
  BY <1>2, <1>3, <1>6, <1>7 DEF Inv

(* A search, over a range that has lost no match.                          *)
LEMMA SearchingInv ==
    ASSUME Inv, phase' \in {"lower", "upper"}, pred_idx <= Len(preds),
           UNCHANGED <<fileVars, diskVars, preds, pred_idx, scan_end_block, scan>>,
           phase \in {"pred", "lower", "upper"},
           IsOrdered(Pred.column),
           scan_start_block' \in Nat, low' \in Nat, high' \in Nat,
           scan_start_block <= scan_start_block', After(scan_start_block'),
           scan_start_block' <= low', low' <= high', high' <= scan_end_block,
           phase' = "lower" => FindsLower(Pred) /\ After(low'),
           phase' = "upper" => FindsUpper(Pred) /\ Before(high')
    PROVE  Inv'
<1>1. opened /\ opened' /\ Searching' /\ phase # "layout" /\ phase' # "scan" /\ phase' # "layout"
  BY DEF opened, Searching
<1>2. FileInv' /\ LayoutInv' /\ End(Table)' = End(Table) /\ UNCHANGED <<rows, last, file_metadata>>
  BY <1>1, FileStays
<1>3. RangeInv'
  <2>1. /\ file_metadata[Table].start_block \in Nat /\ End(Table) \in Nat
    BY <1>1, BlockFacts DEF Inv
  <2>2. /\ file_metadata[Table].start_block <= scan_start_block'
        /\ scan_start_block' <= scan_end_block
    BY <1>1, <2>1 DEF Inv, RangeInv
  <2> QED
    BY <1>1, <1>2, <2>2 DEF Inv, RangeInv, scan
<1>4. Matches' = Matches /\ (Judged' <=> Judged) /\ Pred' = Pred
  BY <1>2, MatchesStay, JudgedStays DEF Pred
<1>5. After(scan_start_block)' /\ Before(scan_end_block)'
  BY <1>2, <1>4 DEF Inv, SearchInv, After, Before, RowsBefore, LastRow
<1>6. IsOrdered(Pred.column)'
  BY <1>4 DEF IsOrdered, fileVars
<1>7. phase' = "lower" => FindsLower(Pred)' /\ After(low)'
  BY <1>2, <1>4 DEF After, FindsLower, RowsBefore, LastRow
<1>8. phase' = "upper" => FindsUpper(Pred)' /\ Before(high)'
  BY <1>2, <1>4 DEF Before, FindsUpper, RowsBefore, LastRow
<1>9. SearchInv'
  BY <1>1, <1>5, <1>6, <1>7, <1>8 DEF SearchInv
<1>10. BatchInv'
  BY <1>1 DEF Inv, BatchInv, scan
<1> QED
  BY <1>2, <1>3, <1>9, <1>10 DEF Inv

LEMMA SkipSearchInv == ASSUME Inv, SkipSearch PROVE Inv'
<1>1. /\ phase = "pred" /\ opened /\ pred_idx <= Len(preds) /\ NextPred
      /\ UNCHANGED <<fileVars, diskVars, preds, scan_start_block, scan_end_block, low, high, scan>>
  BY DEF SkipSearch, HasPred, opened
<1>2. After(scan_start_block) /\ Before(scan_end_block)
  BY <1>1 DEF Inv, SearchInv
<1> QED
  BY <1>1, <1>2, NextPredInv DEF Inv, RangeInv

LEMMA StartSearchInv == ASSUME Inv, StartSearch PROVE Inv'
<1>1. /\ phase = "pred" /\ opened /\ pred_idx <= Len(preds) /\ IsOrdered(Pred.column)
      /\ phase' = IF FindsLower(Pred) THEN "lower" ELSE "upper"
      /\ FindsLower(Pred) \/ FindsUpper(Pred)
      /\ low' = scan_start_block /\ high' = scan_end_block
      /\ UNCHANGED <<fileVars, diskVars, preds, pred_idx, scan_start_block, scan_end_block, scan>>
  BY DEF StartSearch, HasPred, Searches, opened
<1>2. After(scan_start_block) /\ Before(scan_end_block)
  BY <1>1 DEF Inv, SearchInv
<1>3. scan_start_block \in Nat /\ scan_end_block \in Nat /\ scan_start_block <= scan_end_block
  BY <1>1 DEF Inv, RangeInv
<1> QED
  BY <1>1, <1>2, <1>3, SearchingInv

(* Where a search looks.                                                   *)
LEMMA MidFacts ==
    ASSUME Inv, Searching, low < high
    PROVE  /\ mid \in Nat /\ low <= mid /\ mid < high /\ PastMid = mid + 1
           /\ low \in Nat /\ high \in Nat /\ scan_start_block \in Nat /\ scan_end_block \in Nat
           /\ scan_start_block <= low /\ high <= scan_end_block
           /\ mid \in file_metadata[Table].start_block .. End(Table)
           /\ mid + 1 \in file_metadata[Table].start_block .. End(Table)
           /\ mid < End(Table)
           /\ pred_idx <= Len(preds) /\ IsOrdered(Pred.column)
           /\ After(scan_start_block) /\ Before(scan_end_block)
<1>1. phase # "layout" /\ opened /\ phase \in {"lower", "upper"}
  BY DEF Searching, opened
<1>2. /\ low \in Nat /\ high \in Nat /\ scan_start_block \in Nat /\ scan_end_block \in Nat
      /\ file_metadata[Table].start_block <= scan_start_block /\ scan_end_block <= End(Table)
      /\ scan_start_block <= low /\ high <= scan_end_block
      /\ pred_idx <= Len(preds) /\ IsOrdered(Pred.column)
      /\ After(scan_start_block) /\ Before(scan_end_block)
  BY <1>1 DEF Inv, RangeInv, SearchInv
<1>3. mid \in Nat /\ low <= mid /\ mid < high
  BY <1>2 DEF mid
<1>4. file_metadata[Table].start_block \in Nat /\ End(Table) \in Nat
  BY <1>1, BlockFacts DEF Inv
<1>5. /\ mid \in file_metadata[Table].start_block .. End(Table)
      /\ mid + 1 \in file_metadata[Table].start_block .. End(Table)
      /\ mid < End(Table)
  BY <1>2, <1>3, <1>4
<1> QED
  BY <1>2, <1>3, <1>5 DEF PastMid

(* A block whose last row is below the literal holds no match.             *)
LEMMA LowerMoves ==
    ASSUME Inv, phase = "lower", low < high,
           LowerMovesOn(rows[RowsBefore(mid + 1)][Pred.column])
    PROVE  After(mid + 1)
<1> SUFFICES ASSUME Judged, NEW i \in Matches, i <= RowsBefore(mid + 1) PROVE FALSE
  <2>1. RowsBefore(mid + 1) \in Nat /\ \A i \in Matches : i \in Nat
    <3>1. Searching /\ phase # "layout"
      BY DEF Searching
    <3> QED
      BY <3>1, MidFacts, BlockFacts DEF Inv, Matches
  <2> QED
    BY <2>1 DEF After
<1>1. Searching /\ phase # "layout" /\ FindsLower(Pred)
  BY DEF Searching, Inv, SearchInv
<1>2. /\ mid + 1 \in file_metadata[Table].start_block .. End(Table)
      /\ pred_idx <= Len(preds) /\ IsOrdered(Pred.column)
  BY <1>1, MidFacts
<1>3. RowsBefore(mid + 1) \in 0 .. Len(rows)
  BY <1>1, <1>2, BlockFacts DEF Inv
<1>4. /\ i \in 1 .. Len(rows) /\ Passes(i, Pred) /\ Pred \in Predicate
      /\ Pred.column \in Columns /\ Pred.value \in Value /\ Agrees(Pred)
  BY <1>1, <1>2, PredFacts DEF Inv
<1>5. RowsBefore(mid + 1) \in 1 .. Len(rows)
  BY <1>3, <1>4
<1>6. Less(rows[RowsBefore(mid + 1)][Pred.column], Pred.value)
  BY <1>4, <1>5 DEF LowerMovesOn, Agrees
<1>7. \A k \in 1 .. Len(rows) : rows[k][Pred.column] \notin NaNs
  BY <1>4, <1>5, <1>6, NumbersOnly DEF Inv
<1>8. ~Less(rows[RowsBefore(mid + 1)][Pred.column], rows[i][Pred.column])
  BY <1>2, <1>4, <1>5, <1>7, OrderedRows DEF Inv
<1>9. rows[i][Pred.column] \in Value /\ rows[RowsBefore(mid + 1)][Pred.column] \in Value
  BY <1>4, <1>5, RowFacts DEF Inv
<1>10. ~Same(rows[i][Pred.column], Pred.value) /\ ~Less(Pred.value, rows[i][Pred.column])
  BY <1>4, <1>6, <1>8, <1>9, BesideLiteral
<1> QED
  BY <1>1, <1>4, <1>10 DEF Passes, FindsLower

LEMMA LowerStepInv == ASSUME Inv, LowerStep PROVE Inv'
<1>1. /\ phase = "lower" /\ phase' = "lower" /\ low < high /\ Searching
      /\ UNCHANGED <<fileVars, diskVars, preds, pred_idx, scan_start_block, scan_end_block, scan>>
  BY DEF LowerStep, Searching
<1>2. FindsLower(Pred) /\ After(low)
  BY <1>1 DEF Inv, SearchInv
<1>3. CASE LowerMovesOn(rows[RowsBefore(mid + 1)][Pred.column])
  <2>1. low' = mid + 1 /\ high' = high
    BY <1>3 DEF LowerStep, PastMid
  <2>2. After(mid + 1)
    BY <1>1, <1>3, LowerMoves
  <2>3. low' \in Nat /\ high' \in Nat /\ scan_start_block <= low' /\ low' <= high' /\ high' <= scan_end_block
    BY <1>1, <2>1, MidFacts
  <2> QED
    BY <1>1, <1>2, <2>1, <2>2, <2>3, MidFacts, SearchingInv
<1>4. CASE ~LowerMovesOn(rows[RowsBefore(mid + 1)][Pred.column])
  <2>1. low' = low /\ high' = mid
    BY <1>4 DEF LowerStep
  <2>2. low' \in Nat /\ high' \in Nat /\ scan_start_block <= low' /\ low' <= high' /\ high' <= scan_end_block
    BY <1>1, <2>1, MidFacts
  <2> QED
    BY <1>1, <1>2, <2>1, <2>2, MidFacts, SearchingInv
<1> QED
  BY <1>3, <1>4

LEMMA LowerEndInv == ASSUME Inv, LowerEnd PROVE Inv'
<1>1. /\ phase = "lower" /\ low >= high /\ Searching /\ opened
      /\ scan_start_block' = Larger(scan_start_block, low)
      /\ UNCHANGED <<fileVars, diskVars, preds, scan_end_block, scan>>
  BY DEF LowerEnd, Searching, opened
<1>2. /\ low \in Nat /\ high \in Nat /\ scan_start_block \in Nat /\ scan_end_block \in Nat
      /\ scan_start_block <= low /\ low <= high /\ high <= scan_end_block
      /\ pred_idx <= Len(preds) /\ IsOrdered(Pred.column)
      /\ After(low) /\ Before(scan_end_block)
  BY <1>1 DEF Inv, RangeInv, SearchInv
<1>3. scan_start_block' = low
  BY <1>1, <1>2 DEF Larger
<1>4. CASE FindsUpper(Pred)
  <2>1. phase' = "upper" /\ low' = low /\ high' = scan_end_block /\ pred_idx' = pred_idx
    BY <1>3, <1>4 DEF LowerEnd
  <2> QED
    BY <1>1, <1>2, <1>3, <1>4, <2>1, SearchingInv
<1>5. CASE ~FindsUpper(Pred)
  <2>1. NextPred /\ low' = low /\ high' = high
    BY <1>5 DEF LowerEnd
  <2> QED
    BY <1>1, <1>2, <1>3, <2>1, NextPredInv
<1> QED
  BY <1>4, <1>5

(* From a block whose first row is above the literal on, none matches.     *)
LEMMA UpperMoves ==
    ASSUME Inv, phase = "upper", low < high,
           Above(rows[RowsBefore(mid) + 1][Pred.column], Pred)
    PROVE  Before(mid)
<1>1. Searching /\ phase # "layout" /\ FindsUpper(Pred)
  BY DEF Searching, Inv, SearchInv
<1>2. /\ mid \in file_metadata[Table].start_block .. End(Table) /\ mid < End(Table)
      /\ mid + 1 \in file_metadata[Table].start_block .. End(Table)
      /\ pred_idx <= Len(preds) /\ IsOrdered(Pred.column) /\ mid < mid + 1
  BY <1>1, MidFacts
<1>3. /\ RowsBefore(mid) \in 0 .. Len(rows) /\ RowsBefore(mid + 1) \in 0 .. Len(rows)
      /\ RowsBefore(mid) < RowsBefore(mid + 1) /\ Len(rows) \in Nat
  BY <1>1, <1>2, BlockFacts DEF Inv
<1> SUFFICES ASSUME Judged, NEW i \in Matches, i > RowsBefore(mid) PROVE FALSE
  <2>1. \A i \in Matches : i \in Nat
    BY DEF Matches
  <2> QED
    BY <1>3, <2>1 DEF Before
<1>4. /\ i \in 1 .. Len(rows) /\ Passes(i, Pred) /\ Pred \in Predicate
      /\ Pred.column \in Columns /\ Pred.value \in Value /\ Agrees(Pred)
  BY <1>1, <1>2, PredFacts DEF Inv
<1>5. RowsBefore(mid) + 1 \in 1 .. Len(rows) /\ RowsBefore(mid) + 1 <= i
  BY <1>3, <1>4
<1>6. Less(Pred.value, rows[RowsBefore(mid) + 1][Pred.column])
  BY <1>4, <1>5 DEF Agrees
<1>7. \A k \in 1 .. Len(rows) : rows[k][Pred.column] \notin NaNs
  BY <1>4, <1>5, <1>6, NumbersOnly DEF Inv
<1>8. ~Less(rows[i][Pred.column], rows[RowsBefore(mid) + 1][Pred.column])
  BY <1>2, <1>4, <1>5, <1>7, OrderedRows DEF Inv
<1>9. rows[i][Pred.column] \in Value /\ rows[RowsBefore(mid) + 1][Pred.column] \in Value
  BY <1>4, <1>5, RowFacts DEF Inv
<1>10. ~Same(rows[i][Pred.column], Pred.value) /\ ~Less(rows[i][Pred.column], Pred.value)
  BY <1>4, <1>6, <1>8, <1>9, BesideLiteral
<1> QED
  BY <1>1, <1>4, <1>10 DEF Passes, FindsUpper

LEMMA UpperStepInv == ASSUME Inv, UpperStep PROVE Inv'
<1>1. /\ phase = "upper" /\ phase' = "upper" /\ low < high /\ Searching
      /\ UNCHANGED <<fileVars, diskVars, preds, pred_idx, scan_start_block, scan_end_block, scan>>
  BY DEF UpperStep, Searching
<1>2. FindsUpper(Pred) /\ Before(high)
  BY <1>1 DEF Inv, SearchInv
<1>3. CASE Above(rows[RowsBefore(mid) + 1][Pred.column], Pred)
  <2>1. low' = low /\ high' = mid
    BY <1>3 DEF UpperStep
  <2>2. Before(mid)
    BY <1>1, <1>3, UpperMoves
  <2>3. low' \in Nat /\ high' \in Nat /\ scan_start_block <= low' /\ low' <= high' /\ high' <= scan_end_block
    BY <1>1, <2>1, MidFacts
  <2> QED
    BY <1>1, <1>2, <2>1, <2>2, <2>3, MidFacts, SearchingInv
<1>4. CASE ~Above(rows[RowsBefore(mid) + 1][Pred.column], Pred)
  <2>1. low' = mid + 1 /\ high' = high
    BY <1>4 DEF UpperStep, PastMid
  <2>2. low' \in Nat /\ high' \in Nat /\ scan_start_block <= low' /\ low' <= high' /\ high' <= scan_end_block
    BY <1>1, <2>1, MidFacts
  <2> QED
    BY <1>1, <1>2, <2>1, <2>2, MidFacts, SearchingInv
<1> QED
  BY <1>3, <1>4

LEMMA UpperEndInv == ASSUME Inv, UpperEnd PROVE Inv'
<1>1. /\ phase = "upper" /\ low >= high /\ Searching /\ opened /\ NextPred
      /\ scan_end_block' = Smaller(scan_end_block, low)
      /\ UNCHANGED <<fileVars, diskVars, preds, scan_start_block, low, high, scan>>
  BY DEF UpperEnd, Searching, opened
<1>2. /\ low \in Nat /\ high \in Nat /\ scan_start_block \in Nat /\ scan_end_block \in Nat
      /\ scan_start_block <= low /\ low <= high /\ high <= scan_end_block
      /\ pred_idx <= Len(preds) /\ After(scan_start_block) /\ Before(high)
  BY <1>1 DEF Inv, RangeInv, SearchInv
<1>3. scan_end_block' = low /\ low = high
  BY <1>1, <1>2 DEF Smaller
<1> QED
  BY <1>1, <1>2, <1>3, NextPredInv

-----------------------------------------------------------------------------
(* The scan proper.                                                        *)
LEMMA ScanningInv ==
    ASSUME Inv, phase' = "scan", phase # "layout", opened,
           UNCHANGED <<fileVars, diskVars, search>>, current_block' \in Nat,
           BatchInv'
    PROVE  Inv'
<1>1. FileInv' /\ LayoutInv' /\ End(Table)' = End(Table) /\ UNCHANGED <<rows, last, file_metadata>>
  BY FileStays
<1>2. RangeInv'
  BY <1>1 DEF Inv, RangeInv, search
<1>3. SearchInv'
  BY DEF SearchInv, Searching
<1> QED
  BY <1>1, <1>2, <1>3 DEF Inv

LEMMA ScanFacts ==
    ASSUME Inv, phase = "scan"
    PROVE  /\ opened /\ phase # "layout" /\ Len(rows) \in Nat
           /\ current_block \in Nat /\ scan_end_block \in Nat
           /\ scan_start_block \in Nat /\ scan_start_block <= current_block
           /\ current_block <= scan_end_block /\ scan_end_block <= End(Table)
           /\ file_metadata[Table].start_block \in Nat /\ End(Table) \in Nat
           /\ current_block \in file_metadata[Table].start_block .. End(Table)
           /\ scan_end_block \in file_metadata[Table].start_block .. End(Table)
           /\ RowsBefore(current_block) \in Nat
           /\ \A i \in batch_rows : i \in Matches /\ i \in 1 .. Len(rows) /\ i <= RowsBefore(current_block)
<1>1. opened /\ phase # "layout"
  BY DEF opened
<1>2. /\ current_block \in Nat /\ scan_end_block \in Nat /\ scan_start_block \in Nat
      /\ scan_start_block <= current_block /\ current_block <= scan_end_block
      /\ scan_end_block <= End(Table) /\ file_metadata[Table].start_block <= scan_start_block
      /\ \A i \in batch_rows : i \in Matches /\ i <= RowsBefore(current_block)
  BY <1>1 DEF Inv, RangeInv, BatchInv
<1>3. file_metadata[Table].start_block \in Nat /\ End(Table) \in Nat /\ Len(rows) \in Nat
  BY <1>1, BlockFacts DEF Inv
<1>4. /\ current_block \in file_metadata[Table].start_block .. End(Table)
      /\ scan_end_block \in file_metadata[Table].start_block .. End(Table)
  BY <1>2, <1>3
<1>5. RowsBefore(current_block) \in 0 .. Len(rows)
  BY <1>1, <1>4, BlockFacts DEF Inv
<1> QED
  BY <1>1, <1>2, <1>3, <1>4, <1>5 DEF Matches

LEMMA SearchDoneInv == ASSUME Inv, SearchDone PROVE Inv'
<1>1. /\ phase = "pred" /\ phase' = "scan" /\ current_block' = scan_start_block /\ opened
      /\ UNCHANGED <<fileVars, diskVars, search, batch_rows, filter, out, done>>
  BY DEF SearchDone, StartScan, opened
<1>2. scan_start_block \in Nat /\ scan_start_block <= scan_end_block
  BY <1>1 DEF Inv, RangeInv
<1>3. BatchInv'
  BY <1>1, <1>2 DEF Inv, BatchInv, search
<1> QED
  BY <1>1, <1>2, <1>3, ScanningInv

LEMMA PublishInv == ASSUME Inv, NEW F \in Filters, Publish(F) PROVE Inv'
<1>1. /\ phase = "scan" /\ phase' = "scan"
      /\ UNCHANGED <<fileVars, diskVars, search, current_block, batch_rows, out, done>>
  BY DEF Publish
<1>2. UNCHANGED <<rows, last, file_metadata, preds>>
  BY <1>1 DEF fileVars, diskVars, search
<1>3. BatchInv'
  BY <1>1, <1>2, MatchesStay DEF Inv, BatchInv, search, RowsBefore, LastRow
<1> QED
  BY <1>1, <1>3, ScanFacts, ScanningInv

LEMMA NextRowInv == ASSUME Inv, NextRow PROVE Inv'
<1>1. /\ phase = "scan" /\ phase' = "scan"
      /\ UNCHANGED <<fileVars, diskVars, search, current_block, done>>
  BY DEF NextRow
<1>2. UNCHANGED <<rows, last, file_metadata, preds>>
  BY <1>1 DEF fileVars, diskVars, search
<1>3. PICK i \in batch_rows : out' = {i} /\ batch_rows' = batch_rows \ {i}
  BY DEF NextRow
<1>4. i \in 1 .. MaxRows
  <2>1. i \in 1 .. Len(rows) /\ Len(rows) \in Nat
    BY <1>1, ScanFacts
  <2>2. Len(rows) <= MaxRows
    BY DEF Inv, FileInv, FileTypeOK
  <2> QED
    BY <2>1, <2>2, FileAssumption
<1>5. BatchInv'
  BY <1>1, <1>2, <1>3, <1>4, MatchesStay DEF Inv, BatchInv, search, RowsBefore, LastRow
<1> QED
  BY <1>1, <1>5, ScanFacts, ScanningInv

(* The blocks of a batch, and the rows before its end.                     *)
LEMMA CountFacts ==
    ASSUME Inv, phase = "scan", current_block < scan_end_block
    PROVE  /\ Count \in Nat /\ Count > 0
           /\ current_block + Count <= scan_end_block
           /\ current_block + Count \in file_metadata[Table].start_block .. End(Table)
           /\ RowsBefore(current_block + Count) \in 0 .. Len(rows)
           /\ RowsBefore(scan_end_block) \in 0 .. Len(rows)
           /\ RowsBefore(current_block) < RowsBefore(current_block + Count)
           /\ RowsBefore(current_block + Count) <= RowsBefore(scan_end_block)
<1>1. /\ Count \in Nat /\ Count > 0 /\ current_block + Count <= scan_end_block
  BY ScanFacts, ScanAssumption DEF Count, Smaller
<1>2. current_block + Count \in file_metadata[Table].start_block .. End(Table)
  BY <1>1, ScanFacts
<1>3. /\ RowsBefore(current_block + Count) \in 0 .. Len(rows)
      /\ RowsBefore(scan_end_block) \in 0 .. Len(rows)
  BY <1>2, ScanFacts, BlockFacts DEF Inv
<1>4. RowsBefore(current_block) < RowsBefore(current_block + Count)
  <2>1. current_block < current_block + Count
    BY <1>1, ScanFacts
  <2> QED
    BY <1>2, <2>1, ScanFacts, BlockFacts DEF Inv
<1>5. RowsBefore(current_block + Count) <= RowsBefore(scan_end_block)
  <2>1. CASE current_block + Count < scan_end_block
    <3>1. RowsBefore(current_block + Count) < RowsBefore(scan_end_block)
      BY <1>2, <2>1, ScanFacts, BlockFacts DEF Inv
    <3> QED
      BY <1>3, <3>1, ScanFacts
  <2>2. CASE current_block + Count = scan_end_block
    BY <1>3, <2>2, ScanFacts
  <2> QED
    BY <1>1, <2>1, <2>2, ScanFacts
<1> QED
  BY <1>1, <1>2, <1>3, <1>4, <1>5

LEMMA NextBatchFacts ==
    ASSUME Inv, NextBatch
    PROVE  /\ phase = "scan" /\ phase' = "scan" /\ batch_rows = {}
           /\ current_block < scan_end_block /\ current_block' = current_block + Count
           /\ UNCHANGED <<fileVars, diskVars, search, filter, out, done>>
           /\ UNCHANGED <<rows, last, file_metadata, preds>>
           /\ RowsBefore(current_block)' = RowsBefore(current_block + Count)
           /\ batch_rows' = { i \in RowsBefore(current_block) + 1 .. RowsBefore(current_block + Count) :
                                 PassesAll(i) /\ MightContain(i) }
<1>1. /\ phase = "scan" /\ phase' = "scan" /\ batch_rows = {}
      /\ current_block < scan_end_block /\ current_block' = current_block + Count
      /\ UNCHANGED <<fileVars, diskVars, search, filter, out, done>>
  BY DEF NextBatch
<1>2. UNCHANGED <<rows, last, file_metadata, preds>>
  BY <1>1 DEF fileVars, diskVars, search
<1>3. RowsBefore(current_block)' = RowsBefore(current_block + Count)
  BY <1>1, <1>2 DEF RowsBefore, LastRow
<1>4. RowsBefore(current_block') = RowsBefore(current_block + Count)
  BY <1>1
<1>5. batch_rows' = { i \in RowsBefore(current_block) + 1 .. RowsBefore(current_block + Count) :
                        PassesAll(i) /\ MightContain(i) }
  BY <1>4 DEF NextBatch
<1> QED
  BY <1>1, <1>2, <1>3, <1>5

LEMMA NextBatchInv == ASSUME Inv, NextBatch PROVE Inv'
<1>1. /\ phase = "scan" /\ phase' = "scan" /\ current_block < scan_end_block
      /\ current_block' = current_block + Count
      /\ UNCHANGED <<fileVars, diskVars, search, filter, out, done>>
      /\ UNCHANGED <<rows, last, file_metadata, preds>>
      /\ RowsBefore(current_block)' = RowsBefore(current_block + Count)
  BY NextBatchFacts
<1>2. /\ current_block' \in Nat /\ scan_start_block <= current_block' /\ current_block' <= scan_end_block
  BY <1>1, CountFacts, ScanFacts
<1>3. ASSUME NEW i \in batch_rows' PROVE i \in Matches /\ i <= RowsBefore(current_block + Count)
  <2>1. /\ i \in RowsBefore(current_block) + 1 .. RowsBefore(current_block + Count) /\ PassesAll(i)
    BY NextBatchFacts
  <2>2. i \in 1 .. Len(rows) /\ i <= RowsBefore(current_block + Count)
    BY <1>1, <2>1, CountFacts, ScanFacts
  <2> QED
    BY <2>1, <2>2 DEF Matches
<1>4. ~done
  BY <1>1, ScanFacts DEF Inv, BatchInv
<1>5. Matches' = Matches
  BY <1>1, MatchesStay
<1>6. BatchInv'
  BY <1>1, <1>2, <1>3, <1>4, <1>5 DEF Inv, BatchInv, search
<1> QED
  BY <1>1, <1>2, <1>6, ScanFacts, ScanningInv

LEMMA NextNoneInv == ASSUME Inv, NextNone PROVE Inv'
<1>1. /\ phase = "scan" /\ phase' = "scan" /\ batch_rows = {} /\ current_block >= scan_end_block
      /\ done' = TRUE
      /\ UNCHANGED <<fileVars, diskVars, search, current_block, batch_rows, filter, out>>
  BY DEF NextNone
<1>2. BatchInv'
  BY <1>1 DEF Inv, BatchInv, search
<1> QED
  BY <1>1, <1>2, ScanFacts, ScanningInv

LEMMA StutterInv == ASSUME Inv, UNCHANGED vars PROVE Inv'
<1>1. FileInv' /\ UNCHANGED <<fileVars, diskVars, phase, search, scan>>
  BY FileUnchanged DEF Inv, vars
<1>2. UNCHANGED <<rows, last, file_metadata, preds, pred_idx, phase>> /\ Matches' = Matches /\ (Judged' <=> Judged)
  BY <1>1, MatchesStay, JudgedStays DEF fileVars, diskVars, search
<1>3. LayoutInv'
  BY <1>1 DEF Inv, LayoutInv, fileVars, diskVars, End, FilesApart, NumBlocks
<1>4. RangeInv'
  BY <1>1 DEF Inv, RangeInv, diskVars, search, scan, opened, End
<1>5. opened' = opened /\ Searching' = Searching /\ Pred' = Pred
  BY <1>2 DEF opened, Searching, Pred
<1>6. SearchInv'
  BY <1>1, <1>2, <1>5 DEF Inv, SearchInv, After, Before, FindsLower, FindsUpper, IsOrdered,
                          RowsBefore, LastRow, fileVars, search
<1>7. BatchInv'
  BY <1>1, <1>2 DEF Inv, BatchInv, RowsBefore, LastRow, search, scan
<1> QED
  BY <1>1, <1>3, <1>4, <1>6, <1>7 DEF Inv

LEMMA NextInv == Inv /\ [Next]_vars => Inv'
<1> SUFFICES ASSUME Inv, [Next]_vars PROVE Inv'
  OBVIOUS
<1>1. CASE Generate
  BY <1>1, GenerateInv
<1>2. CASE Layout
  BY <1>2, LayoutStepInv
<1>3. CASE StartAnon
  BY <1>3, StartAnonInv
<1>4. CASE ScanNext
  BY <1>4, OpenInv, PruneInv, SkipSearchInv, StartSearchInv, LowerStepInv, LowerEndInv,
     UpperStepInv, UpperEndInv, SearchDoneInv, NextRowInv, NextBatchInv, NextNoneInv DEF ScanNext
<1>5. ASSUME NEW F \in Filters, Publish(F) PROVE Inv'
  BY <1>5, PublishInv
<1>6. CASE UNCHANGED vars
  BY <1>6, StutterInv
<1> QED
  BY <1>1, <1>2, <1>3, <1>4, <1>5, <1>6 DEF Next

-----------------------------------------------------------------------------
(* The type invariant, with the range of the scan inside its file.         *)
THEOREM Types == Spec => []TypeOK
<1>1. Inv => TypeOK
  <2> SUFFICES ASSUME Inv PROVE TypeOK
    OBVIOUS
  <2>1. batch_rows \subseteq 1 .. Len(rows)
    <3>1. phase = "scan" => \A i \in batch_rows : i \in 1 .. Len(rows)
      BY ScanFacts
    <3> QED
      BY <3>1 DEF Inv, BatchInv
  <2> QED
    BY <2>1 DEF Inv, TypeOK, LayoutInv, RangeInv, SearchInv, BatchInv, Searching
<1> QED
  BY <1>1, InitInv, NextInv, PTL DEF Spec

(* The blocks the generator writes hold the rows of the table, in order,   *)
(* each once.                                                              *)
THEOREM Covers == Spec => []BlocksCoverRows
<1>1. Inv => BlocksCoverRows
  BY DEF Inv, FileInv
<1> QED
  BY <1>1, InitInv, NextInv, PTL DEF Spec

(* The statistics in the catalog are true of the file.                     *)
THEOREM Statistics == Spec => []StatsTrue
<1>1. Inv => StatsTrue
  BY DEF Inv, FileInv
<1> QED
  BY <1>1, InitInv, NextInv, PTL DEF Spec

(* No block has two owners, whatever the sizes of the files.               *)
THEOREM Apart == Spec => []FilesApart
<1>1. Inv => FilesApart
  BY DEF Inv, LayoutInv
<1> QED
  BY <1>1, InitInv, NextInv, PTL DEF Spec

(* The scan asks the disk for blocks of its own file only.                 *)
THEOREM OwnFile == Spec => []ReadsOwnFile
<1>1. Inv => ReadsOwnFile
  <2> SUFFICES ASSUME Inv PROVE ReadsOwnFile
    OBVIOUS
  <2>1. phase \in {"lower", "upper"} /\ low < high => Holds(Table, mid)
    BY MidFacts DEF Searching, Holds
  <2>2. ASSUME phase = "scan", current_block < scan_end_block,
               NEW b \in current_block .. (current_block + Count - 1)
        PROVE  Holds(Table, b)
    <3>1. file_metadata[Table].start_block <= current_block /\ current_block + Count <= End(Table)
      BY <2>2, ScanFacts, CountFacts
    <3> QED
      BY SMTT(30), <2>2, <3>1, ScanFacts, CountFacts DEF Holds
  <2> QED
    BY <2>1, <2>2 DEF ReadsOwnFile
<1> QED
  BY <1>1, InitInv, NextInv, PTL DEF Spec

-----------------------------------------------------------------------------
(* While new() searches, nothing that matches is lost.                     *)
LEMMA SearchKeeps ==
    ASSUME Inv, phase \in {"pred", "lower", "upper"},
           SkipSearch \/ StartSearch \/ LowerStep \/ LowerEnd \/ UpperStep \/ UpperEnd
    PROVE  UNCHANGED <<Pending, out, done>>
<1>1. /\ phase' \in {"pred", "lower", "upper"} /\ UNCHANGED <<fileVars, preds, scan>>
  BY DEF SkipSearch, StartSearch, LowerStep, LowerEnd, UpperStep, UpperEnd, NextPred
<1>2. UNCHANGED <<rows, preds, out, done>> /\ Matches' = Matches
  BY <1>1, MatchesStay DEF fileVars, scan
<1>3. Pending = Matches
  BY DEF Pending, Matches
<1>4. Pending' = Matches'
  BY <1>1 DEF Pending, Matches
<1> QED
  BY <1>2, <1>3, <1>4

(* What a scan has still to return.                                        *)
Left == { i \in RowsBefore(current_block) + 1 .. RowsBefore(scan_end_block) : PassesAll(i) }

LEMMA ScanPending == phase = "scan" => Pending = batch_rows \cup Left
BY DEF Pending, Left

LEMMA PruneLeaves ==
    ASSUME Inv, Prune
    PROVE  phase = "pred" /\ Pending = Matches /\ Pending' = {} /\ UNCHANGED <<out, done>>
<1>1. /\ phase = "pred" /\ phase' = "scan"
      /\ scan_end_block' = scan_start_block /\ current_block' = scan_start_block
      /\ UNCHANGED <<fileVars, diskVars, preds, batch_rows, out, done>>
  BY DEF Prune, HasPred, StartScan
<1>2. Pending = Matches
  BY <1>1 DEF Pending, Matches
<1>3. Left' = {}
  <2>1. RowsBefore(scan_end_block)' = RowsBefore(current_block)'
    BY <1>1 DEF RowsBefore, LastRow
  <2>2. RowsBefore(scan_start_block) \in Nat
    <3>1. scan_start_block \in file_metadata[Table].start_block .. End(Table)
      BY <1>1, BlockFacts DEF Inv, RangeInv, opened
    <3> QED
      BY <1>1, <3>1, BlockFacts DEF Inv
  <2>3. RowsBefore(current_block)' = RowsBefore(scan_start_block)
    BY <1>1 DEF RowsBefore, LastRow, fileVars, diskVars
  <2> QED
    BY <2>1, <2>2, <2>3 DEF Left
<1> QED
  BY <1>1, <1>2, <1>3 DEF Pending, Left, Inv, BatchInv

LEMMA SearchDoneLeaves ==
    ASSUME Inv, SearchDone
    PROVE  /\ phase = "pred" /\ Pending = Matches /\ UNCHANGED <<out, done>>
           /\ RowsBefore(scan_start_block) \in 0 .. Len(rows)
           /\ RowsBefore(scan_end_block) \in 0 .. Len(rows) /\ Len(rows) \in Nat
           /\ Pending' = { i \in RowsBefore(scan_start_block) + 1 .. RowsBefore(scan_end_block) :
                             PassesAll(i) }
<1>1. /\ phase = "pred" /\ phase' = "scan" /\ current_block' = scan_start_block /\ opened
      /\ UNCHANGED <<fileVars, diskVars, search, batch_rows, filter, out, done>>
      /\ UNCHANGED <<rows, last, file_metadata, preds, scan_start_block, scan_end_block>>
  BY DEF SearchDone, StartScan, opened, fileVars, diskVars, search
<1>2. batch_rows = {}
  BY <1>1 DEF Inv, BatchInv
<1>3. /\ RowsBefore(scan_start_block) \in 0 .. Len(rows)
      /\ RowsBefore(scan_end_block) \in 0 .. Len(rows) /\ Len(rows) \in Nat
  <2>1. /\ scan_start_block \in file_metadata[Table].start_block .. End(Table)
        /\ scan_end_block \in file_metadata[Table].start_block .. End(Table)
    BY <1>1, BlockFacts DEF Inv, RangeInv
  <2> QED
    BY <1>1, <2>1, BlockFacts DEF Inv
<1>4. Pending = Matches
  BY <1>1 DEF Pending, Matches
<1>5. Left' = { i \in RowsBefore(scan_start_block) + 1 .. RowsBefore(scan_end_block) : PassesAll(i) }
  <2>1. /\ RowsBefore(current_block)' = RowsBefore(scan_start_block)
        /\ RowsBefore(scan_end_block)' = RowsBefore(scan_end_block)
    BY <1>1 DEF RowsBefore, LastRow
  <2>2. \A i : PassesAll(i)' <=> PassesAll(i)
    BY <1>1 DEF PassesAll, Passes
  <2> QED
    BY <2>1, <2>2 DEF Left
<1>6. Pending' = Left'
  BY <1>1, <1>2 DEF Pending, Left
<1> QED
  BY <1>1, <1>3, <1>4, <1>5, <1>6

(* The scan begins with all that matches, unless a predicate is misjudged. *)
LEMMA OpeningKeeps ==
    ASSUME Inv, Judged, Prune \/ SearchDone
    PROVE  UNCHANGED <<Pending, out, done>>
<1>1. CASE Prune
  <2>1. Matches = {}
    BY <1>1, ImpossibleMatchesNone DEF Prune, HasPred, Inv
  <2> QED
    BY <1>1, <2>1, PruneLeaves
<1>2. CASE SearchDone
  <2>1. phase = "pred"
    BY <1>2, SearchDoneLeaves
  <2>2. \A i \in Matches : RowsBefore(scan_start_block) < i /\ i <= RowsBefore(scan_end_block)
    BY <2>1 DEF Inv, SearchInv, After, Before
  <2>3. Matches = { i \in RowsBefore(scan_start_block) + 1 .. RowsBefore(scan_end_block) : PassesAll(i) }
    BY <1>2, <2>2, SearchDoneLeaves DEF Matches
  <2> QED
    BY <1>2, <2>3, SearchDoneLeaves
<1> QED
  BY <1>1, <1>2

LEMMA OpeningDrops ==
    ASSUME Inv, ~Judged, Prune \/ SearchDone
    PROVE  DropsMisjudged
<1>1. \E k \in 1 .. Len(preds) : Misjudged(preds[k])
  BY DEF Judged
<1>2. CASE Prune
  BY <1>1, <1>2, PruneLeaves DEF DropsMisjudged
<1>3. CASE SearchDone
  <2>1. Pending' \subseteq Matches
    BY <1>3, SearchDoneLeaves DEF Matches
  <2> QED
    BY <1>1, <1>3, <2>1, SearchDoneLeaves DEF DropsMisjudged
<1> QED
  BY <1>2, <1>3

(* What is left changes only with the blocks read.                         *)
LEMMA LeftStays ==
    ASSUME UNCHANGED <<rows, last, file_metadata, preds, current_block, scan_end_block>>
    PROVE  Left' = Left
<1>1. /\ RowsBefore(current_block)' = RowsBefore(current_block)
      /\ RowsBefore(scan_end_block)' = RowsBefore(scan_end_block)
  BY DEF RowsBefore, LastRow
<1>2. \A i : PassesAll(i)' <=> PassesAll(i)
  BY DEF PassesAll, Passes
<1> QED
  BY <1>1, <1>2 DEF Left

LEMMA PublishKeeps == ASSUME Inv, NEW F \in Filters, Publish(F) PROVE UNCHANGED <<Pending, out, done>>
<1>1. /\ phase = "scan" /\ phase' = "scan" /\ UNCHANGED <<batch_rows, out, done>>
      /\ UNCHANGED <<rows, last, file_metadata, preds, current_block, scan_end_block>>
  BY DEF Publish, fileVars, diskVars, search
<1>2. Left' = Left
  BY <1>1, LeftStays
<1> QED
  BY <1>1, <1>2 DEF Pending, Left

(* A row leaves the batch in stored order, and only once.                  *)
LEMMA NextRowDelivers == ASSUME Inv, NextRow PROVE Stream!Next
<1>1. /\ phase = "scan" /\ phase' = "scan" /\ UNCHANGED done
      /\ UNCHANGED <<rows, last, file_metadata, preds, current_block, scan_end_block>>
  BY DEF NextRow, fileVars, diskVars, search
<1>2. PICK i \in batch_rows : /\ \A j \in batch_rows : i <= j
                              /\ out' = {i} /\ batch_rows' = batch_rows \ {i}
  BY DEF NextRow
<1>3. /\ i \in Nat /\ i <= RowsBefore(current_block) /\ RowsBefore(current_block) \in Nat
      /\ \A j \in batch_rows : j \in Nat
  BY <1>1, ScanFacts
<1>4. \A j \in Left : j \in Int /\ j > i
  <2>1. RowsBefore(scan_end_block) \in Int
    BY <1>1, ScanFacts, BlockFacts DEF Inv
  <2> QED
    BY <1>3, <2>1 DEF Left
<1>5. Left' = Left
  BY <1>1, LeftStays
<1>6. Pending = batch_rows \cup Left
  BY <1>1, ScanPending
<1>7. Pending' = batch_rows' \cup Left'
  BY <1>1 DEF Pending, Left
<1>8. Pending' = Pending \ {i}
  BY <1>2, <1>3, <1>4, <1>5, <1>6, <1>7
<1>9. \A j \in Pending : <<j, i>> \notin StoredOrder
  BY <1>2, <1>3, <1>4, <1>6 DEF StoredOrder
<1>10. ~done
  BY <1>2 DEF Inv, BatchInv
<1>11. Stream!Deliver(i)
  BY <1>1, <1>2, <1>6, <1>8, <1>9, <1>10 DEF Stream!Deliver
<1> QED
  BY <1>2, <1>6, <1>11 DEF Stream!Next

LEMMA NextBatchDrops == ASSUME Inv, NextBatch PROVE DropsFiltered
<1>1. /\ phase = "scan" /\ phase' = "scan" /\ batch_rows = {} /\ current_block < scan_end_block
      /\ UNCHANGED <<rows, last, file_metadata, preds, scan_end_block, out, done>>
      /\ RowsBefore(current_block)' = RowsBefore(current_block + Count)
      /\ batch_rows' = { i \in RowsBefore(current_block) + 1 .. RowsBefore(current_block + Count) :
                            PassesAll(i) /\ MightContain(i) }
  BY NextBatchFacts DEF search
<1>2. /\ RowsBefore(current_block) \in Nat /\ RowsBefore(current_block + Count) \in Nat
      /\ RowsBefore(scan_end_block) \in Nat
      /\ RowsBefore(current_block) < RowsBefore(current_block + Count)
      /\ RowsBefore(current_block + Count) <= RowsBefore(scan_end_block)
  BY <1>1, CountFacts, ScanFacts
<1>3. Left' = { i \in RowsBefore(current_block + Count) + 1 .. RowsBefore(scan_end_block) : PassesAll(i) }
  <2>1. RowsBefore(scan_end_block)' = RowsBefore(scan_end_block)
    BY <1>1 DEF RowsBefore, LastRow
  <2>2. \A i : PassesAll(i)' <=> PassesAll(i)
    BY <1>1 DEF PassesAll, Passes
  <2> QED
    BY <1>1, <2>1, <2>2 DEF Left
<1>4. Pending = Left
  BY <1>1, ScanPending
<1>5. Pending' = batch_rows' \cup Left'
  BY <1>1 DEF Pending, Left
<1>6. batch_rows' \subseteq Left
  BY <1>1, <1>2 DEF Left
<1>7. Left' \subseteq Left
  BY <1>2, <1>3 DEF Left
<1>8. \A i \in Left : i \in batch_rows' \/ i \in Left' \/ ~MightContain(i)
  BY <1>1, <1>2, <1>3 DEF Left
<1> QED
  BY <1>1, <1>4, <1>5, <1>6, <1>7, <1>8 DEF DropsFiltered

LEMMA NextNoneEnds == ASSUME Inv, NextNone PROVE Stream!Next
<1>1. /\ phase = "scan" /\ phase' = "scan" /\ batch_rows = {} /\ current_block >= scan_end_block
      /\ done' = TRUE /\ UNCHANGED <<batch_rows, out>>
      /\ UNCHANGED <<rows, last, file_metadata, preds, current_block, scan_end_block>>
  BY DEF NextNone, fileVars, diskVars, search
<1>2. Left = {}
  <2>1. current_block = scan_end_block /\ RowsBefore(current_block) \in Nat
    BY <1>1, ScanFacts
  <2> QED
    BY <2>1 DEF Left
<1>3. Pending = {} /\ Left' = Left
  BY <1>1, <1>2, ScanPending, LeftStays
<1>4. Pending' = {}
  BY <1>1, <1>2, <1>3 DEF Pending, Left
<1> QED
  BY <1>1, <1>3, <1>4 DEF Stream!Next, Stream!End

(* The scan returns every row that passes the pushed predicates, once and  *)
(* in stored order, for every table of values the two comparisons may see  *)
(* differently, whatever the predicates; rows are lost only if one of them *)
(* is misjudged.                                                           *)
THEOREM Scans == Spec => ScansAll
<1>1. ASSUME Inv, [Next]_vars, opened
      PROVE  [Stream!Next \/ DropsFiltered \/ DropsMisjudged]_<<Pending, out, done>>
  <2>1. CASE Generate
    <3>1. ~closed
      BY <2>1 DEF Generate, FileNext, Close, WriteRow
    <3> QED
      BY <1>1, <3>1 DEF Inv, LayoutInv, opened
  <2>2. CASE Layout \/ StartAnon \/ \E ps \in PredLists : Open(ps)
    BY <1>1, <2>2 DEF Layout, StartAnon, Open, opened
  <2>3. CASE Prune \/ SearchDone
    BY <1>1, <2>3, OpeningKeeps, OpeningDrops
  <2>4. CASE SkipSearch \/ StartSearch \/ LowerStep \/ LowerEnd \/ UpperStep \/ UpperEnd
    <3>1. phase \in {"pred", "lower", "upper"}
      BY <2>4 DEF SkipSearch, StartSearch, HasPred, LowerStep, LowerEnd, UpperStep, UpperEnd
    <3> QED
      BY <1>1, <2>4, <3>1, SearchKeeps
  <2>5. CASE NextRow
    BY <1>1, <2>5, NextRowDelivers
  <2>6. CASE NextBatch
    BY <1>1, <2>6, NextBatchDrops
  <2>7. CASE NextNone
    BY <1>1, <2>7, NextNoneEnds
  <2>8. ASSUME NEW F \in Filters, Publish(F) PROVE UNCHANGED <<Pending, out, done>>
    BY <1>1, <2>8, PublishKeeps
  <2>9. CASE UNCHANGED vars
    <3>1. UNCHANGED <<rows, last, file_metadata, preds, current_block, scan_end_block,
                      batch_rows, phase, out, done>>
      BY <2>9 DEF vars, fileVars, diskVars, search, scan
    <3>2. Left' = Left /\ Matches' = Matches
      BY <3>1, LeftStays, MatchesStay
    <3> QED
      BY <3>1, <3>2 DEF Pending, Left, Matches
  <2> QED
    BY <1>1, <2>1, <2>2, <2>3, <2>4, <2>5, <2>6, <2>7, <2>8, <2>9 DEF Next, ScanNext
<1>2. Inv /\ [Next]_vars =>
         (opened => [Stream!Next \/ DropsFiltered \/ DropsMisjudged]_<<Pending, out, done>>)
  BY <1>1
<1> QED
  BY <1>2, InitInv, NextInv, PTL DEF Spec, ScansAll

-----------------------------------------------------------------------------
(* Termination, but for fairness.                                          *)

(* What is left to do: predicates to look at, searches for the predicate,  *)
(* blocks of the range a search or the scan has not ruled out or read,     *)
(* rows of the batch.  A step may add to what comes later in the tuple.    *)
Work == <<IF phase = "scan" THEN 0 ELSE Len(preds) + 2 - pred_idx,
          IF phase = "pred" THEN 2 ELSE IF phase = "lower" THEN 1 ELSE 0,
          IF phase = "scan" THEN scan_end_block - current_block
                            ELSE IF Searching THEN high - low ELSE 0,
          Cardinality(batch_rows)>>

Order == LexProductOrdering(OpToRel(<, Nat), Nat, 4)

LEMMA OrderWellFounded == IsWellFoundedOn(Order, [1 .. 4 -> Nat])
BY NatLessThanWellFounded, WFLexProductOrdering DEF Order

LEMMA Lower4 ==
    ASSUME NEW a \in Nat, NEW b \in Nat, NEW c \in Nat, NEW d \in Nat,
           NEW p \in Nat, NEW q \in Nat, NEW r \in Nat, NEW s \in Nat,
           \/ a < p
           \/ a = p /\ b < q
           \/ a = p /\ b = q /\ c < r
           \/ a = p /\ b = q /\ c = r /\ d < s
    PROVE  <<<<a, b, c, d>>, <<p, q, r, s>>>> \in Order
<1> DEFINE v == <<a, b, c, d>>
           w == <<p, q, r, s>>
<1>1. v \in [1 .. 4 -> Nat] /\ w \in [1 .. 4 -> Nat]
  OBVIOUS
<1>2. \E j \in 1 .. 4 : v[j] < w[j] /\ \A i \in 1 .. (j - 1) : v[i] = w[i]
  <2>1. CASE a < p
    BY <2>1
  <2>2. CASE a = p /\ b < q
    <3>1. \A i \in 1 .. (2 - 1) : v[i] = w[i]
      BY <2>2
    <3> QED
      BY <2>2, <3>1
  <2>3. CASE a = p /\ b = q /\ c < r
    <3>1. \A i \in 1 .. (3 - 1) : v[i] = w[i]
      BY <2>3
    <3> QED
      BY <2>3, <3>1
  <2>4. CASE a = p /\ b = q /\ c = r /\ d < s
    <3>1. \A i \in 1 .. (4 - 1) : v[i] = w[i]
      BY <2>4
    <3> QED
      BY <2>4, <3>1
  <2> QED
    BY <2>1, <2>2, <2>3, <2>4
<1>3. \A j \in 1 .. 4 : v[j] \in Nat /\ w[j] \in Nat
  BY <1>1
<1> HIDE DEF v, w
<1> QED
  BY <1>1, <1>2, <1>3 DEF Order, LexProductOrdering, OpToRel

(* Which of the four falls.                                                *)
LEMMA LowerFirst ==
    ASSUME NEW a \in Nat, NEW b \in Nat, NEW c \in Nat, NEW d \in Nat,
           NEW p \in Nat, NEW q \in Nat, NEW r \in Nat, NEW s \in Nat, a < p
    PROVE  <<<<a, b, c, d>>, <<p, q, r, s>>>> \in Order
BY Lower4

LEMMA LowerSecond ==
    ASSUME NEW a \in Nat, NEW b \in Nat, NEW c \in Nat, NEW d \in Nat,
           NEW q \in Nat, NEW r \in Nat, NEW s \in Nat, b < q
    PROVE  <<<<a, b, c, d>>, <<a, q, r, s>>>> \in Order
BY Lower4

LEMMA LowerThird ==
    ASSUME NEW a \in Nat, NEW b \in Nat, NEW c \in Nat, NEW d \in Nat,
           NEW r \in Nat, NEW s \in Nat, c < r
    PROVE  <<<<a, b, c, d>>, <<a, b, r, s>>>> \in Order
BY Lower4

LEMMA LowerFourth ==
    ASSUME NEW a \in Nat, NEW b \in Nat, NEW c \in Nat, NEW d \in Nat,
           NEW s \in Nat, d < s
    PROVE  <<<<a, b, c, d>>, <<a, b, c, s>>>> \in Order
BY Lower4

LEMMA BatchFinite == ASSUME Inv PROVE IsFiniteSet(batch_rows) /\ Cardinality(batch_rows) \in Nat
<1>1. batch_rows \subseteq 1 .. Len(rows)
  <2>1. phase = "scan" => \A i \in batch_rows : i \in 1 .. Len(rows)
    BY ScanFacts
  <2> QED
    BY <2>1 DEF Inv, BatchInv
<1>2. Len(rows) \in Nat /\ 1 \in Int
  BY SeqFacts DEF Inv, FileInv, FileTypeOK
<1>3. IsFiniteSet(1 .. Len(rows))
  BY <1>2, FS_Interval
<1>4. IsFiniteSet(batch_rows)
  BY <1>1, <1>3, FS_Subset
<1> QED
  BY <1>4, FS_CardinalityType

(* The parts of it are natural numbers once the scan is open.              *)
LEMMA WorkFacts ==
    ASSUME Inv, opened
    PROVE  /\ Len(preds) \in Nat /\ pred_idx \in Nat /\ pred_idx <= Len(preds) + 1
           /\ phase \in {"pred", "lower", "upper", "scan"}
           /\ phase = "scan" => scan_end_block - current_block \in Nat
           /\ Searching => high - low \in Nat
           /\ Cardinality(batch_rows) \in Nat
<1>1. Len(preds) \in Nat /\ pred_idx \in 1 .. Len(preds) + 1
  BY SeqFacts DEF Inv, RangeInv
<1>2. phase = "scan" => scan_end_block - current_block \in Nat
  BY ScanFacts
<1>3. Searching => high - low \in Nat
  BY DEF Inv, RangeInv, SearchInv
<1> QED
  BY <1>1, <1>2, <1>3, BatchFinite DEF opened

LEMMA PredStepLowers ==
    ASSUME Inv, Prune \/ SkipSearch \/ StartSearch \/ SearchDone
    PROVE  <<Work', Work>> \in Order
<1>1. phase = "pred" /\ opened
  BY DEF Prune, SkipSearch, StartSearch, SearchDone, HasPred, opened
<1>2. /\ Len(preds) + 2 - pred_idx \in Nat /\ Len(preds) + 2 - pred_idx > 0
      /\ Len(preds) \in Nat /\ pred_idx \in Nat /\ Cardinality(batch_rows) \in Nat
  BY <1>1, WorkFacts
<1>3. Work = <<Len(preds) + 2 - pred_idx, 2, 0, Cardinality(batch_rows)>>
  BY <1>1 DEF Work, Searching
<1>4. scan_end_block - scan_start_block \in Nat /\ scan_start_block - scan_start_block = 0
  BY <1>1 DEF Inv, RangeInv
<1>5. preds' = preds /\ batch_rows' = batch_rows
  BY DEF Prune, SkipSearch, StartSearch, SearchDone, search, scan
<1>6. CASE Prune
  <2>1. /\ phase' = "scan" /\ scan_end_block' = scan_start_block
        /\ current_block' = scan_start_block
    BY <1>6 DEF Prune, StartScan
  <2>2. Work' = <<0, 0, 0, Cardinality(batch_rows)>>
    BY <2>1, <1>4, <1>5 DEF Work
  <2> QED
    BY <1>2, <1>3, <2>2, LowerFirst
<1>7. CASE SkipSearch
  <2>1. phase' = "pred" /\ pred_idx' = pred_idx + 1 /\ pred_idx <= Len(preds)
    BY <1>7 DEF SkipSearch, NextPred, HasPred
  <2>2. Work' = <<Len(preds) + 2 - (pred_idx + 1), 2, 0, Cardinality(batch_rows)>>
    BY <2>1, <1>5 DEF Work, Searching
  <2>3. /\ Len(preds) + 2 - (pred_idx + 1) \in Nat
        /\ Len(preds) + 2 - (pred_idx + 1) < Len(preds) + 2 - pred_idx
    BY <1>2, <2>1
  <2> DEFINE n == Len(preds) + 2 - pred_idx
             o == Len(preds) + 2 - (pred_idx + 1)
             d == Cardinality(batch_rows)
  <2>4. /\ n \in Nat /\ o \in Nat /\ d \in Nat /\ 0 \in Nat /\ 2 \in Nat /\ o < n
        /\ Work' = <<o, 2, 0, d>> /\ Work = <<n, 2, 0, d>>
    BY <1>2, <1>3, <2>2, <2>3
  <2> HIDE DEF n, o, d
  <2> QED
    BY <2>4, LowerFirst
<1>8. CASE StartSearch
  <2>1. /\ phase' \in {"lower", "upper"} /\ pred_idx' = pred_idx
        /\ low' = scan_start_block /\ high' = scan_end_block
    BY <1>8 DEF StartSearch
  <2>2. PICK k \in {0, 1} : k = IF phase' = "lower" THEN 1 ELSE 0
    OBVIOUS
  <2>3. Work' = <<Len(preds) + 2 - pred_idx, k, scan_end_block - scan_start_block, Cardinality(batch_rows)>>
    BY <2>1, <2>2, <1>5 DEF Work, Searching
  <2>4. k \in Nat /\ k < 2 /\ 2 \in Nat /\ 0 \in Nat
    BY <2>2
  <2> QED
    BY <1>2, <1>3, <1>4, <2>3, <2>4, LowerSecond
<1>9. CASE SearchDone
  <2>1. /\ phase' = "scan" /\ current_block' = scan_start_block
        /\ scan_end_block' = scan_end_block
    BY <1>9 DEF SearchDone, StartScan, search
  <2>2. Work' = <<0, 0, scan_end_block - scan_start_block, Cardinality(batch_rows)>>
    BY <2>1, <1>5 DEF Work
  <2> DEFINE n == Len(preds) + 2 - pred_idx
             m == scan_end_block - scan_start_block
             d == Cardinality(batch_rows)
  <2>3. /\ n \in Nat /\ m \in Nat /\ d \in Nat /\ 0 \in Nat /\ 2 \in Nat /\ 0 < n
        /\ Work' = <<0, 0, m, d>> /\ Work = <<n, 2, 0, d>>
    BY <1>2, <1>3, <1>4, <2>2
  <2> HIDE DEF n, m, d
  <2> QED
    BY <2>3, LowerFirst
<1> QED
  BY <1>6, <1>7, <1>8, <1>9

(* A turn of a binary search at least halves the range.                    *)
LEMMA StepHalves ==
    ASSUME Inv, LowerStep \/ UpperStep
    PROVE  /\ low \in Nat /\ high \in Nat /\ low < high /\ low' \in Nat /\ high' \in Nat
           /\ low' <= high' /\ 2 * (high' - low') <= high - low
<1>1. Searching /\ low < high
  BY DEF LowerStep, UpperStep, Searching
<1>2. low \in Nat /\ high \in Nat /\ mid \in Nat
  BY <1>1, MidFacts
<1>3. \/ low' = mid + 1 /\ high' = high
      \/ low' = low /\ high' = mid
  BY DEF LowerStep, UpperStep, PastMid
<1>4. PICK h \in Int : h = (high - low) \div 2
  BY <1>2
<1>5. mid = low + h /\ 2 * h <= high - low /\ high - low <= 2 * h + 1
  BY <1>2, <1>4 DEF mid
<1> QED
  BY <1>1, <1>2, <1>3, <1>5

LEMMA SearchStepLowers ==
    ASSUME Inv, LowerStep \/ UpperStep \/ LowerEnd \/ UpperEnd
    PROVE  <<Work', Work>> \in Order
<1>1. phase \in {"lower", "upper"} /\ opened /\ Searching
  BY DEF LowerStep, UpperStep, LowerEnd, UpperEnd, opened, Searching
<1>2. /\ Len(preds) + 2 - pred_idx \in Nat /\ Len(preds) + 2 - pred_idx > 0
      /\ Len(preds) \in Nat /\ pred_idx \in Nat /\ Cardinality(batch_rows) \in Nat
      /\ high - low \in Nat
  BY <1>1, WorkFacts
<1>3. /\ low \in Nat /\ high \in Nat /\ scan_start_block \in Nat /\ scan_end_block \in Nat
      /\ low <= high /\ high <= scan_end_block /\ scan_start_block <= scan_end_block
      /\ pred_idx <= Len(preds)
  BY <1>1 DEF Inv, RangeInv, SearchInv
<1>4. preds' = preds /\ batch_rows' = batch_rows
  BY DEF LowerStep, UpperStep, LowerEnd, UpperEnd, scan
<1>5. PICK k \in {0, 1} : k = IF phase = "lower" THEN 1 ELSE 0
  OBVIOUS
<1>6. Work = <<Len(preds) + 2 - pred_idx, k, high - low, Cardinality(batch_rows)>>
  BY <1>1, <1>5 DEF Work
<1>7. CASE LowerStep \/ UpperStep
  <2>1. phase' = phase /\ pred_idx' = pred_idx
    BY <1>7 DEF LowerStep, UpperStep
  <2>2. Work' = <<Len(preds) + 2 - pred_idx, k, high' - low', Cardinality(batch_rows)>>
    BY <1>1, <1>4, <1>5, <2>1 DEF Work, Searching
  <2>3. high' - low' \in Nat /\ high' - low' < high - low
    BY <1>7, StepHalves
  <2> QED
    BY <1>2, <1>5, <1>6, <2>2, <2>3, LowerThird
<1>8. CASE NextPred
  <2>1. phase' = "pred" /\ pred_idx' = pred_idx + 1
    BY <1>8 DEF NextPred
  <2>2. Work' = <<Len(preds) + 2 - (pred_idx + 1), 2, 0, Cardinality(batch_rows)>>
    BY <1>4, <2>1 DEF Work, Searching
  <2>3. /\ Len(preds) + 2 - (pred_idx + 1) \in Nat
        /\ Len(preds) + 2 - (pred_idx + 1) < Len(preds) + 2 - pred_idx
    BY <1>2, <1>3
  <2> DEFINE n == Len(preds) + 2 - pred_idx
             o == Len(preds) + 2 - (pred_idx + 1)
             m == high - low
             d == Cardinality(batch_rows)
  <2>4. /\ n \in Nat /\ o \in Nat /\ m \in Nat /\ d \in Nat /\ k \in Nat
        /\ 0 \in Nat /\ 2 \in Nat /\ o < n
        /\ Work' = <<o, 2, 0, d>> /\ Work = <<n, k, m, d>>
    BY <1>2, <1>5, <1>6, <2>2, <2>3
  <2> HIDE DEF n, o, m, d
  <2> QED
    BY <2>4, LowerFirst
<1>9. CASE LowerEnd /\ ~NextPred
  <2>1. /\ phase = "lower" /\ phase' = "upper" /\ pred_idx' = pred_idx
        /\ low' = Larger(scan_start_block, low) /\ high' = scan_end_block
    BY <1>9 DEF LowerEnd, NextPred
  <2>2. Work' = <<Len(preds) + 2 - pred_idx, 0, high' - low', Cardinality(batch_rows)>>
    BY <1>4, <2>1 DEF Work, Searching
  <2>3. k = 1 /\ 0 < 1 /\ 0 \in Nat /\ 1 \in Nat /\ high' - low' \in Nat
    BY <1>3, <1>5, <2>1 DEF Larger
  <2>4. Work = <<Len(preds) + 2 - pred_idx, 1, high - low, Cardinality(batch_rows)>>
    BY <1>6, <2>3
  <2> QED
    BY <1>2, <2>2, <2>3, <2>4, LowerSecond
<1> QED
  BY <1>7, <1>8, <1>9 DEF UpperEnd

LEMMA NextStepLowers ==
    ASSUME Inv, NextRow \/ NextBatch
    PROVE  <<Work', Work>> \in Order
<1>1. phase = "scan" /\ phase' = "scan" /\ opened /\ scan_end_block' = scan_end_block
  BY DEF NextRow, NextBatch, opened, search
<1>2. /\ scan_end_block - current_block \in Nat /\ IsFiniteSet(batch_rows)
      /\ Cardinality(batch_rows) \in Nat
  BY <1>1, WorkFacts, BatchFinite
<1>3. Work = <<0, 0, scan_end_block - current_block, Cardinality(batch_rows)>>
  BY <1>1 DEF Work
<1>4. Work' = <<0, 0, scan_end_block - current_block', Cardinality(batch_rows')>>
  BY <1>1 DEF Work
<1>5. CASE NextRow
  <2>1. PICK i \in batch_rows : batch_rows' = batch_rows \ {i}
    BY <1>5 DEF NextRow
  <2>2. Cardinality(batch_rows') = Cardinality(batch_rows) - 1 /\ IsFiniteSet(batch_rows')
    BY <1>2, <2>1, FS_RemoveElement
  <2>3. Cardinality(batch_rows') \in Nat
    BY <2>2, FS_CardinalityType
  <2>4. Cardinality(batch_rows') < Cardinality(batch_rows) /\ 0 \in Nat
    BY <1>2, <2>2
  <2>5. current_block' = current_block
    BY <1>5 DEF NextRow
  <2> QED
    BY <1>2, <1>3, <1>4, <2>3, <2>4, <2>5, LowerFourth
<1>6. CASE NextBatch
  <2>1. current_block < scan_end_block /\ current_block' = current_block + Count
    BY <1>6, NextBatchFacts
  <2>2. Count \in Nat /\ Count > 0 /\ current_block + Count <= scan_end_block
    BY <1>1, <2>1, CountFacts
  <2>3. /\ scan_end_block - current_block' \in Nat /\ 0 \in Nat
        /\ scan_end_block - current_block' < scan_end_block - current_block
    BY <1>1, <2>1, <2>2, ScanFacts
  <2>4. Cardinality(batch_rows') \in Nat
    <3>1. batch_rows' \subseteq RowsBefore(current_block) + 1 .. RowsBefore(current_block + Count)
      BY <1>6, NextBatchFacts
    <3>2. RowsBefore(current_block) + 1 \in Int /\ RowsBefore(current_block + Count) \in Int
      BY <1>1, <2>1, CountFacts, ScanFacts
    <3>3. IsFiniteSet(RowsBefore(current_block) + 1 .. RowsBefore(current_block + Count))
      BY <3>2, FS_Interval
    <3> QED
      BY <3>1, <3>3, FS_Subset, FS_CardinalityType
  <2> QED
    BY <1>2, <1>3, <1>4, <2>3, <2>4, LowerThird
<1> QED
  BY <1>5, <1>6

(* Every step of new (53-177) and of next() leaves less to do, in an order *)
(* in which nothing falls for ever: both searches of every predicate stop, *)
(* batches of blocks get somewhere, and no row is returned for ever.  Only *)
(* the filter, published once, comes in between.                           *)
StepsLeadOn ==
    [][opened => \/ NextNone
                 \/ <<Work', Work>> \in Order
                 \/ filter = {} /\ filter' # {} /\ Work' = Work]_vars

THEOREM ScanEnds == Spec => StepsLeadOn
<1>1. ASSUME Inv, Next, opened
      PROVE  \/ NextNone \/ <<Work', Work>> \in Order
             \/ filter = {} /\ filter' # {} /\ Work' = Work
  <2>1. ~Generate
    <3>1. closed
      BY <1>1, BlockFacts DEF Inv, opened
    <3> QED
      BY <3>1 DEF Generate, FileNext, Close, WriteRow
  <2>2. ~Layout /\ ~StartAnon /\ \A ps \in PredLists : ~Open(ps)
    BY <1>1 DEF Layout, StartAnon, Open, opened
  <2>3. ASSUME NEW F \in Filters, Publish(F) PROVE filter = {} /\ filter' # {} /\ Work' = Work
    BY <2>3 DEF Publish, Work, Searching, search
  <2> QED
    BY <1>1, <2>1, <2>2, <2>3, PredStepLowers, SearchStepLowers, NextStepLowers
    DEF Next, ScanNext
<1>2. Inv /\ [Next]_vars =>
         [opened => \/ NextNone \/ <<Work', Work>> \in Order
                    \/ filter = {} /\ filter' # {} /\ Work' = Work]_vars
  BY <1>1
<1> QED
  BY <1>2, InitInv, NextInv, PTL DEF Spec, StepsLeadOn

(* A search reads a number of blocks that is logarithmic in the range.     *)
SearchHalves ==
    [][LowerStep \/ UpperStep => high' - low' >= 0 /\ 2 * (high' - low') <= high - low]_vars

THEOREM Logarithmic == Spec => SearchHalves
<1>1. Inv /\ [Next]_vars =>
         [LowerStep \/ UpperStep => high' - low' >= 0 /\ 2 * (high' - low') <= high - low]_vars
  <2>1. ASSUME Inv, LowerStep \/ UpperStep
        PROVE  high' - low' >= 0 /\ 2 * (high' - low') <= high - low
    BY <2>1, StepHalves
  <2> QED
    BY <2>1
<1> QED
  BY <1>1, InitInv, NextInv, PTL DEF Spec, SearchHalves

(* The block a search looks at has a first and a last row, and they are    *)
(* rows of the table: its break (142, 169) is never taken.                 *)
ProbeHasRows ==
    phase \in {"lower", "upper"} /\ low < high =>
        RowsBefore(mid) + 1 \in 1 .. Len(rows) /\ RowsBefore(mid + 1) \in 1 .. Len(rows)

THEOREM NeverBreaks == Spec => []ProbeHasRows
<1>1. Inv => ProbeHasRows
  <2> SUFFICES ASSUME Inv, phase \in {"lower", "upper"}, low < high
               PROVE  /\ RowsBefore(mid) + 1 \in 1 .. Len(rows)
                      /\ RowsBefore(mid + 1) \in 1 .. Len(rows)
    BY DEF ProbeHasRows
  <2>1. /\ mid \in file_metadata[Table].start_block .. End(Table)
        /\ mid + 1 \in file_metadata[Table].start_block .. End(Table)
        /\ mid < mid + 1 /\ phase # "layout"
    BY MidFacts DEF Searching
  <2>2. /\ RowsBefore(mid) \in 0 .. Len(rows) /\ RowsBefore(mid + 1) \in 0 .. Len(rows)
        /\ RowsBefore(mid) < RowsBefore(mid + 1) /\ Len(rows) \in Nat
    BY <2>1, BlockFacts DEF Inv
  <2> QED
    BY <2>2
<1> QED
  BY <1>1, InitInv, NextInv, PTL DEF Spec
=============================================================================
