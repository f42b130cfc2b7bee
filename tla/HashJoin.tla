------------------------------ MODULE HashJoin ------------------------------
(***************************************************************************)
(* database/src/hash_join.rs, HashJoinOp: read both inputs in turn, chunk  *)
(* by chunk; if one ends within the budget, build a hash table from it and *)
(* probe with the other; otherwise write both to partitions and join them  *)
(* pair by pair.  Before the right input is read on, a filter of the left  *)
(* keys is published to its scan (table_scanner.rs).                       *)
(*                                                                         *)
(* A run is its sequence of rows and stands for its block ids (RunReader   *)
(* shows that reading it back is just that).  Inputs are fused: next()     *)
(* after None is None again, as new polls an input after its None.         *)
(***************************************************************************)
EXTENDS Integers, FiniteSetsExt, SequencesExt

CONSTANTS
    Keys,
    Equal(_, _),     \* == of Data
    Hash(_),         \* hash_data, a natural number
    Positions(_),    \* JoinFilter::bit_positions
    NumPartitions,   \* 64 or 128 in the code
    ChunkSize,       \* rows read from a side before the other's turn
    Limit,           \* memory_budget
    LeftBytes, RightBytes,  \* estimate_row_size of either side
    MaxRows          \* bound: rows of either input

ASSUME JoinAssumption ==
    /\ \A k \in Keys : Hash(k) \in Nat
    /\ \A k, l \in Keys : Equal(k, l) => Equal(l, k)
    /\ NumPartitions \in Nat \ {0} /\ ChunkSize \in Nat \ {0}
    /\ Limit \in Nat /\ LeftBytes \in Nat \ {0} /\ RightBytes \in Nat \ {0}
    /\ MaxRows \in Nat

Row       == [id : 1 .. MaxRows, key : Keys]
Sides     == {"left", "right"}
Partition == 0 .. NumPartitions - 1

VARIABLES
    child,          \* side -> rows the input has not delivered
    buffered,       \* side -> left_buffered, right_buffered
    exhausted,      \* sides whose input returned None to new
    phase,          \* where new is; memory or disk once it has returned
    dropped,
    dynamic_filter, \* bits of the published filter
    partitions,     \* side -> partition -> its run, <<>> for None
    freed,          \* side -> partition -> how often free_run was called with it
    current_partition,
    build_is_left, build_side,
    probe_filter,   \* bits of current_probe_filter
    probe_run,      \* the partition probe_reader reads, if any
    probe_rest,     \* rows left in probe_buffered or in probe_reader
    current_probe_row,
    matches,        \* current_match_indices from current_match_idx on
    out, done       \* the pair the last next() returned; it returned None

runs    == <<partitions, freed, current_partition>>
reading == <<child, buffered, exhausted, dynamic_filter>>
table   == <<build_is_left, build_side, probe_filter>>
probing == <<probe_run, probe_rest, current_probe_row, matches>>
vars    == <<reading, phase, dropped, runs, table, probing, out, done>>

Build == IF build_is_left THEN "left" ELSE "right"
Probe == IF build_is_left THEN "right" ELSE "left"

Bits(rows) == UNION { Positions(Hash(r.key)) : r \in ToSet(rows) }
MightContain(bits, r) == Positions(Hash(r.key)) \subseteq bits

NoRuns == [s \in Sides |-> [p \in Partition |-> <<>>]]

Init ==
    /\ \E keys \in [Sides -> BoundedSeq(Keys, MaxRows)] :
          child = [s \in Sides |->
                      [i \in DOMAIN keys[s] |-> [id |-> i, key |-> keys[s][i]]]]
    /\ buffered = [s \in Sides |-> <<>>]
    /\ exhausted = {} /\ phase = "left" /\ dropped = FALSE
    /\ dynamic_filter = {}
    /\ partitions = NoRuns
    /\ freed = [s \in Sides |-> [p \in Partition |-> 0]]
    /\ current_partition = 0
    /\ build_is_left = TRUE /\ build_side = <<>> /\ probe_filter = {}
    /\ probe_run = {} /\ probe_rest = <<>>
    /\ current_probe_row = {} /\ matches = <<>>
    /\ out = {} /\ done = FALSE

-----------------------------------------------------------------------------
(* HashJoinOp::new.  A chunk that ends exactly with the input does not     *)
(* show the end yet.                                                       *)
TotalSize(buf) == Len(buf["left"]) * LeftBytes + Len(buf["right"]) * RightBytes

ReadChunk(s, other) ==
    /\ phase = s
    /\ LET n == Min({ChunkSize, Len(child[s])})
       IN  /\ buffered' = [buffered EXCEPT ![s] = @ \o SubSeq(child[s], 1, n)]
           /\ child' = [child EXCEPT ![s] = SubSeq(@, n + 1, Len(@))]
           /\ exhausted' = IF n < ChunkSize THEN exhausted \cup {s} ELSE exhausted
    /\ phase' = CASE TotalSize(buffered') > Limit -> "partition"
                  [] TotalSize(buffered') <= Limit /\ s \in exhausted' -> "build"
                  [] OTHER -> other
    /\ UNCHANGED <<dropped, dynamic_filter, runs, table, probing, out, done>>

(* The one sequence of these rows in the order of their input.             *)
InOrder(rows) ==
    { s \in [1 .. Cardinality(rows) -> rows] :
        \A i, j \in DOMAIN s : i < j => s[i].id < s[j].id }

(* The scan below the right input applies a published filter to the blocks *)
(* it reads from then on, not to the batch of rows it has decoded already. *)
Passing(rows, batch, bits) ==
    { rows[i] : i \in { j \in DOMAIN rows : j <= batch \/ MightContain(bits, rows[j]) } }

ScanFiltered(rows, bits) ==
    UNION { InOrder(Passing(rows, batch, bits)) : batch \in 0 .. Len(rows) }

(* Mutant: the smaller buffer builds, whether its input has ended or not.  *)
BuildIsSmaller == Len(buffered["left"]) <= Len(buffered["right"])

(* Everything fits: the exhausted side builds.  (The loop ends with the    *)
(* first side that is exhausted, so they never both are.)                  *)
BuildIsLeft ==
    IF exhausted = Sides THEN Len(buffered["left"]) <= Len(buffered["right"])
                         ELSE "left" \in exhausted

BuildInMemory ==
    /\ phase = "build"
    /\ build_is_left' = BuildIsLeft
    /\ build_side' = buffered[Build']
    /\ probe_rest' = buffered[Probe']
    /\ dynamic_filter' = Bits(build_side')
    /\ probe_filter' = Bits(build_side')
    /\ \E rows \in ScanFiltered(child["right"], dynamic_filter') :
          child' = [child EXCEPT !["right"] = rows]
    /\ buffered' = [s \in Sides |-> <<>>]
    /\ phase' = "memory"
    /\ UNCHANGED <<exhausted, dropped, runs, probe_run, current_probe_row, matches, out, done>>

(* partition_input: the buffered rows, then the rest of the input.         *)
Bucket(r) == Hash(r.key) % NumPartitions
InBucket(s, p) ==
    { r \in ToSet(buffered[s]) \cup ToSet(child[s]) : Bucket(r) = p }
PartitionInput(s) ==
    { ps \in [Partition -> UNION { InOrder(InBucket(s, p)) : p \in Partition }] :
        \A p \in Partition : ps[p] \in InOrder(InBucket(s, p)) }

PartitionLeft ==
    /\ phase = "partition"
    /\ \E ps \in PartitionInput("left") : partitions' = [partitions EXCEPT !["left"] = ps]
    /\ dynamic_filter' = Bits(buffered["left"] \o child["left"])
    /\ \E rows \in ScanFiltered(child["right"], dynamic_filter') :
          child' = [left |-> <<>>, right |-> rows]
    /\ buffered' = [buffered EXCEPT !["left"] = <<>>]
    /\ phase' = "partition_right"
    /\ UNCHANGED <<exhausted, dropped, freed, current_partition, table, probing, out, done>>

PartitionRight ==
    /\ phase = "partition_right"
    /\ \E ps \in PartitionInput("right") : partitions' = [partitions EXCEPT !["right"] = ps]
    /\ child' = [child EXCEPT !["right"] = <<>>]
    /\ buffered' = [buffered EXCEPT !["right"] = <<>>]
    /\ phase' = "disk"
    /\ UNCHANGED <<exhausted, dynamic_filter, dropped, freed, current_partition,
                   table, probing, out, done>>

-----------------------------------------------------------------------------
(* next(): one action per turn of its loop.                                *)
Calling == phase \in {"memory", "disk"} /\ ~dropped

Pair(b, p) == IF build_is_left THEN <<b, p>> ELSE <<p, b>>

(* Rows of the same hash are chained, the last inserted first; of the      *)
(* chain of its hash a probe row meets those with an equal key.            *)
Meets(k, l) == Hash(k) = Hash(l) /\ Equal(k, l)
Matching(r) == { i \in DOMAIN build_side : Meets(build_side[i].key, r.key) }
Chain(r) ==
    { m \in [1 .. Cardinality(Matching(r)) -> Matching(r)] :
        \A i, j \in DOMAIN m : i < j => m[i] > m[j] }

(* Mutant: the first match moves the probe row out.                        *)
NextMatchTakes ==
    /\ Calling
    /\ matches # <<>>
    /\ \E p \in current_probe_row : out' = {Pair(build_side[Head(matches)], p)}
    /\ matches' = Tail(matches)
    /\ current_probe_row' = {}
    /\ UNCHANGED <<reading, phase, dropped, runs, table, probe_run, probe_rest, done>>

(* 1. The last match moves the probe row out.                              *)
NextMatch ==
    /\ Calling
    /\ matches # <<>>
    /\ \E p \in current_probe_row : out' = {Pair(build_side[Head(matches)], p)}
    /\ matches' = Tail(matches)
    /\ current_probe_row' = IF Tail(matches) = <<>> THEN {} ELSE current_probe_row
    /\ UNCHANGED <<reading, phase, dropped, runs, table, probe_run, probe_rest, done>>

ProbeWith(r) ==
    \/ /\ ~MightContain(probe_filter, r)
       /\ matches' = <<>> /\ current_probe_row' = {r}
    \/ /\ MightContain(probe_filter, r)
       /\ matches' \in Chain(r)
       /\ current_probe_row' = IF matches' = <<>> THEN current_probe_row ELSE {r}

(* 1.5 and 2. The next probe row: buffered, from the input, from the run.  *)
ProbeBuffered ==
    /\ Calling
    /\ matches = <<>>
    /\ probe_rest # <<>>
    /\ ProbeWith(Head(probe_rest))
    /\ probe_rest' = Tail(probe_rest)
    /\ UNCHANGED <<reading, phase, dropped, runs, table, probe_run, out, done>>

ProbeChild ==
    /\ Calling /\ phase = "memory"
    /\ matches = <<>> /\ probe_rest = <<>>
    /\ child[Probe] # <<>>
    /\ ProbeWith(Head(child[Probe]))
    /\ child' = [child EXCEPT ![Probe] = Tail(@)]
    /\ UNCHANGED <<buffered, exhausted, dynamic_filter, phase, dropped, runs, table,
                   probe_run, probe_rest, out, done>>

(* Mutant: both runs of a partition are freed with the first.              *)
FreePair(rs) ==
    freed' = [s \in Sides |-> [p \in Partition |->
                 IF \E side \in Sides : <<side, p>> \in rs THEN freed[s][p] + 1 ELSE freed[s][p]]]

Free(rs) ==
    freed' = [s \in Sides |-> [p \in Partition |->
                 IF <<s, p>> \in rs THEN freed[s][p] + 1 ELSE freed[s][p]]]

(* The probe run is exhausted: its reader is taken and the run freed.      *)
FreeProbeRun ==
    /\ Calling /\ phase = "disk"
    /\ matches = <<>> /\ probe_rest = <<>>
    /\ probe_run # {}
    /\ Free(probe_run)
    /\ probe_run' = {}
    /\ UNCHANGED <<reading, phase, dropped, partitions, current_partition, table,
                   probe_rest, current_probe_row, matches, out, done>>

(* 3. The next pair of partitions; the smaller run is read and freed.      *)
AtNextPartition ==
    /\ Calling /\ phase = "disk"
    /\ matches = <<>> /\ probe_run = {}
    /\ current_partition < NumPartitions
    /\ current_partition' = current_partition + 1

JoinPartition ==
    /\ AtNextPartition
    /\ LET l == partitions["left"][current_partition]
           r == partitions["right"][current_partition]
       IN  /\ l # <<>> /\ r # <<>>
           /\ build_is_left' = (Len(l) <= Len(r))
    /\ build_side' = partitions[Build'][current_partition]
    /\ probe_filter' = Bits(build_side')
    /\ Free({<<Build', current_partition>>})
    /\ probe_run' = {<<Probe', current_partition>>}
    /\ probe_rest' = partitions[Probe'][current_partition]
    /\ UNCHANGED <<reading, phase, dropped, partitions, current_probe_row, matches, out, done>>

SkipPartition ==
    /\ AtNextPartition
    /\ LET present == { s \in Sides : partitions[s][current_partition] # <<>> }
       IN  /\ present # Sides
           /\ Free(present \X {current_partition})
    /\ UNCHANGED <<reading, phase, dropped, partitions, table, probing, out, done>>

NextNone ==
    /\ Calling
    /\ matches = <<>> /\ probe_rest = <<>>
    /\ \/ phase = "memory" /\ child[Probe] = <<>>
       \/ phase = "disk" /\ probe_run = {} /\ current_partition = NumPartitions
    /\ done' = TRUE
    /\ UNCHANGED <<reading, phase, dropped, runs, table, probing, out>>

Listed == { run \in Sides \X Partition : partitions[run[1]][run[2]] # <<>> }

(* Drop frees every run the partitions still list, then the reader's copy. *)
Drop ==
    /\ Calling
    /\ dropped' = TRUE
    /\ freed' = [s \in Sides |-> [p \in Partition |->
                    freed[s][p] + Cardinality({ rs \in {Listed, probe_run} : <<s, p>> \in rs })]]
    /\ UNCHANGED <<reading, phase, partitions, current_partition, table, probing, out, done>>

Next == \/ ReadChunk("left", "right") \/ ReadChunk("right", "left")
        \/ BuildInMemory \/ PartitionLeft \/ PartitionRight
        \/ NextMatch \/ ProbeBuffered \/ ProbeChild \/ FreeProbeRun
        \/ JoinPartition \/ SkipPartition \/ NextNone \/ Drop

Spec == Init /\ [][Next]_vars

-----------------------------------------------------------------------------
TypeOK ==
    /\ child \in [Sides -> Seq(Row)] /\ buffered \in [Sides -> Seq(Row)]
    /\ exhausted \subseteq Sides
    /\ phase \in Sides \cup {"build", "partition", "partition_right", "memory", "disk"}
    /\ dropped \in BOOLEAN /\ build_is_left \in BOOLEAN /\ done \in BOOLEAN
    /\ partitions \in [Sides -> [Partition -> Seq(Row)]]
    /\ freed \in [Sides -> [Partition -> Nat]]
    /\ current_partition \in 0 .. NumPartitions
    /\ build_side \in Seq(Row) /\ probe_rest \in Seq(Row)
    /\ probe_run \subseteq Sides \X Partition
    /\ current_probe_row \subseteq Row
    /\ matches \in Seq(DOMAIN build_side)
    /\ out \subseteq Row \X Row

(* Pairs of the result that next() has not returned yet, wherever their    *)
(* rows are.                                                               *)
EqualPairs(ls, rs) == { pair \in ls \X rs : Meets(pair[1].key, pair[2].key) }
ProbeRows == ToSet(probe_rest) \cup (IF phase = "memory" THEN ToSet(child[Probe]) ELSE {})
Held(s) == ToSet(child[s]) \cup ToSet(buffered[s])
           \cup UNION { ToSet(partitions[s][p]) : p \in Partition }

Pending ==
    { Pair(build_side[i], p) : i \in ToSet(matches), p \in current_probe_row }
    \cup (IF build_is_left THEN EqualPairs(ToSet(build_side), ProbeRows)
                           ELSE EqualPairs(ProbeRows, ToSet(build_side)))
    \cup CASE phase = "memory" -> {}
           [] phase = "disk" ->
                UNION { EqualPairs(ToSet(partitions["left"][p]), ToSet(partitions["right"][p]))
                        : p \in current_partition .. NumPartitions - 1 }
           [] OTHER -> EqualPairs(Held("left"), Held("right"))

(* The operator returns every pair of rows whose keys are equal and have   *)
(* one hash, exactly once, and None only then: wherever the inputs end in  *)
(* the chunks, whichever side builds, in memory or on disk, whatever the   *)
(* filters let through.  So the pairs of equal keys it misses are those    *)
(* whose hashes differ, and those it misses always: 0.0 and -0.0, or one   *)
(* number in two types (lib.rs compares the numbers, hash_data takes their *)
(* bits and a seed of the type).                                           *)
Stream == INSTANCE OperatorStream WITH
    Row <- Row \X Row, Before <- {}, todo <- Pending
JoinsAll == Stream!Spec

(* A run goes back exactly when next() has read it: not before its         *)
(* partition's turn, not while its rows are being probed, not twice, and   *)
(* also if its partner is empty and it is never read.  Drop, however early *)
(* it comes, gives back the rest.  (It goes by the lists of runs, in which *)
(* next() leaves the ids of the runs it has freed, so some go back twice.) *)
ToBeRead(run) == run[2] >= current_partition \/ run \in probe_run

FreedAfterRead ==
    \A run \in Listed :
        LET n == freed[run[1]][run[2]] IN
        /\ ~dropped => n = IF ToBeRead(run) THEN 0 ELSE 1
        /\ dropped => n \in {1, 2}

(* current_probe_row.take().unwrap() and as_ref().unwrap() (664, 667) find *)
(* a row whenever matches are left, and it is the one they were found for. *)
ProbeRowKept ==
    matches # <<>> => \E p \in current_probe_row :
        \A i \in ToSet(matches) : Meets(build_side[i].key, p.key)
=============================================================================
