# DB55 in TLA+

Specifications, model-checking configurations and machine-checked proofs for
DB55, a small relational engine in three processes: a *monitor* that starts
the other two and judges the answer, a *disk* that serves blocks over pipes,
and a *database* that plans and runs one query within a memory limit.

The modules are written from the source under `src/`; `PROJECT.json` maps each
definition to the lines it stands for.

## 1. The system

| Part | Source | State | Operations |
|---|---|---|---|
| BufferPool | `database/src/buffer_pool.rs` | frames, page table, LRU list with duplicates, CLOCK hand, policy, next scratch id, free list | allocate, write (run, raw run, in place), free a run, fetch, unpin, mark dirty, set policy, read past the cache |
| Run files, RunReader | `database/src/disk_run.rs` | block ids, current block and row, prefetch window | pack rows into blocks, open, next, peek, advance |
| SortOp | `database/src/sort.rs` | buffer, overflow row, runs, readers, merge heap | new (fill, spill, open merge), next, drop |
| HashJoinOp | `database/src/hash_join.rs` | chunks of both inputs, build table, filters, partitions of runs, probe row with its matches | new (read, build or partition), next, drop |
| CrossOp, JoinOp | `cross.rs`, `join.rs` | materialised right input, left chunk, cursors | new, next, drop (CrossOp only) |
| SortMergeJoinOp | `sort_merge.rs` | one row of either input, the pending left row, the group of right rows with its key | new, next |
| TableScanner | `table_scanner.rs` | range of blocks and its search bounds, next block, decoded batch, published filter | new, next |
| FilterOp, ProjectOp | `filter.rs`, `project.rs` | none (one row in, at most one out) | new, next |
| Planner | `query_executor.rs`, `common/src/query.rs` | none (functions on the query tree) | pushdown, join order and method, dropped columns, elided sorts |
| Database main | `database/src/main.rs` | position in the conversation, buffered answer | ask the limit, build, stream, finish |
| DiskManager | `disk_manager.rs` | the two pipes to the disk | metadata requests, read and write blocks |
| Disk | `disk/src/disk_simulation/` | scratch blocks, the ranges of the files, metrics | lay out the files, get block, put block, metadata |
| Monitor | `monitor/src/main.rs` | position in the conversation, collected lines | start, handle_db, validate, wait |
| Generator | `generator/` | open block, statistics of each column | write row, close; offline, but the scanner and the planner trust what it notes |
| Configurations, printer | `configs/`, `demo_query_printer/` | - | records read from JSON, a printer |

Interaction. Operators form a tree; a parent calls `next` on its children and
passes the one `&mut BufferPool` along, so within the database one thing
happens at a time. What operators share is the pool's id allocator (runs are
written, read back and given back at different times by different operators)
and, for hash joins, the filter that a join publishes to the scan below its
right input. The generator, the disk, the scanner and the planner are tied by
the statistics: the ordered flag and the bounds of a column, computed in one
pass over the rows, decide which blocks a scan skips, which joins merge and
which sorts are left out. Between processes there are four pipes: query and limit to the
database, requests and rows to the monitor, commands and data to the disk,
data to the database.

What is hard here, and what makes each part correct:

* **Pool**: three replacement policies over shared bookkeeping with lazily
  deleted list entries; recycling of ids under a cache. Correct: frames and
  page table agree, cached data is what the disk holds, a pinned block stays,
  an id has one owner, a victim search ends and finds what it should.
* **Runs**: boundaries of rows, blocks, prefetch windows and gaps in the ids.
  Correct: reading back gives what was written, from the run's own blocks.
* **Sort, hash join**: streams that change mode in the middle (memory to
  disk), rows carried over the change, ownership of runs split between
  `next()` and `drop()`. Correct: the operator implements the stream it
  promises, whenever it is dropped its runs went back, and none too early.
* **Cross product**: a mode chosen after part of the input has been read; a run
  read again for each chunk, whose ids two owners hold. Correct: every pair of
  rows once, and the run goes back when nothing needs it any more.
* **Merge join**: groups of equal keys on both sides, one of them read again
  for each row of the other. Correct: every pair once for sorted inputs of one
  type, and an end for any.
* **Scan**: binary searches over blocks known by one row each, several
  predicates narrowing one range, one comparison for the search and another for
  the rows, a filter that appears between two calls. Correct: no row that passes
  is skipped where the comparisons agree, no other file is read.
* **Planner**: column sets and orderings carried through a rewriting of the
  whole tree. Correct: the plan finds its columns, and answers the query it was
  given, in the order that was asked for.
* **Session**: three processes over bounded pipes, buffered writers, failure
  of any side at any point. Correct: nobody waits for ever, data and commands
  stay in step, only the complete right answer is accepted.

`PROJECT.json` lists the hazards at their lines with the properties that
cover them.

## 2. Modules

```
OperatorStream                                  abstract: what a row source promises
   ^ refined by: RunReader  ExternalSort  HashJoin  CrossOp  MergeJoin  TableScan

BufferPool   <- MCBufferPool, BufferPoolProofs
RunReader    <- RunReaderProofs
ExternalSort <- ExternalSortProofs
HashJoin     <- MCHashJoin, HashJoinProofs
CrossOp      <- CrossOpProofs
MergeJoin    <- MergeJoinProofs
TableFile    <- TableScan <- MCTableScan        the generator's file, disk layout, scanner
                    ^
                    TableScanProofs             also about TableFile
Queries      <- Planner <- MCPlanner            reference evaluation, plans
Session      <- SessionProofs
```

**BufferPool** - one action per method and branch: `AllocateRecycled`,
`AllocateFresh`, `WriteRawRun`, `WriteRunRecycled` / `WriteRunBlocks`,
`WriteBlocks`, `FreeRun`, `FetchHit`, `FetchMissFree`, `FetchMissFull`,
`Unpin`, `MarkDirty`, `SetPolicy`. The victim search of `find_free_or_evict`
is the only loop whose termination is in doubt, so each of its turns is an
action (`Scan...`), entered by `FetchMissFull`; nothing else is enabled
meanwhile, since the methods take `&mut self`. `disk` is the disk process as
the pool sees it: contents per block, nothing in unwritten scratch blocks,
refusal to write table blocks. Panics are modes (`exhausted`: the pool's own;
`failed`: a disk error unwrapped). `held`, `runs` and `kept` are the callers' side:
pins not undone, runs not freed, runs freed that an operator still lists. `FreeRun` may
leave a run in `kept`, as `next` of a join does, and `FreeAgain` is the second
`free_run`, when the operator is dropped. `MayRecycle` is the callers' part of that:
who frees twice hands out no recycled id in between. `OverwritePinned` says whether
callers may free or write a block they have pinned. Under CLOCK the pin test of the victim scan is
redundant (a fetch sets the referenced bit of the frame it pins and only an
unpinned frame has it cleared) but is kept as in the code. The source notes
(buffer_pool.rs:37-42) that today's operators read past the cache; the frame
cache is modelled because it is the pool's interface, the allocator because
every spill goes through it.

**OperatorStream** is the abstract specification shared by the operators: rows
of a result still to come, delivered each once, in an order that respects
`Before`, and `None` only when nothing is left. RunReader, ExternalSort, HashJoin,
MergeJoin (for inputs that can be merged), TableScan (but for the rows a published
filter rules out and those a misjudged predicate loses) and, for the rows it
keeps, CrossOp are shown to implement it by `INSTANCE ... WITH`:
their `todo` is the set of rows still to be found in whatever place the code
keeps them.

**RunReader** - `WriteRow` packs a row as `rows_to_run_buffer` and `PartitionWriter`
do, `Finish` ends a buffer of rows, and either may end in a `Flush`, which gives
the pending blocks the next ids of the pool, after a gap of those that others
took; `New`, `NextOwned` (with the three ways of `advance`) and `NextNone` are the
reader, which starts when the run is finished.

**ExternalSort** - `FillRow`, `FillOverflow`, `FillEnd`, `Spill`, `OpenMerge` are
the phases of `SortOp::new`, `NextInMemory`, `NextMerged`, `NextNone` the cases
of `next`, `Drop` the destructor. `buffered_bytes` is the code's running count of
what the buffer holds; that it is the size of the rows in it is for the proof to
show (`Counted`), not for the model to assume. A run is its sequence of rows, justified by
RunReader!ReadsBack, and `freed` counts calls of `free_run` with it.

**HashJoin** - `ReadChunk` per side, then `BuildInMemory` or `PartitionLeft` and
`PartitionRight`; `next` is one action per turn of its loop. `ScanFiltered` is
the scan below the right input, which applies the filter from the moment it is
published, but not to rows it has decoded already. Which rows pass is a set
(`Passing`, `InBucket`, `Matching`); `InOrder` and `Chain` are the set of the one
sequence the code makes of such rows, by input order and by last insertion. `Equal`, `Hash`
and `Positions` are constants: any assignment, so collisions, false positives,
partitions and equal keys of different hashes are instances. `Meets` is the code's
test of two rows: one hash and equal keys. The planner's filter goes to the scan of the right input, whichever
side builds. The branch of line 492 for both inputs exhausted is never taken
(the reading loop stops at the first); BuildIsLeft keeps it.

**CrossOp** - `FillRow`, `FillOverflow`, `FillEnd`, `Spill` and `FirstLeft` are
the phases of `CrossOp::new` in their order; `next` is one action per turn of its
loop and mode. `Pending` is the set of pairs that the state of the cursors still
promises. CrossOp does not implement the product of its inputs (`CrossesAll`):
two rows are lost inside `new`. `CrossesKept` is the same refinement from the
moment `new` returns, for the rows it kept.

**MergeJoin** - one action per branch of the loop of `next`: `NextPair`,
`NextLeftInGroup`, `GroupDone`, `SkipLeft`, `SkipRight`, `OpenGroup`, `NextNone`.
A row is its place in its input, so that two equal rows stay two; `Pending` is the
set of pairs that the cursors still promise. The inputs are any sequences of keys, and
`same_type` says whether the right keys have the type of the left column: if not,
`compare_key_data` (`Below`, `Above`, `Alike`) finds every pair equal. `Mergeable` is
what the promised answer needs, inputs in order and of one type; that the loop ends
and the group is there needs neither.

**TableFile** - the generator: `WriteRow` closes a block when the next row does
not fit and updates ordered flag and bounds of every column, `Close` writes the
last block. A value is its place in `total_cmp` and stands for a `Number`, or for none
(`NaNs`): `Less` and `Same` are partial_cmp and == of `Data`, by which the generator
makes its statistics and the predicates are tested, and in which -0.0 is 0.0 and NaN
compares with nothing.

**TableScan** - extends TableFile, so that the statistics are those of the
file scanned: `Layout` gives each file its range and `StartAnon` the scratch
region, `Open` is the entry of `TableScanner::new`, `Prune`, `SkipSearch`,
`StartSearch`, `LowerStep`, `LowerEnd`, `UpperStep` and `UpperEnd` are the loop over
the pushed predicates with one action per turn of a search, `NextRow`,
`NextBatch`, `NextNone` are `next`. `Publish` is the join above setting the dynamic
filter, between any two of these. `Below` and `Above` are the search's own comparison, by
place, for which a literal of another type is equal to everything; `Misjudged`
says that it differs from `Less` on some row for a predicate that is searched or
pruned by. `StatsLoad` is the reading of the statistics: JSON has null for a NaN,
which does not parse as a bound, so there is no scan of such a table.

**Queries** - query trees and their reference answer, written from
`common/src/query.rs` and the schemas of the operators: a filter filters, a
product pairs, a projection picks, a sort sorts.

**Planner** - `Build` is `build_operator_internal` with everything it calls: for
filters over a product the flattening, the split of the predicates, the join
order, the join methods and the columns kept (`JoinRest`), the pushed
predicates and narrowing of the leaves (`BuildLeaf`), the narrowing and the
elision of sorts. A plan is its schema, the rows it returns, the ordering the
planner believes it has, and whether a constructor panicked. Where an operator
promises no order (`Unordered`), both orders are tried.

**Session** - the monitor (`send_query` ... `ended`), the database main loop and
DiskManager, and the disk's command loop, with the four pipes as bounded
sequences. A write to a full pipe waits, to one without reader fails; a read
from an empty one without writer is end of file. The operators inside the
database are any program that sends block commands and yields rows.

An operator whose comment starts with "Mutant" is a plausible wrong version of
the definition after it, used to show that a property notices it. No
specification uses it.

## 3. Model checking

| Run | Question | Result |
|---|---|---|
| pool_pins | LRU, MRU and CLOCK: pins counted and protecting, mapping exact, the searched list never empty, an unpinned frame found | holds |
| pool_cache | runs allocated, overwritten, freed (also twice), recycled, pinned or not: cache equal to disk, one owner per id | holds |
| reader | a run read back is the run written; own blocks only, each once | holds |
| sort | implements the sorted stream; every run freed, once and not early; buffer bounded | holds |
| join | implements the stream of pairs with equal keys of one hash; every run freed and none early; the unwraps succeed | holds |
| cross | every pair of the rows kept, each once; the run held while needed, not leaked | holds |
| cross_rows | the product of the inputs | violated: the overflowing row and the first left row |
| merge | for inputs that can be merged, implements the equi-join stream in left order; for any, groups there and alike, and an end | holds |
| scan | no row that passes is skipped but for a misjudged predicate; statistics and blocks true; files apart; searches stop and stay in the file | holds |
| planner | plans answer their queries, in order, without panic; believed orderings are true | holds |
| plan_panics | the columns a filter between a projection and a sort reads are there | violated: dropped by the sort |
| session | failures anywhere: verdict right, no truncated answer accepted, in step, disk follows, monitor ends unless a failure ends the database during validation | holds |

The two violations are findings in `PROJECT.json`, each with the sentence of
the source that says otherwise. The type invariant of each module is `TypeOK`:
proved (section 4) for every module but Planner, where TLC checks it.

### Where the code is narrower than it looks

Behaviours of the code that the properties allow or are stated around, each
because no query reaches it, because it changes no answer, or because the code
simply does it and no sentence of the source says otherwise:

* *LRU* leaves a duplicate in its list at each hit. The staleness test of
  buffer_pool.rs:268-273 passes every entry (theorem `NeverStale`), also a duplicate
  whose frame was used since, so that the frame evicted may be the one used last
  (`Stale`, `ScanListEvict`). It costs time, not data, so no property forbids it;
  the README of the source speaks of an LRU policy.
* *HashJoin* frees the runs of a partition in `next` (hash_join.rs:748, 810) and, as
  they stay listed, again when it is dropped (627-642), which puts their ids on
  the free list twice; *CrossOp* does so when dropped in the middle of a chunk.
  `freed` reaches 2 in their models, `FreedAfterRead` allows the second call only to
  Drop, and BufferPool has it as `FreeAgain`. The ids could be handed out
  twice if a write of exactly one block followed; no operator issues one
  (buffer_pool.rs:103-111, `WriteRunRecycled`), so a caller either frees twice or
  recycles. That is `MayRecycle`, and with it `NoSharedBlock` holds.
* *Equal keys with different hashes* do not meet in a *hash join*: equal numbers of two
  types (lib.rs:57) and, of one type, 0.0 and -0.0, which are equal (lib.rs:50-56) but
  hashed by their bits (hash_join.rs:221-228). Run join has such keys, in one
  partition and in two; `JoinsAll` promises the pairs of equal keys with one hash.
* *A merge join of keys of two types*: the planner looks at names and ordered flags
  (query_executor.rs:771-834) and at no type, and `compare_key_data` is Equal for
  what it does not know (sort_merge.rs:31, `_ => Equal`). The first left row then
  takes all the right ones for its group. Run merge has such inputs and unsorted
  ones: the loop ends and no unwrap fails (`Ends`, `GroupIsWhole`), but nothing is said
  of the answer. The comparison is total_cmp, so 0.0 and -0.0 are two keys here
  as in the hash join, although a predicate finds them equal.
* *The scan* searches and prunes by total_cmp, with literals of another type Equal to
  everything (table_scanner.rs:59-69), but tests rows by == and partial_cmp, numbers of
  two types as numbers (lib.rs:23-73). So `x >= 0.0` can skip a block with -0.0; `x > 1`
  of a float column, with its bound Equal to an integer, is taken to be
  impossible (84-88) and skips the whole table; and a column 1.0, NaN, 0.0 is marked
  ordered (no row is less than the one before) and searched. Run scan has all of
  these. `ScansAll` lets rows be lost while a scan is opened with such a predicate
  (`DropsMisjudged`), and at no other time and by no other; without that disjunct it
  fails.
* *The monitor* reads end of file for ever if the database ends between
  `validate` and `!` (monitor main.rs:122-133): `EndsUnlessLost` names the
  exception, and theorem `LostStays` says that it lasts.
* *The planner* chooses a merge join by what the catalog notes of the column
  names (799), not by the ordering of the plan. The queries of run planner have
  leaves that are tables, filtered or renamed, where both agree. Set
  `QuerySet` of planner.cfg to `SortedInput` (a leaf sorted again), `JoinedInput`
  (a leaf that is itself a join) or `SwappedNames` (a column under another one's
  name) and `AnswersQuery` fails; with `AllColumns`, a query without projection
  on top, columns are missing, since line 76 keeps those that the query names.
* *Join order*: the source's README says the planner reorders joins by
  cardinality. The code computes estimates and does not use them; it takes the
  first leaf that an equality joins, which is what `FirstPair` does.

### Bounds

* *Pool*: one or two frames and one more block than frames force eviction,
  and two frames are what a wrong order or a wrong choice of victim needs.
  A miss ends with a new entry, so its search begins with fewer than `MaxLru`
  entries: in pool_pins, where it is 4, both frames and a duplicate of
  one of them, which is the least in which an entry is put back behind a duplicate;
  longer lists are the matter of the theorems. Two block contents tell stale from
  fresh; they are symmetric. pool_cache has a table block and `MaxAnon` 2
  scratch blocks, one run of two or two runs of one, recycled in any order; `MaxFree` 4
  has room on the free list for both blocks twice. `MaxPins` 2 lets one of two
  fetches of a block be undone.
* *Reader*: up to six rows of sizes 1 to 3 in blocks of 3 units give one to six
  blocks with one to three rows each, flushed alone or together, with a gap of
  no or one id; a window of 2 ends before, at and after gaps and flush boundaries.
* *Sort*: five rows of two keys and two sizes, one of which alone exceeds the
  budget: everything in memory, exactly at the budget, two to five runs,
  ties within and across runs.
* *Join*: inputs of up to three rows over four keys: two keys with one hash, a
  third in the same partition whose filter bits are a subset, a fourth in the
  other partition; one pair equal with different hashes in one partition, another in
  two; chunks of two rows, so inputs end in, at and after a chunk;
  a limit of three rows, so either side builds or both spill.
* *Cross*: up to five rows on either side, of which two right rows fit in the
  budget, so that the input fits, overflows with its last row, and goes on after
  it; left chunks of two rows, so the left input ends in, at and after a chunk.
* *Merge*: up to four rows on either side over three keys, in any order and of one
  type or two: groups of one to four rows on both sides, at the start, in the middle
  and at the end, equal and missing keys, empty inputs.
* *Scan*: values -0.0, 0.0, 1.0, NaN and a larger one, all there is to tell the two
  comparisons apart; up to four rows, of one or two units in blocks of two, so up to four
  blocks of one or two rows, in order or not, with equal keys within and across
  blocks; literals below, at, between and above the values and of another type,
  one or two predicates; batches of two blocks; one other file before or after the table.
* *Planner*: three tables with columns ordered by none, one or all, keys in
  common once, often and never, one table empty; joins of two and three of
  them over one or two equalities and other comparisons, written either way,
  sorted or not by one or two columns, projected in three ways: about 200
  queries, each over every choice of data.
* *Session*: pipes and buffer of one message are the tightest possible (a
  larger pipe blocks less); answers of up to two lines, right, wrong, short,
  long and in another order; transfers of two chunks, so that failures fall
  inside one. `MaxPadding` bounds the empty lines recorded after end of file.

### Fairness and stopping

The pool of pool_pins starts with any policy and may change to CLOCK at any time; that
of pool_cache starts with CLOCK and may change to LRU. The code calls
set_eviction_policy once, with the policy the pool already has
(query_executor.rs:287). A search after a change from CLOCK to a list policy would
find the list without the frames fetched under CLOCK, which keeps none; the
theorems about the search exclude that change (`ListsKept`): `PanicUnreachable`,
`SearchEnds`, `SearchGoesOn` and `HangsWhenPinned`.

`WF(Scan)`: the victim search is a loop in sequential code. `WF(Next)` in
MergeJoin and `WF(ScanNext)` in TableScan: a parent that keeps calling `next` of an
operator that loops in one thread; the generator, the layout and the publishing of
a filter are not fair, for they may never happen. Session: weak fairness of each
process - a process that can take a step is scheduled - and none for failures,
which may never happen. `CHECK_DEADLOCK FALSE` is set where the system really
stops: the pool has panicked or its bounds are reached, an operator is dropped, the
session has ended. In Session `EndsUnlessLost` does what the deadlock check would.

The victim search ends only if some frame is unpinned: with all frames
pinned and listed, the scan of lines 262-304 pushes back whatever it pops, and the
panic written for that case is not reached (theorem `HangsWhenPinned`). The model
has this loop; `ScanFinds` therefore asks for an end only when there is something
to find. No caller pins frames today.

## 4. Proofs

Besides invariants and refinements, each module proves what its liveness rests
on, in two parts. *Steps lead on* (the theorems `...Ends`): a tuple of natural
numbers, `Work`, falls with every step in the lexicographic order, in which
nothing falls for ever (`OrderWellFounded`); a step may add to what comes later
in the tuple, as when a merge join reads a group once more for the next left row.
*Steps go on* (`...GoesOn`): the code finds what its next step indexes, unwraps or
chooses from, stated as `CanTurn`, so a step that is due can be taken (for the
scan `NeverBreaks`, for the session `Unstuck`). What is missing from liveness is
only that it is taken.

### BufferPoolProofs

For every number of frames, blocks and contents, every set of policies and
every bound:

* `TypeCorrect`: `Spec => []TypeOK`.
* `MappingExact`, `Coherence`: `PageTableExact` and `CacheCoherent`. Neither is
  inductive alone: while a victim is searched one has to know that the wanted
  block is mapped nowhere and that every frame holds a block. `CacheInv` adds
  both. The argument is one lemma for unmapping (`UncacheExact`, which needs
  that page table and frames agree, or the code's test would miss a frame),
  one for loading and one for evicting.
* `Ownership`: `NoSharedBlock`. Not inductive alone: a fresh range is disjoint
  from everything because everything lies below the watermark, so `AllocInv` adds
  `BelowWatermark`, also for the runs of `kept`. Runs freed and still listed may have
  their blocks on the free list, once or twice, and keep out of the runs in use
  because no recycled id is handed out meanwhile (`MayRecycle`).
* `PinCounts`, `PinnedStays`: `PinsMatch` and `PinProtects`, assuming
  `~OverwritePinned`: callers do not free or write what they have pinned.
  Without it they fail: `free_run` and the writes unmap a frame and leave its
  pin count.
* `PanicUnreachable`: `NotExhausted`, assuming `ListsKept`: CLOCK is never left for
  another policy. The invariant (`ListInv`) says that every frame that holds a block
  has an entry in the list. Loads and hits only add entries; the search takes one
  off for good only when it evicts the frame and loads another block into it, since
  it puts pinned ones back and never finds one stale. The list does not run empty,
  whatever is pinned.
* `NeverStale`: the test for stale duplicates rejects no entry, ever. It asks whether
  the page table maps the frame's *present* block to the frame, which it always
  does (`MappingExact`), and not whether the entry was pushed for that block.
* `SearchEnds`, `SearchGoesOn`, under `ListsKept`: while some frame is unpinned, each
  turn of the victim search ends it or lowers `Work`: first the second chances
  CLOCK has still to take away, then `Distance`, the turns until an unpinned frame
  is looked at, in the list from either end or with the hand. That there is one
  to be met is `ListInv` again; a turn that skips brings every frame one nearer.
* `HangsWhenPinned`, under `ListsKept`: with no frame unpinned the search never
  leaves its loop and changes no frame.

### MergeJoinProofs

For inputs of any length over any keys, in order or not, of one type or two:
`Grouped` (`GroupIsWhole`) and `Merges`, the refinement `Spec => MergesAll`. The
invariant is `TypeOK`, `GroupIsWhole` - the group is a stretch of right rows like the
pending left row, and for mergeable inputs all of them, with every right row
before it below every left row to come - and that `None` is only returned with
nothing left. Each branch of the loop is then, for mergeable inputs, a `Deliver`, an
`End` or a step that leaves the promised pairs alone: a row is skipped only when its
key can no longer be met, which is where sortedness enters.

`LoopEnds`, `LoopGoesOn`, for any inputs: `Work` is left rows, right rows, pairs of the
group; in every state a branch of the loop applies, its unwrap (109) finds the key, and
the collecting of a group ends.

### TableScanProofs

For any table, block size, number and sizes of files, lists of predicates and
filters:

* `Types`: the range of a scan and the bounds of its searches stay in order and
  in the table's file; `OwnFile` (`ReadsOwnFile`) follows.
* `Covers`, `Statistics`: `BlocksCoverRows` and `StatsTrue` of the generator, from
  the invariant that what is closed is a prefix and that the last element seen
  is the last row.
* `Apart`: `FilesApart`, by the watermark `current_position`, above the end of every
  file placed by more than zero blocks.
* `Scans`: `ScansAll`. Its invariant says that every row that passes lies in the
  range of blocks, while the predicates are `Judged` (none is misjudged). A step of a
  search keeps that for what it has cut off, by the order of the column, which
  `Statistics` gives for a column with the ordered flag and no NaN, and pruning by
  the bounds being true. Where the two comparisons agree and some row differs from
  the literal, the column has no NaN (`NumbersOnly`), and then a row beside one
  beyond the literal can be judged by it (`BesideLiteral`). `Prune` and `SearchDone`, where
  the scan begins, keep all that matches if every predicate is judged
  (`OpeningKeeps`) and are `DropsMisjudged` if not (`OpeningDrops`).
* `ScanEnds`: `Work` is predicates, searches for the predicate, blocks not ruled out
  or read, rows of the batch; only the one publishing of a filter comes between.
  `Logarithmic`: a step of a search at least halves its range. `NeverBreaks`: the
  block it looks at has rows, so the breaks of 142 and 169 are not taken; the second
  would cut off blocks that nobody has looked at.

### RunReaderProofs

For rows, blocks, prefetch windows, flushes and gaps of any size: `OwnBlocks`
(`ReadsOwnBlocks`), `Once` (`ReadsOnce`) and `Reads`, the refinement
`Spec => ReadsBack`, on which the other modules rest when they take a run as its
sequence of rows. The invariant is `TypeOK` and

* `Packed`: the blocks stored, those pending and the current one hold the rows
  written, each block going on where the one before ends (`Linked`), none empty.
  A current block has no more rows than bytes used, so its u16 count does not wrap
  in blocks of up to 64 KiB (`NoWrap`);
* `IdsIncrease`: ids of a run increase and lie below those still to be given, so a
  flush overwrites no block of the run (`Flushed`);
* `Window`: what was prefetched are the blocks of the run from the window's start.
  The code reads a range of ids and tests only that neighbours differ by one; that
  the k-th id read is the k-th of the run is an induction over k (`Loaded`),
  carried out over a set of numbers (`Inductive`);
* `Positioned`: the reader stands on the row after those it has returned.

`ReadGoesOn`: from every block of a run there is one prefetch batch and only one
(`BatchFound`), and the next row and block are in bounds. The code answers the
contrary with `None` or an empty batch (196, 221, 248, 275), which would cut a run
short without a word; it is never asked to. `ReadEnds`: each row returned is one
less of those written.

### ExternalSortProofs

For inputs of any length, rows of any size and any budget: `Frees`
(`FreedOnce`), `Bounded` (`BufferBounded`, from `Counted`: the
running count is the size of the buffered rows, a fact about the cardinality of
a growing set), `Covers` (`HeapCoversRuns`: every run with rows
left has its current row in the heap), and `Sorts`, the refinement
`Spec => SortsInput`. The invariant says that a row is in one place only - input,
buffer, overflow row or one run (`OnePlace`) -, that runs are in key order
(`Arranged`), and which of these places are empty in which phase (`Phased`).
Sorting a buffer is a choice among the arrangements of a finite set; that such a
sequence has each of its rows once is a fact about cardinalities. The merged row
is the least row left because it is the least of the heap, the heap holds the
first row of every run, and runs are sorted.

`SortEnds`: `Work` is stages, rows of the input, the overflow row, the buffer, filling
before spilling, rows to return. `SortGoesOn`: a buffer can be arranged, the last
spill has rows to write, and a heap that is not empty has a least row, whose run
has a next row or is at its end.

### CrossOpProofs

For inputs, budgets and chunks of any size: `Holds` and `Leaks`
(`HeldWhileRead`, `NothingLeaked`) and `Crosses`, the refinement
`Spec => CrossesKept`. The invariant has again one place per row, and the
separation of the modes: in memory there is no run, on disk no buffer, and the run
is owned as long as a left row is to come. `Pending` is then a product of what is
left of one side and what is left of the other, and each step takes off one pair
or moves a row from one factor to the other.

`LoopEnds`: `Work` is stages, rows of the inputs, the chunk, right rows to meet, left
rows of the chunk to meet the right one. `LoopGoesOn`: a chunk has its reader, which
214 unwraps, and its left row (217); in memory the left row is gone only after
the last one.

### HashJoinProofs

For inputs, budgets, chunks, partitions, hash functions and filter positions of
any size and kind, and any equality of keys: `RowKept` (`ProbeRowKept`), `Frees`
(`FreedAfterRead`), and `Joins`, the refinement `Spec => JoinsAll`. Nothing is assumed of
how hashes and equality go together: what is promised are the pairs that
`Meets` finds, the rest being the matter of section 3.

The invariant is `TypeOK`, `OnePlace` (a row is in one place of its side, a
partition holds rows of its own number, the build table those of a number already
passed), `Matched` (the matches are for the row that left the probe input), `Phased`
and `Freed` (a run that is still to be read has not been freed). For the
refinement:

* a chunk read moves rows between two places whose union counts (`ChunkRead`);
* a filtered scan loses a row only if its bits are not all set, and the bits of a
  key that is in the table are (`PassesBits`), so no pair is lost at the moment a
  filter is published (`BuildInMemorySilent`, `PartitionLeftSilent`) or when a probe
  row is turned away by it (`ProbeSilent`);
* keys of one hash go to partitions of one number, so the pairs of the inputs are the
  union of the pairs of the partitions (`PartitionRightSilent`);
* a returned pair is promised nowhere else: its match is taken off, its probe
  row is not to come again, and no later partition holds its build row
  (`NextMatchDelivers`).

`LoopEnds`: `Work` is stages, rows of the inputs, partitions, the run that is open, its
rows, matches. `LoopGoesOn`: what the loops choose from is there - the rows of each
partition and of a filtered scan in the order they came in, which takes that no
two rows to come have one identity (`KnownById`), the chain of a probe row, and the
probe row of every match.

### SessionProofs

For pipes, BufWriter, transfers and answers of any size, any failures at any
point: `Types`, `Truthful` (`NoFalseSuccess`), `Blameless` (`FailsForCause`),
`Paced` (`InStep`) and `Unstuck`. One inductive invariant gives all of them:

* `Shape`: what the buffers hold where the processes are, for instance an empty
  `monitor_out` where the code has just flushed it;
* `Engaged`: block transfers go on only in the three places that ask for blocks;
* `Talk`: the dialogue with the monitor is one sequence of lines fixed by the answer
  (`LineOf`). Some number of its lines has been read, the next ones are in
  `results`, the next in `monitor_out` (`Lined`); that number says where the monitor is
  (`Position`), and the number printed where the database is (`Progress`). Only a
  failure ends the database anywhere else;
* `Outcome`: the two verdicts, which follow because who reads `!` has read every row
  before it, and who reads end of file instead of a line has met a failure;
* `Framing`: a put is a command followed by chunks in one pipe. `f` counts, behind
  each message in the pipe, the chunks still due; what the disk expects next is its
  value at the front, what the database sends next its value at the end;
* `Pace`: the get that is awaited is the last command in the pipe, or the one
  being served, or served, and there is no other.

`Unstuck` is the absence of deadlock. `MonitorCan`, `DatabaseCan` and `DiskCan` are
the guards of the actions of the three processes, written out since the prover has
no ENABLED (reading end of file once more does not count as a step of the
monitor). A process waits in a cycle only through two pipes: by `Pace` a database
that cannot send has a disk that is not sending (`ExchangeMoves`), and by `Talk` a
monitor that waits for a line has a database with something to read, to print or
to flush (`EmptyMoves`). A monitor that has returned reads nothing more; the
invariant says that the database has ended by then, so nobody waits for it to.
What is left is `Lost`, the exception of `EndsUnlessLost`.

`SessionEnds`: every step of any process, also a failure, lowers `Work`, except the one
by which a monitor whose database is lost reads end of file again. `Work` follows
the flow of the data: what the database has to do, what the disk has to do with
the commands it got, what the monitor has to do with the lines it got; a step of
one may add to the work of those behind it only. It takes one more invariant
(`Opening`): a database that opens the disk has asked for its metadata only.
`LostStays`: nothing ends `Lost`. Together with `Unstuck` this is `EndsUnlessLost` but
for fairness.

Assumptions: `PoolAssumption`, `ReaderAssumption`, `SortAssumption`, `JoinAssumption`, `CrossAssumption`,
`MergeAssumption`, `FileAssumption`, `ScanAssumption` and `SessionAssumption`, the conditions on constants stated in the modules and
evaluated by TLC in their runs, and the hypotheses named above. Nothing is
taken as an axiom.

Only model-checked:

* liveness (`ScanFinds`, `Ends` of MergeJoin and TableScan, `EndsUnlessLost`,
  `DiskFollows`): the prover handles neither fairness nor ENABLED. The parts that
  need none are proved: `SearchEnds` and `SearchGoesOn` for `ScanFinds`, `LoopEnds` and
  `LoopGoesOn` for `Ends` of MergeJoin, `ScanEnds` and `NeverBreaks` for `Ends` of
  TableScan, `SessionEnds`, `Unstuck` and `LostStays` for `EndsUnlessLost`;
* Planner: its plans are built by recursive operators over query trees, and an
  invariant over all trees would be an induction over them, which the prover
  cannot carry out. Nor is it true of all trees: `NoPanic`, `AnswersQuery`,
  `SortedAsAsked` and `OrderingTrue` hold for the queries of run planner, and run
  plan_panics and section 3 have queries for which they fail.

## 5. Not modelled

* JoinOp: nothing constructs it; the planner uses CrossOp under a FilterOp.
* How much a reader of the sort prefetches (sort.rs:186-193): arithmetic that
  changes no row. By reading: its minimum of 8 blocks per reader can exceed the
  quarter of the budget its comment speaks of.
* The bytes of a row: encoding and decoding are each other's inverse by
  construction of RunReader's blocks, and TableScan takes rows decoded.
* The split of the memory limit between pool, sort and overhead
  (`database/src/main.rs`): constants of the operators.
* Cardinality estimates: computed and not used. Histograms: written and not
  read. Distinct counts: only as `Dense`, a constant of Planner.
* Disk I/O metrics: floating-point accounting nothing depends on.
* Configuration records, query printer: no state.
* Starting the processes: it has succeeded in Init.

## 6. Plan

Done: every component of section 1 but those of section 5. Left:

1. Lemmas about the planner's pieces that need no recursion: `Narrow`,
   `RemapOrderingForProject` and `OrderingSatisfies` keep `OrderingTrue`.
2. TableScan under a HashJoin that publishes its filter: today each is checked
   against the other's promise (`ScanFiltered`, `Publish`).
