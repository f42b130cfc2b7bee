------------------------------ MODULE Planner ------------------------------
(***************************************************************************)
(* The planner (database/src/query_executor.rs): it turns a query into a   *)
(* tree of operators, rewriting filters over cross products into joins,    *)
(* pushing predicates and a join filter into the scans, dropping columns   *)
(* nobody needs and sorts whose order is there already.                    *)
(*                                                                         *)
(* A plan stands for the operator with the rows it will return: how an     *)
(* operator computes them is the business of its own module.  The planner  *)
(* panics where an operator does not find a column in its child's schema.  *)
(***************************************************************************)
EXTENDS Queries

CONSTANTS
    Base(_),     \* a column name without its alias: "x.a" is "a"
    Dense,       \* columns whose density, if known, is at least 0.10
    QuerySet, DataSet

ASSUME PlannerAssumption ==
    \A d \in DataSet : DOMAIN d = DOMAIN Catalog

VARIABLES
    data,        \* table -> its rows
    reversed,    \* the order of rows where an operator promises none
    query, plan  \* both {} until the monitor has sent the query

vars == <<data, reversed, query, plan>>

Plan(schema, rows, ordering) ==
    [schema |-> schema, rows |-> rows, ordering |-> ordering, panicked |-> FALSE]
Panic == [Plan(<<>>, <<>>, <<>>) EXCEPT !.panicked = TRUE]

Unordered(rows) == IF reversed THEN Reverse(rows) ELSE rows

-----------------------------------------------------------------------------
(* The catalog.  A column is marked ordered as the file is (see TableFile).*)
IsPhysicallyOrdered(t, c) ==
    LET n == FirstIndex(Catalog[t], c)
    IN  /\ data[t] # <<>>
        /\ \A i, j \in DOMAIN data[t] : i <= j => data[t][i][n] <= data[t][j][n]

IsPhysicallyOrderedColumn(c) ==
    \E t \in DOMAIN Catalog, n \in {c, Base(c)} :
       n \in ToSet(Catalog[t]) /\ IsPhysicallyOrdered(t, n)

CanUseOrderedMergeJoin(l, r) ==
    /\ IsPhysicallyOrderedColumn(l) /\ IsPhysicallyOrderedColumn(r)
    /\ {Base(l), Base(r)} \subseteq Dense

(* Orderings.  A projection keeps an ordering up to the first column that  *)
(* it drops.  Mutant: it leaves out just the columns that it drops.        *)
RemapOrderingSkipping(ordering, map) ==
    Map(SelectSeq(ordering, LAMBDA o : FirstIndex(Froms(map), o[1]) # 0),
        LAMBDA o : <<Tos(map)[FirstIndex(Froms(map), o[1])], o[2]>>)

RemapOrderingForProject(ordering, map) ==
    LET dropped == SelectInSeq(ordering, LAMBDA o : FirstIndex(Froms(map), o[1]) = 0)
    IN  Map(IF dropped = 0 THEN ordering ELSE SubSeq(ordering, 1, dropped - 1),
            LAMBDA o : <<Tos(map)[FirstIndex(Froms(map), o[1])], o[2]>>)

(* Mutant: a descending order will do for an ascending one.                *)
OrderingSatisfiesEitherWay(ordering, specs) ==
    /\ Len(specs) <= Len(ordering)
    /\ \A k \in DOMAIN specs : specs[k][1] = ordering[k][1]

(* An ordering of no columns stands for None; a sort has some columns.     *)
OrderingSatisfies(ordering, specs) ==
    Len(specs) <= Len(ordering) /\ \A k \in DOMAIN specs : specs[k] = ordering[k]

-----------------------------------------------------------------------------
(* The operators.                                                          *)
NewFilter(child, preds) ==
    IF child.panicked \/ ~(UNION { ColumnsOf(p) : p \in ToSet(preds) } \subseteq ToSet(child.schema))
    THEN Panic
    ELSE [child EXCEPT !.rows = SelectSeq(@, LAMBDA r : PassesAll(preds, child.schema, r))]

(* ProjectOp::next.  It knows three ways of picking values: none to do if  *)
(* they are all of the row, one pass over the row if they stand in its     *)
(* order, and one by one.                                                  *)
InRowOrder(at) == \A j, k \in DOMAIN at : j < k => at[j] < at[k]

Projected(at, r) ==
    IF at = [k \in DOMAIN r |-> k] THEN r
    ELSE IF InRowOrder(at)
         THEN Map(SelectSeq([k \in DOMAIN r |-> k], LAMBDA k : k \in ToSet(at)), LAMBDA k : r[k])
         ELSE Map(at, LAMBDA k : r[k])

NewProject(child, map) ==
    IF child.panicked \/ ~(ToSet(Froms(map)) \subseteq ToSet(child.schema))
    THEN Panic
    ELSE Plan(Tos(map), Map(child.rows, LAMBDA r : Projected(Positions(child.schema, Froms(map)), r)),
              RemapOrderingForProject(child.ordering, map))

(* A projection to the columns of needed, if it keeps some and not all.    *)
Narrow(child, needed) ==
    LET keep == SelectSeq(child.schema, LAMBDA c : c \in needed)
    IN  IF keep = <<>> \/ Len(keep) = Len(child.schema)
        THEN child
        ELSE NewProject(child, Map(keep, LAMBDA c : <<c, c>>))

(* Mutant: the columns of the right input are not named.                   *)
NewCrossLeftSchema(left, right) ==
    Plan(left.schema, Unordered(Pairs(left.rows, right.rows)), <<>>)

NewCross(left, right) ==
    IF left.panicked \/ right.panicked
    THEN Panic
    ELSE Plan(left.schema \o right.schema, Unordered(Pairs(left.rows, right.rows)), <<>>)

NewHashJoin(left, right, l, r) ==
    Plan(left.schema \o right.schema,
         Unordered(SelectSeq(Pairs(left.rows, right.rows),
                             LAMBDA x : x[l] = x[Len(left.schema) + r])),
         <<>>)

(* The rows of the merge join, whether its inputs are sorted or not: it    *)
(* pairs the runs of equal keys that it finds next to each other.          *)
RECURSIVE Merged(_, _, _, _)
Merged(L, R, l, r) ==
    IF L = <<>> \/ R = <<>> THEN <<>> ELSE
    CASE Head(L)[l] < Head(R)[r] -> Merged(Tail(L), R, l, r)
      [] Head(L)[l] > Head(R)[r] -> Merged(L, Tail(R), l, r)
      [] Head(L)[l] = Head(R)[r] ->
            LET key == Head(L)[l]
                m == SelectInSeq(L, LAMBDA x : x[l] # key)
                n == SelectInSeq(R, LAMBDA x : x[r] # key)
                i == IF m = 0 THEN Len(L) ELSE m - 1
                j == IF n = 0 THEN Len(R) ELSE n - 1
            IN  Pairs(SubSeq(L, 1, i), SubSeq(R, 1, j))
                   \o Merged(SubSeq(L, i + 1, Len(L)), SubSeq(R, j + 1, Len(R)), l, r)

NewSortMergeJoin(left, right, l, r) ==
    Plan(left.schema \o right.schema, Merged(left.rows, right.rows, l, r),
         << <<left.schema[l], TRUE>> >>)

NewSort(child, specs) ==
    IF child.panicked \/ \E k \in DOMAIN specs : FirstIndex(child.schema, specs[k][1]) = 0
    THEN Panic
    ELSE Plan(child.schema,
              SortSeq(Unordered(child.rows), LAMBDA r, s : PrecedesBy(specs, child.schema, r, s)),
              specs)

(* A scan reads the needed columns only.  The pushed predicates and the    *)
(* join filter name columns of the table; those it has not are ignored.    *)
NewScan(t, global, pushed, filters) ==
    LET all    == Catalog[t]
        needed == SelectSeq(all, LAMBDA c : c \in global \/ global = {})
        schema == IF needed = <<>> THEN <<all[1]>> ELSE needed
        ordered == SelectInSeq(schema, LAMBDA c : IsPhysicallyOrdered(t, c))
        Kept(r) == /\ \A k \in DOMAIN pushed :
                         pushed[k].column \in ToSet(schema) => Passes(pushed[k], all, r)
                   /\ \A f \in filters :
                         f.column \in ToSet(schema) => r[FirstIndex(all, f.column)] \in f.keys
    IN  Plan(schema, Map(SelectSeq(data[t], Kept), LAMBDA r : Pick(all, schema, r)),
             IF ordered = 0 THEN <<>> ELSE << <<schema[ordered], TRUE>> >>)

-----------------------------------------------------------------------------
(* get_all_used_columns                                                    *)
RECURSIVE UsedColumns(_)
UsedColumns(q) ==
    CASE q.op = "Scan"    -> {}
      [] q.op = "Filter"  -> UsedColumns(q.child) \cup UNION { ColumnsOf(p) : p \in ToSet(q.preds) }
      [] q.op = "Project" -> UsedColumns(q.child) \cup ToSet(Froms(q.map))
      [] q.op = "Cross"   -> UsedColumns(q.left) \cup UsedColumns(q.right)
      [] q.op = "Sort"    -> UsedColumns(q.child) \cup { s[1] : s \in ToSet(q.specs) }

(* A stack of filters, and what is under it.                               *)
RECURSIVE Innermost(_), AllPredicates(_), FlattenCross(_)
Innermost(q) == IF q.op = "Filter" THEN Innermost(q.child) ELSE q

AllPredicates(q) == IF q.op = "Filter" THEN q.preds \o AllPredicates(q.child) ELSE <<>>

FlattenCross(q) ==
    IF q.op = "Cross" THEN FlattenCross(q.left) \o FlattenCross(q.right) ELSE <<q>>

(* The first leaf that has column c, 0 for none; a predicate is scalar if  *)
(* one leaf has all its columns.                                           *)
Owner(schemas, c) == SelectInSeq(schemas, LAMBDA s : c \in ToSet(s))

IsScalar(p, schemas) ==
    /\ Owner(schemas, p.column) # 0
    /\ IsColumn(p) => Owner(schemas, p.other) = Owner(schemas, p.column)

(* The pairs of a leaf not joined yet and an equality that joins it to the *)
(* columns there are.  Mutant: any comparison of two columns will do.      *)
Forward(p, schema, leaf)  == p.column \in ToSet(schema) /\ p.other \in ToSet(leaf)
Backward(p, schema, leaf) == p.other \in ToSet(schema) /\ p.column \in ToSet(leaf)
Links(p, schema, leaf)    == IsColumn(p) /\ (Forward(p, schema, leaf) \/ Backward(p, schema, leaf))

JoinableAnyOperator(schema, schemas, joined, remaining) ==
    { x \in (DOMAIN schemas \ joined) \X DOMAIN remaining :
        Links(remaining[x[2]], schema, schemas[x[1]]) }

Joinable(schema, schemas, joined, remaining) ==
    { x \in (DOMAIN schemas \ joined) \X DOMAIN remaining :
        remaining[x[2]].operator = "EQ" /\ Links(remaining[x[2]], schema, schemas[x[1]]) }

FirstPair(S) == CHOOSE x \in S : \A y \in S : x[1] < y[1] \/ (x[1] = y[1] /\ x[2] <= y[2])

(* What a join must keep: the columns the operators above need, those of   *)
(* the predicates that remain, and those of the leaves still to come.      *)
(* Mutant: the predicates that remain are forgotten.                       *)
StillNeededAbove(above, remaining, scalar, joined) == above

StillNeeded(above, remaining, scalar, joined) ==
    above \cup UNION { ColumnsOf(p) : p \in ToSet(remaining) }
          \cup UNION { UNION { ColumnsOf(p) : p \in ToSet(scalar[i]) } : i \in DOMAIN scalar \ joined }

-----------------------------------------------------------------------------
RECURSIVE Build(_, _, _, _, _), BuildLeaf(_, _, _, _), JoinRest(_, _, _, _)

(* build_operator_internal: global is the set of columns the query names,  *)
(* above that of the columns the operators above read, {} if unknown.      *)
Build(q, global, above, pushed, filters) ==
    CASE q.op = "Scan" -> NewScan(q.table, global, pushed, filters)
      [] q.op = "Filter" /\ Innermost(q).op = "Cross" ->
            LET leaves  == FlattenCross(Innermost(q))
                schemas == Map(leaves, Schema)
                preds   == AllPredicates(q)
                join    == [leaves |-> leaves, schemas |-> schemas,
                            scalar |-> [i \in DOMAIN leaves |->
                               SelectSeq(preds, LAMBDA p : IsScalar(p, schemas)
                                                           /\ Owner(schemas, p.column) = i)],
                            global |-> global, above |-> above]
            IN  JoinRest(join, BuildLeaf(leaves[1], join.scalar[1], global, {}), {1},
                         SelectSeq(preds, LAMBDA p : ~IsScalar(p, schemas)))
      [] q.op = "Filter" /\ Innermost(q).op # "Cross" ->
            NewFilter(Build(q.child, global, above, <<>>, filters), q.preds)
      [] q.op = "Project" ->
            NewProject(Build(q.child, global, ToSet(Froms(q.map)), <<>>, filters), q.map)
      [] q.op = "Cross" ->
            NewCross(Build(q.left, global, above, <<>>, {}), Build(q.right, global, above, <<>>, {}))
      [] q.op = "Sort" ->
            LET needs  == above \cup { s[1] : s \in ToSet(q.specs) }
                child  == Build(q.child, global, needs, <<>>, filters)
                narrow == IF above = {} THEN child ELSE Narrow(child, needs)
            IN  IF OrderingSatisfies(narrow.ordering, q.specs) THEN narrow ELSE NewSort(narrow, q.specs)

(* build_leaf_with_filter                                                  *)
BuildLeaf(leaf, scalar, global, filters) ==
    LET pushed == SelectSeq(scalar, LAMBDA p : ~IsColumn(p) /\ p.operator # "NE")
        op     == Build(leaf, global, {}, pushed, filters)
    IN  Narrow(IF scalar = <<>> THEN op ELSE NewFilter(op, scalar), global)

(* The loop of the join rewrite.  The filter a hash join hands to the scan *)
(* of its right input holds the keys of the left one.                      *)
JoinRest(join, left, joined, remaining) ==
    LET pairs == Joinable(left.schema, join.schemas, joined, remaining)
    IN  IF left.panicked THEN Panic ELSE
        CASE joined = DOMAIN join.leaves ->
                IF remaining = <<>> THEN left ELSE NewFilter(left, remaining)
          [] joined # DOMAIN join.leaves /\ pairs # {} ->
                LET leaf  == FirstPair(pairs)[1]
                    p     == remaining[FirstPair(pairs)[2]]
                    fwd   == Forward(p, left.schema, join.schemas[leaf])
                    lcol  == IF fwd THEN p.column ELSE p.other
                    rcol  == IF fwd THEN p.other ELSE p.column
                    merge == joined = {1} /\ CanUseOrderedMergeJoin(lcol, rcol)
                    l     == FirstIndex(left.schema, lcol)
                    right == BuildLeaf(join.leaves[leaf], join.scalar[leaf], join.global,
                                IF merge THEN {} ELSE {[column |-> rcol,
                                                        keys |-> { x[l] : x \in ToSet(left.rows) }]})
                    r     == FirstIndex(right.schema, rcol)
                    both  == IF right.panicked \/ r = 0 THEN Panic
                             ELSE IF merge THEN NewSortMergeJoin(left, right, l, r)
                             ELSE NewHashJoin(left, right, l, r)
                    rest  == RemoveAt(remaining, FirstPair(pairs)[2])
                    done  == joined \cup {leaf}
                IN  JoinRest(join,
                             IF join.above = {} THEN both
                             ELSE Narrow(both, StillNeeded(join.above, rest, join.scalar, done)),
                             done, rest)
          [] joined # DOMAIN join.leaves /\ pairs = {} ->
                LET leaf == CHOOSE i \in DOMAIN join.leaves \ joined :
                               \A k \in DOMAIN join.leaves \ joined : i <= k
                IN  JoinRest(join,
                             NewCross(left, BuildLeaf(join.leaves[leaf], join.scalar[leaf], join.global, {})),
                             joined \cup {leaf}, remaining)

-----------------------------------------------------------------------------
Init ==
    /\ data \in DataSet /\ reversed \in BOOLEAN
    /\ query = {} /\ plan = {}

(* The database receives its query and runs the plan to its end.           *)
Execute(q) ==
    /\ query = {}
    /\ query' = {q}
    /\ plan' = {Build(q, UsedColumns(q), {}, <<>>, {})}
    /\ UNCHANGED <<data, reversed>>

Next == \E q \in QuerySet : Execute(q)

Spec == Init /\ [][Next]_vars

-----------------------------------------------------------------------------
(* A row of a plan has a value for every column of its schema.             *)
TypeOK ==
    /\ \A p \in plan : /\ p.panicked \in BOOLEAN
                       /\ \A r \in ToSet(p.rows) : DOMAIN r = DOMAIN p.schema
                       /\ \A o \in ToSet(p.ordering) : o[1] \in ToSet(p.schema) /\ o[2] \in BOOLEAN
    /\ query = {} <=> plan = {}

(* The plan finds every column where it looks for it: no filter, project,  *)
(* sort or join is put above a plan that has dropped its columns.          *)
NoPanic == \A p \in plan : ~p.panicked

(* The plan returns the rows the query asks for, each as often as it asks  *)
(* for it: whatever the join order, the join methods, the predicates and   *)
(* join filters that are pushed down and the columns that are dropped.     *)
AnswersQuery ==
    \A q \in query, p \in plan :
       p.panicked \/ (p.schema = Schema(q) /\ ToBag(p.rows) = ToBag(Answer(q, data)))

(* The rows come in the order the query asks for, with the sort left out   *)
(* or not.                                                                 *)
SortedAsAsked ==
    \A q \in query, p \in plan : p.panicked \/ SortedBy(Asked(q), p.schema, p.rows)

(* The order the planner believes a plan to have is the one it has: sorts  *)
(* are left out on the strength of it.                                     *)
OrderingTrue == \A p \in plan : SortedBy(p.ordering, p.schema, p.rows)
=============================================================================
