------------------------------ MODULE Queries ------------------------------
(***************************************************************************)
(* Queries (common/src/query.rs) over rows, and what each of them asks     *)
(* for: the rows of its result, as a sequence in which only the order that *)
(* a Sort asks for matters.                                                *)
(*                                                                         *)
(* A row is a sequence of values and a schema the sequence of their names. *)
(* A predicate compares a column with another column or with a literal:    *)
(* it has a field "other" or a field "literal".                            *)
(***************************************************************************)
EXTENDS Integers, Sequences, SequencesExt

CONSTANT Catalog     \* table -> its columns

IsColumn(p)  == "other" \in DOMAIN p
ColumnsOf(p) == {p.column} \cup (IF IsColumn(p) THEN {p.other} ELSE {})

(* A name stands for the last column that has it (HashMap of FilterOp and  *)
(* ProjectOp), or the first one (position in the planner); 0 for none.     *)
LastIndex(schema, c)  == SelectLastInSeq(schema, LAMBDA n : n = c)
FirstIndex(schema, c) == SelectInSeq(schema, LAMBDA n : n = c)

Compare(v, operator, w) ==
    \/ operator = "EQ"  /\ v = w
    \/ operator = "NE"  /\ v # w
    \/ operator = "GT"  /\ v > w
    \/ operator = "GTE" /\ v >= w
    \/ operator = "LT"  /\ v < w
    \/ operator = "LTE" /\ v <= w

(* FilterOp::row_passes                                                    *)
Passes(p, schema, r) ==
    Compare(r[LastIndex(schema, p.column)], p.operator,
            IF IsColumn(p) THEN r[LastIndex(schema, p.other)] ELSE p.literal)

PassesAll(preds, schema, r) == \A k \in DOMAIN preds : Passes(preds[k], schema, r)

Map(s, F(_)) == [k \in DOMAIN s |-> F(s[k])]

(* Where a projection finds its columns, and what it makes of a row.       *)
Positions(schema, froms) == Map(froms, LAMBDA c : LastIndex(schema, c))
Pick(schema, froms, r)   == Map(Positions(schema, froms), LAMBDA k : r[k])

Froms(map)   == Map(map, LAMBDA m : m[1])
Tos(map)     == Map(map, LAMBDA m : m[2])

(* Every row of L with every row of R.                                     *)
Pairs(L, R) == FlattenSeq(Map(L, LAMBDA l : Map(R, LAMBDA r : l \o r)))

-----------------------------------------------------------------------------
(* schema_of                                                               *)
RECURSIVE Schema(_)
Schema(q) ==
    CASE q.op = "Scan"               -> Catalog[q.table]
      [] q.op \in {"Filter", "Sort"} -> Schema(q.child)
      [] q.op = "Project"            -> Tos(q.map)
      [] q.op = "Cross"              -> Schema(q.left) \o Schema(q.right)

(* The rows a query asks for, over the tables of data.                     *)
RECURSIVE Answer(_, _)
Answer(q, data) ==
    CASE q.op = "Scan"    -> data[q.table]
      [] q.op = "Sort"    -> Answer(q.child, data)
      [] q.op = "Filter"  -> SelectSeq(Answer(q.child, data),
                                       LAMBDA r : PassesAll(q.preds, Schema(q.child), r))
      [] q.op = "Project" -> Map(Answer(q.child, data),
                                 LAMBDA r : Pick(Schema(q.child), Froms(q.map), r))
      [] q.op = "Cross"   -> Pairs(Answer(q.left, data), Answer(q.right, data))

-----------------------------------------------------------------------------
(* An ordering is a sequence of columns and directions, TRUE for ascending.*)
PrecedesBy(ordering, schema, r, s) ==
    \E k \in DOMAIN ordering :
       LET At(row, m) == row[FirstIndex(schema, ordering[m][1])]
       IN  /\ \A m \in 1 .. k - 1 : At(r, m) = At(s, m)
           /\ IF ordering[k][2] THEN At(r, k) < At(s, k) ELSE At(r, k) > At(s, k)

SortedBy(ordering, schema, rows) ==
    \A i, j \in DOMAIN rows : i < j => ~PrecedesBy(ordering, schema, rows[j], rows[i])

(* The order a query asks for: that of its outermost Sort, as far as its   *)
(* columns are kept by the projections above.                              *)
RECURSIVE Asked(_)
Asked(q) ==
    CASE q.op \in {"Scan", "Cross"} -> <<>>
      [] q.op = "Sort"    -> q.specs
      [] q.op = "Filter"  -> Asked(q.child)
      [] q.op = "Project" ->
            LET below == Asked(q.child)
                lost  == { k \in DOMAIN below : FirstIndex(Froms(q.map), below[k][1]) = 0 }
                kept  == { k \in DOMAIN below : \A l \in lost : k < l }
            IN  [k \in kept |-> <<Tos(q.map)[FirstIndex(Froms(q.map), below[k][1])], below[k][2]>>]
=============================================================================
