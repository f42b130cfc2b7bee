---------------------------- MODULE MCTableScan ----------------------------
(***************************************************************************)
(* Rows and pushed predicates for TLC.  Column a is a float with values    *)
(* that its two comparisons see differently.  Column b is a string: it has *)
(* no range and its longer value makes a row fill a block.  The lists      *)
(* compare column a with a literal below, among and above its values, with *)
(* one of another type, bound it from both ends, and combine it with b.    *)
(***************************************************************************)
EXTENDS TableScan

(* -1.0, -0.0, 0.0, 1.0, 2.0, 3.0 and NaN by their places.                 *)
Places    == 0 .. 6
NumberOf  == <<-1, 0, 0, 1, 2, 3, 0>>
Numbers   == [v \in Places |-> NumberOf[v + 1]]
NaN       == 6

SomeRows == { [a |-> x, b |-> 1] : x \in {1, 2, 3, NaN} } \cup { [a |-> 4, b |-> 2] }
SizeOf(r) == r.b

Compare(c, o, v) == [column |-> c, operator |-> o, value |-> v, same |-> TRUE]

Single == { <<Compare("a", o, v)>> : o \in {"EQ", "NE", "GT", "GTE", "LT", "LTE"}, v \in {2, 3} }
Beyond == { <<Compare("a", "EQ", 0)>>, <<Compare("a", "LTE", 0)>>, <<Compare("a", "GTE", 5)>>,
            <<Compare("a", "LT", NaN)>> }
Ranges == { <<Compare("a", "GTE", v), Compare("a", "LT", w)>> : v \in {2, 3}, w \in {3, 4} }
Both   == { <<Compare("b", "EQ", v), Compare("a", "GT", 2)>> : v \in {1, 2} }

(* A literal of another type: 1.0, and a string.                           *)
OtherType == { <<[Compare("a", o, v) EXCEPT !.same = FALSE]>> : o \in {"EQ", "GT", "LT"},
                                                                 v \in {3, NaN} }

Lists == {<<>>} \cup Single \cup Beyond \cup Ranges \cup Both \cup OtherType

SomeFilters == { [column |-> "a", values |-> {3}], [column |-> "b", values |-> {1}] }
=============================================================================
