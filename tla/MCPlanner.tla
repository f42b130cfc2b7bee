----------------------------- MODULE MCPlanner -----------------------------
(***************************************************************************)
(* Tables and queries for TLC.  The tables are ordered by none, one or all *)
(* of their columns, have keys in common, several times or not at all, and *)
(* may be empty.                                                           *)
(***************************************************************************)
EXTENDS Planner

Columns3 == [r |-> <<"a", "b">>, s |-> <<"c", "d">>, u |-> <<"e">>]

BaseOf(c) == CASE c = "x.a" -> "a" [] c = "x.b" -> "b" [] OTHER -> c

SomeData ==
    [r : { <<>>, << <<1, 2>>, <<2, 2>>, <<2, 1>> >>, << <<2, 1>>, <<1, 2>>, <<2, 3>> >> },
     s : { << <<1, 2>>, <<2, 2>>, <<2, 3>> >>, << <<2, 1>>, <<3, 2>>, <<1, 1>> >> },
     u : { << <<1>>, <<2>>, <<2>> >>, << <<2>>, <<1>> >> }]

Scan(t)         == [op |-> "Scan", table |-> t]
Filter(ps, q)   == [op |-> "Filter", preds |-> ps, child |-> q]
Project(map, q) == [op |-> "Project", map |-> map, child |-> q]
Cross(q, w)     == [op |-> "Cross", left |-> q, right |-> w]
Sort(specs, q)  == [op |-> "Sort", specs |-> specs, child |-> q]

Lit(c, o, v) == [column |-> c, operator |-> o, literal |-> v]
Col(c, o, d) == [column |-> c, operator |-> o, other |-> d]

RS  == Cross(Scan("r"), Scan("s"))
RSU == Cross(RS, Scan("u"))

(* Joins of two and of three tables: by one equality or two, written from  *)
(* either side; by comparisons that join nothing; with predicates of one   *)
(* table, on one or two columns; with nothing to join the last table; and  *)
(* with the third table joined before the second.                          *)
Joins2 == { Filter(ps, RS) : ps \in {
    <<Col("a", "EQ", "c")>>,
    <<Col("c", "EQ", "a"), Lit("b", "GT", 1)>>,
    <<Col("a", "EQ", "c"), Col("d", "EQ", "b")>>,
    <<Col("b", "LT", "d")>>,
    <<Col("b", "LT", "d"), Col("a", "EQ", "c"), Lit("d", "NE", 2)>>,
    <<Col("a", "EQ", "b"), Col("c", "EQ", "a"), Lit("c", "LTE", 2)>>,
    <<Lit("a", "EQ", 2)>> } }

Joins3 == { Filter(ps, RSU) : ps \in {
    <<Col("a", "EQ", "c"), Col("d", "EQ", "e")>>,
    <<Col("c", "EQ", "e"), Col("a", "EQ", "e")>>,
    <<Col("a", "EQ", "e"), Col("c", "GT", "e"), Lit("d", "LT", 3)>>,
    <<Col("b", "EQ", "d")>> } }
    \cup { Filter(<<Lit("c", "EQ", 2)>>, Filter(<<Col("a", "EQ", "c")>>, RS)),
           Filter(<<Col("a", "EQ", "c")>>, Cross(Scan("r"), Filter(<<Lit("d", "GTE", 2)>>, Scan("s")))) }

(* A table under another name, or sorted, as the input of a join.          *)
Named == Project(<< <<"a", "x.a">>, <<"b", "x.b">> >>, Scan("r"))

Renamed == { Filter(<<Col("x.a", "EQ", "c")>>, Cross(Named, Scan("s"))),
             Filter(<<Col("c", "EQ", "x.a"), Col("x.b", "LTE", "d")>>, Cross(Scan("s"), Named)) }

Sorts == { << <<"a", TRUE>> >>, << <<"a", FALSE>>, <<"b", TRUE>> >>, << <<"b", TRUE>>, <<"a", TRUE>> >> }
Maps  == { << <<"a", "a">> >>, << <<"b", "k">>, <<"a", "b">> >>, << <<"a", "k">>, <<"a", "b">> >> }

Unsorted == Joins2 \cup Joins3
            \cup { Scan("r"), Filter(<<Lit("b", "GT", 1)>>, Scan("r")), Cross(Scan("r"), Scan("u")) }

Queries1 ==
    { Project(m, q) : m \in Maps, q \in Unsorted }
    \cup { Project(m, Sort(o, q)) : m \in Maps, o \in Sorts, q \in Unsorted }
    \cup { Project(<< <<"d", "d">>, <<"x.a", "a">> >>, q) : q \in Renamed }
    \cup { Project(<< <<"d", "d">>, <<"x.a", "a">> >>, Sort(<< <<"x.a", TRUE>>, <<"d", FALSE>> >>, q)) :
              q \in Renamed }
    \cup { Sort(<< <<"b", TRUE>> >>, Project(m, Sort(o, Scan("r")))) : m \in Maps \ { << <<"a", "a">> >> },
                                                                     o \in Sorts }
    \cup { Scan("r"), Cross(Scan("r"), Scan("u")) }

(* Queries whose plans go wrong, each for a reason of its own.             *)

(* A filter between a projection and a sort: the sort drops the column.    *)
FilteredSort ==
    { Project(<< <<"a", "a">> >>, Filter(<<Lit("b", "GT", 1)>>, Sort(<< <<"a", TRUE>> >>, Scan("r")))) }

(* A merge join whose first input has lost the order that the catalog      *)
(* notes of its column: by a sort, or by a join of its own.                *)
SortedInput ==
    { Project(<< <<"b", "b">>, <<"d", "d">> >>,
              Filter(<<Col("a", "EQ", "c")>>, Cross(Sort(<< <<"a", FALSE>> >>, Scan("r")), Scan("s")))) }

JoinedInput ==
    { Project(<< <<"b", "b">>, <<"e", "e">> >>,
              Filter(<<Col("a", "EQ", "e")>>, Cross(Filter(<<Col("b", "EQ", "d")>>, RS), Scan("u")))) }

(* Columns nobody names, without a projection on top.                      *)
AllColumns == { Filter(<<Col("a", "EQ", "c")>>, RS) }

(* A column under the name of another one of its table: the join filter    *)
(* goes through the projection by name, and so does the catalog's order.   *)
SwappedNames ==
    { Project(<< <<"b", "k">>, <<"d", "d">> >>,
              Filter(<<Col("b", "EQ", "c")>>,
                     Cross(Scan("s"), Project(<< <<"a", "b">>, <<"b", "a">> >>, Scan("r"))))) }
=============================================================================
