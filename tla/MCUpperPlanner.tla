--------------------------- MODULE MCUpperPlanner ---------------------------
(***************************************************************************)
(* Statements to model-check UpperPlanner with.                            *)
(***************************************************************************)
EXTENDS UpperPlanner

Row(a, b, c, v) == [a |-> a, b |-> b, c |-> c, v |-> v, w1 |-> Null, w2 |-> Null]
\* No two rows or groups of rows have the same v.
SomeRows == << Row(2, 1, 2, 4), Row(1, 2, 1, 2), Row(2, Null, 1, 16), Row(1, 1, 1, 1),
               Row(Null, 1, 2, 8), Row(2, 2, 1, 32), Row(1, 1, 2, 64) >>
SomeTables == {SomeRows, <<>>}

\* Tables of several parts: by ranges of c, with and without a part for the rest; by values of a,
\* one or more to a part; by two columns; with parts of parts; by inheritance.
Part(holds, indexes) ==
  [holds |-> holds, indexes |-> indexes, key |-> <<>>, parts |-> <<>>, strategy |-> "table", has_default |-> FALSE,
   temp |-> FALSE, checks |-> {}, constraint_exclusion |-> "partition", enable_parallel_append |-> TRUE]
Table == Part({}, {})
Parted(strategy, key, parts) == [Table EXCEPT !.strategy = strategy, !.key = key, !.parts = parts]
Of(values) == {<<x>> : x \in values}
Check(values, valid, noinherit) == [allowed |-> values, valid |-> valid, noinherit |-> noinherit]

ByC == Parted("range", <<"c">>, << Part(Of({1}), {<<"c", "b">>}), Part(Of({2}), {}) >>)
Rest == [Parted("range", <<"c">>, << Part(Of({2}), {<<"c">>}), Part(Of({1}), {<<"c">>}) >>) EXCEPT !.has_default = TRUE]
ByA == Parted("list", <<"a">>, << Part(Of({1}), {<<"a", "c">>}), Part(Of({2}), {<<"a">>}), Part(Of({Null}), {}) >>)
Several == Parted("list", <<"a">>, << Part(Of({1, Null}), {<<"a">>}), Part(Of({2}), {<<"a">>}) >>)
ByB == Parted("list", <<"b">>, << Part(Of({1}), {<<"a">>, <<"c">>}), Part(Of({2, Null}), {<<"a">>}) >>)
ByBoth == Parted("range", <<"c", "a">>,
            << Part({<<1, 1>>}, {<<"c", "a">>}), Part({<<1, 2>>, <<2, 1>>}, {<<"c">>}), Part({<<2, 2>>, <<2, 3>>}, {}) >>)
Nested == Parted("range", <<"c">>,
            << [ByA EXCEPT !.holds = Of({1})], [Parted("list", <<"b">>, << Part(Of({1}), {<<"c">>}) >>) EXCEPT !.holds = Of({2})] >>)
Inherited(temp, exclusion) ==
  [Parted("inherit", <<"v">>,
     << [Part(Of({1, 4}), {<<"a">>}) EXCEPT !.checks = {Check({1}, TRUE, TRUE)}],
        [Part(Of({8, 16, 64}), {}) EXCEPT !.temp = temp, !.checks = {Check({2, Null}, FALSE, FALSE)}],
        [Part(Of({2, 32}), {<<"a">>}) EXCEPT !.checks = {Check({2}, TRUE, FALSE)}] >>)
   EXCEPT !.constraint_exclusion = exclusion, !.checks = {Check({2}, TRUE, TRUE)}]
SomeRelations ==
  [table |-> Table, byC |-> ByC, rest |-> Rest, byA |-> ByA, several |-> Several, byB |-> ByB, byBoth |-> ByBoth,
   nested |-> Nested, oneByOne |-> [Nested EXCEPT !.enable_parallel_append = FALSE], temp |-> Inherited(TRUE, "on"),
   inherited |-> Inherited(FALSE, "partition"), unchecked |-> Inherited(FALSE, "off")]
Parents == DOMAIN SomeRelations \ {"table"}

Select ==
  [from |-> "table",
   groupClause |-> <<>>, groupingSets |-> <<>>, hasAggs |-> FALSE, orderedAggs |-> FALSE, nonPartialAggs |-> FALSE,
   having |-> "none", windows |-> <<>>, distinctClause |-> <<>>, hasDistinctOn |-> FALSE, sortClause |-> <<>>,
   limitOffset |-> 0, limitCount |-> NoLimit, where |-> "none", unsortable |-> {}, unhashable |-> {}]

Wheres == {"none", "a = b", "b = 1"}
Limited(q) == {q, [q EXCEPT !.limitOffset = 1, !.limitCount = 2]}

Grouped(cols, sorts) ==
  UNION {Limited([Select EXCEPT !.groupClause = cols, !.hasAggs = aggs, !.sortClause = s, !.where = w,
                                !.having = IF aggs THEN "large" ELSE "none"]) :
           aggs \in BOOLEAN, s \in sorts, w \in Wheres}
Groupings ==
  Grouped(<<"a">>, {<<>>, <<"a">>}) \cup Grouped(<<"a", "b">>, {<<>>, <<"b">>, <<"b", "a">>, <<"b", "v">>})
    \cup Grouped(<<"c", "b", "a">>, {<<"a", "b">>})
    \cup {[Select EXCEPT !.hasAggs = TRUE, !.where = w, !.having = h] : w \in Wheres, h \in {"none", "large", "false"}}
    \cup {[Select EXCEPT !.having = "false"]}
\* Grouping by columns that cannot be sorted or hashed, with aggregates that cannot be computed in parts.
Awkward ==
  {[Select EXCEPT !.groupClause = <<"a", "b">>, !.hasAggs = TRUE, !.unsortable = u, !.unhashable = h, !.sortClause = s,
                  !.orderedAggs = (f = "ordered"), !.nonPartialAggs = (f # "plain")] :
     u \in {{}, {"b"}}, h \in {{}, {"a"}, {"b"}}, s \in {<<>>, <<"a">>}, f \in {"plain", "ordered", "whole"}}

Sets ==
  { << <<>>, <<"a">>, <<"a", "b">> >>, << <<"b">>, <<"a", "b">> >>, << <<>>, <<"a">>, <<"b">>, <<"a", "b">> >>,
    << <<"a">>, <<"b">>, <<"c">> >>, << <<"c">>, <<"a", "b">>, <<"b", "a">>, <<"b", "a", "c">> >>,
    << <<"a">>, <<"c", "b">>, <<"a", "b", "c">> >>, << <<>>, <<>>, <<"b">> >> }
Mentioned(sets) == SelectSeq(<<"a", "b", "c">>, LAMBDA col : \E i \in DOMAIN sets : col \in ToSet(sets[i]))
GroupedOnly(cols, sets) == SelectSeq(cols, LAMBDA col : col \in ToSet(Mentioned(sets)))
GroupingSets ==
  {[Select EXCEPT !.groupClause = Mentioned(s), !.groupingSets = s, !.hasAggs = TRUE, !.sortClause = GroupedOnly(o, s),
                  !.having = h] : s \in Sets, o \in {<<>>, <<"b">>, <<"b", "a">>}, h \in {"none", "large"}}
    \cup {[Select EXCEPT !.groupClause = Mentioned(s), !.groupingSets = s, !.hasAggs = aggs, !.orderedAggs = ordered,
                         !.unsortable = u, !.unhashable = h] :
            s \in Sets, aggs \in BOOLEAN, ordered \in BOOLEAN,
            u \in {{}, {"b"}}, h \in {{}, {"a"}, {"b"}}}
    \cup {[Select EXCEPT !.groupClause = Mentioned(s), !.groupingSets = s, !.hasAggs = TRUE, !.where = w] :
            s \in Sets, w \in Wheres}
    \cup {[Select EXCEPT !.groupClause = Mentioned(s), !.groupingSets = s, !.hasAggs = TRUE, !.where = w,
                         !.sortClause = GroupedOnly(<<"b", "a">>, s)] : s \in Sets, w \in Wheres}
    \cup {[Select EXCEPT !.groupingSets = s, !.having = h, !.hasAggs = aggs] :
            s \in {<< <<>> >>, << <<>>, <<>> >>}, h \in {"none", "false"}, aggs \in BOOLEAN}

Window(name, partition, order) == [name |-> name, used |-> TRUE, partition |-> partition, order |-> order]
Orders == {<<>>, <<"a">>, <<"b">>, <<"a", "b">>, <<"b", "a">>}
Windows ==
  {[Select EXCEPT !.windows = <<Window("w1", p, o), Window("w2", q, <<"a">>)>>, !.where = w, !.sortClause = s] :
     p \in Orders, o \in {<<>>, <<"b">>}, q \in {<<>>, <<"b">>}, w \in Wheres, s \in {<<>>, <<"b", "a">>}}
    \cup {[Select EXCEPT !.groupClause = <<"a", "b">>, !.hasAggs = TRUE, !.groupingSets = g,
                         !.windows = <<Window("w1", <<"b">>, o), [Window("w2", <<"a">>, <<>>) EXCEPT !.used = u]>>] :
            g \in {<<>>, << <<"a">>, <<"b">>, <<"a", "b">> >>}, o \in Orders, u \in BOOLEAN}
    \cup {[Select EXCEPT !.windows = <<Window("w1", <<"a">>, <<"b">>)>>, !.unsortable = {"b"}]}

Distincts ==
  UNION {Limited([Select EXCEPT !.distinctClause = d, !.sortClause = s, !.where = w, !.unhashable = h]) :
           d \in {<<"a", "b">>, <<"b", "c">>}, s \in {<<>>}, w \in Wheres, h \in {{}, {"b"}}}
    \cup UNION {Limited([Select EXCEPT !.distinctClause = d, !.sortClause = SubSeq(d, 1, n), !.where = w]) :
                  d \in {<<"a", "b">>, <<"b", "a">>, <<"c">>}, n \in 0..1, w \in Wheres}
    \cup {[Select EXCEPT !.distinctClause = d, !.hasDistinctOn = TRUE, !.sortClause = d \o s, !.where = w] :
            d \in {<<"a">>, <<"b">>, <<"b", "a">>}, s \in {<<>>, <<"c">>, <<"v">>}, w \in Wheres}
    \cup {[Select EXCEPT !.distinctClause = <<"a", "b">>, !.hasDistinctOn = on, !.sortClause = <<"a">>,
                         !.unsortable = {"b"}, !.unhashable = h] : on \in BOOLEAN, h \in {{}, {"a"}, {"b"}}}
    \cup {[Select EXCEPT !.groupClause = <<"a", "b">>, !.distinctClause = <<"b">>, !.hasAggs = TRUE, !.where = w] :
            w \in Wheres}

Ordered ==
  UNION {Limited([Select EXCEPT !.sortClause = s, !.where = w, !.limitOffset = 1]) :
           s \in {<<>>, <<"a">>, <<"b", "a">>, <<"a", "b", "c">>}, w \in Wheres}

InParts ==
  {[Select EXCEPT !.from = f, !.sortClause = s, !.where = w] :
     f \in Parents, s \in {<<>>, <<"c">>, <<"a">>, <<"c", "a">>}, w \in Wheres}
    \cup {[Select EXCEPT !.from = f, !.groupClause = <<"a">>, !.hasAggs = TRUE, !.where = "none"] : f \in Parents}

SomeQueries == InParts \cup Groupings \cup Awkward \cup GroupingSets \cup Windows \cup Distincts \cup Ordered
===============================================================================
