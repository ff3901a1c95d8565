---- MODULE MCJoinMethods ----
(* Joins of an outer relation with columns a and b and an inner one with x and y, with    *)
(* duplicates and nulls, for every type of join and several lists of clauses.             *)
EXTENDS JoinMethods

Outers(values) == [n \in DOMAIN values |-> [n |-> n, a |-> values[n][1], b |-> values[n][2]]]
Inners(values) == [n \in DOMAIN values |-> [m |-> n, x |-> values[n][1], y |-> values[n][2]]]
ManyOuters == Outers(<<<<2, 1>>, <<1, 1>>, <<Null, 1>>, <<2, 2>>, <<1, Null>>, <<2, 1>>, <<0, 0>>>>)
FewOuters == Outers(<<<<2, 1>>, <<Null, Null>>>>)
ManyInners == Inners(<<<<2, 2>>, <<1, 1>>, <<2, 1>>, <<Null, 2>>, <<2, 1>>, <<3, Null>>, <<1, 2>>>>)
UniqueX == Inners(<<<<2, 1>>, <<1, 1>>, <<Null, 2>>, <<3, Null>>>>)
UniquePairs == Inners(<<<<2, 1>>, <<2, 2>>, <<1, 1>>, <<Null, 1>>, <<2, Null>>>>)
One == Inners(<<<<2, 1>>>>)

Source == [kind |-> "table", unique |-> {}, distinct |-> {}, srf |-> FALSE, group |-> {}, sets |-> "none", aggs |-> FALSE, setop |-> "none"]
Table(keys) == [Source EXCEPT !.unique = keys]
Sub == [Source EXCEPT !.kind = "subquery"]
\* Where the rows come from, with rows it may return.
Sources ==
  {<<Table({}), ManyInners>>, <<Table({{"x"}}), UniqueX>>, <<Table({{"x", "y"}}), UniquePairs>>, <<Table({}), <<>>>>,
   <<[Sub EXCEPT !.distinct = {"x"}], UniqueX>>, <<[Sub EXCEPT !.distinct = {"x", "y"}, !.srf = TRUE], UniquePairs>>,
   <<[Sub EXCEPT !.group = {"x"}], UniqueX>>, <<[Sub EXCEPT !.group = {"x"}, !.srf = TRUE], ManyInners>>,
   <<[Sub EXCEPT !.group = {"x"}, !.sets = "several"], ManyInners>>, <<[Sub EXCEPT !.sets = "empty", !.aggs = TRUE], One>>,
   <<[Sub EXCEPT !.aggs = TRUE], One>>, <<[Sub EXCEPT !.setop = "distinct"], UniquePairs>>, <<[Sub EXCEPT !.setop = "all"], ManyInners>>}

C(l, op, r) == [l |-> l, op |-> op, r |-> r, pushed |-> FALSE]
Pushed(c) == [c EXCEPT !.pushed = TRUE]
EqX == C("a", "=", "x")
EqY == C("b", "=", "y")
Lists ==
  {<<>>, <<EqX>>, <<EqX, EqY>>, <<C("a", "=", "x"), C("x", "=", "b")>>, <<EqX, C("a", "=", "y")>>, <<EqX, EqY, C("a", "=", "y")>>,
   <<C("a", "<", "x")>>, <<EqX, C("b", "<", "y")>>, <<C("a", "=m", "x")>>, <<C("a", "=h", "x")>>, <<C("a", "=m", "x"), C("b", "=h", "y")>>,
   <<EqX, C("a", "=", "b")>>, <<EqX, C("b", "false", "b")>>, <<C("b", "false", "b")>>}
OuterLists ==
  Lists \cup {<<EqX, Pushed(C("x", "isnull", "x"))>>, <<EqX, Pushed(EqY)>>, <<Pushed(C("b", "<", "y")), EqX>>, <<EqX, Pushed(C("a", "=", "b"))>>}
UniqueLists == {<<EqX>>, <<EqX, EqY>>, <<C("x", "=", "b")>>}

\* Equal columns are in one class, but not across an outer join; a class may be constant or wanted above.
Class(cols, const, above) == [cols |-> cols, const |-> const, above |-> above]
Apart(n, k) == {Class({"a"}, FALSE, n), Class({"b"}, FALSE, k), Class({"x"}, FALSE, k), Class({"y"}, FALSE, n)}
SameOuter == {Class({"a", "b"}, FALSE, 1), Class({"x"}, FALSE, 0), Class({"y"}, FALSE, 1)}
SameInner == {Class({"a"}, FALSE, 1), Class({"b"}, FALSE, 0), Class({"x", "y"}, FALSE, 1)}
\* Only data where the columns of a class of one side are equal goes with such classes.
Equal(rows, c, d) == SelectSeq(rows, LAMBDA r : r[c] = r[d] /\ r[c] # Null)
Fits(classes, outers, inners) ==
  [outers |-> IF \E ec \in classes : {"a", "b"} \subseteq ec.cols THEN Equal(outers, "a", "b") ELSE outers,
   inners |-> IF \E ec \in classes : {"x", "y"} \subseteq ec.cols THEN Equal(inners, "x", "y") ELSE inners]

Path(keys) == [k |-> "Index", keys |-> keys, param |-> FALSE, safe |-> TRUE, mark |-> TRUE]
Seq0 == [Path(<<>>) EXCEPT !.k = "Seq", !.mark = FALSE]
Unsafe(path) == [path EXCEPT !.safe = FALSE]
Partial(path) == [path EXCEPT !.k = "Partial"]
Param == [Path(<<>>) EXCEPT !.k = "Param", !.param = TRUE]
In(classes, col) == CHOOSE ec \in classes : col \in ec.cols
Asc(classes, col) == Key(In(classes, col), Ascending)
Desc(classes, col) == [Asc(classes, col) EXCEPT !.desc = TRUE, !.nf = TRUE]
OuterPaths(cs) ==
  {<<Seq0>>, <<Seq0, Path(<<Asc(cs, "a")>>), Path(<<Desc(cs, "b")>>)>>,
   <<Path(<<Asc(cs, "b"), Asc(cs, "a")>>), Path(<<Desc(cs, "a"), Asc(cs, "b")>>)>>}
InnerPaths(cs) ==
  {<<Seq0>>, <<Unsafe(Seq0), Path(<<Asc(cs, "x")>>), Param>>, <<Seq0, [Path(<<Asc(cs, "x"), Asc(cs, "y")>>) EXCEPT !.mark = FALSE]>>,
   <<Path(<<Desc(cs, "x"), Asc(cs, "y")>>), Seq0>>, <<Seq0, Path(<<Asc(cs, "y"), Asc(cs, "x")>>), Param>>, <<Param>>}
\* Keys no sort would have: constant ones, or two of one class.
Sensible(keys) == \A i, j \in DOMAIN keys : ~keys[i].ec.const /\ (i # j => keys[i].ec # keys[j].ec)
Queries(cs) == {<<>>, <<Asc(cs, "a")>>, <<Desc(cs, "a"), Asc(cs, "b")>>, <<Desc(cs, "b")>>}

Types == {"inner", "left", "right", "full", "semi", "anti"}
Side(rows, sources, paths0, partials) == [rows : rows, source : sources, paths : paths0, partial : partials]
Joining0(types, lists, cs, queries, outers, inners) ==
  [type : types, clauses : lists, classes : {cs}, query : queries, needed : {{"a", "b"}}, outer : outers, inner : inners]
\* Every way of having paths, on the same rows.
Cs == Apart(1, 0)
BothPartials == <<Partial(Path(<<Asc(Cs, "a")>>)), Partial(Path(<<Desc(Cs, "b")>>))>>
OfPaths(types, lists) ==
  Joining0(types, lists, Cs, Queries(Cs), Side({ManyOuters}, {Table({})}, OuterPaths(Cs), {BothPartials}),
           Side({ManyInners}, {Table({})}, InnerPaths(Cs), {<<>>}))
\* Every source of the inner rows.
OfSources ==
  UNION {Joining0(Types, {<<EqX>>, <<EqX, EqY>>, <<EqX, Pushed(C("x", "isnull", "x"))>>, <<EqX, Pushed(EqY)>>, <<EqX, C("a", "=h", "y")>>, <<>>},
                  Cs, {<<Asc(Cs, "a")>>}, Side({ManyOuters, <<>>}, {Table({})}, {<<Seq0, Path(<<Asc(Cs, "a")>>)>>}, {<<Partial(Seq0)>>}),
                  Side({source[2]}, {source[1]}, {<<Seq0, Path(<<Asc(Cs, "x")>>)>>}, {<<Partial(Seq0)>>}))
           \cup {[j EXCEPT !.needed = {"a", "x"}] :
                   j \in Joining0({"left"}, {<<EqX>>}, Cs, {<<>>}, Side({ManyOuters}, {Table({})}, {<<Seq0>>}, {<<>>}),
                                 Side({source[2]}, {source[1]}, {<<Seq0>>}, {<<>>}))} : source \in Sources}
\* Semijoins with one side made unique.
OfUnique ==
  UNION {Joining0({"unique inner"}, UniqueLists, Cs, {<<>>, <<Asc(Cs, "a")>>},
                  Side({ManyOuters}, {Table({})}, {<<Seq0, Path(<<Asc(Cs, "a")>>)>>}, {<<Partial(Path(<<Asc(Cs, "b")>>))>>}),
                  Side({source[2]}, {source[1]}, {<<Unsafe(Seq0), Path(<<Asc(Cs, "x")>>)>>, <<Path(<<Asc(Cs, "x")>>), Param>>}, {<<Partial(Seq0)>>}))
           : source \in Sources}
  \cup Joining0({"unique outer"}, UniqueLists, Cs, {<<>>, <<Asc(Cs, "a")>>},
                Side({ManyOuters, FewOuters}, {Table({})}, {<<Seq0, Path(<<Asc(Cs, "a")>>)>>}, {<<Partial(Seq0)>>}),
                Side({ManyInners, UniqueX}, {Table({})}, {<<Seq0, Path(<<Asc(Cs, "x")>>), Param>>}, {<<Partial(Seq0)>>}))
\* Columns of one class, on one side or across, constant ones, and classes wanted above.
Shared(n) == {Class({"a", "x"}, FALSE, n), Class({"b", "y"}, FALSE, 1)}
Constants == {Class({"a"}, TRUE, 0), Class({"b"}, FALSE, 1), Class({"x"}, FALSE, 0), Class({"y"}, FALSE, 0)}
OfClasses ==
  UNION {Joining0(Types, {<<EqX>>, <<EqX, EqY>>, <<EqY, EqX>>, <<EqX, C("a", "=", "y")>>, <<EqX, C("b", "=", "x")>>,
                 <<C("b", "=", "x"), C("a", "=", "y")>>,
                           <<EqX, C("a", "=", "y"), EqY>>}, cs, {q \in Queries(cs) : Sensible(q)},
                  Side({Fits(cs, ManyOuters, <<>>).outers}, {Table({})}, {list \in OuterPaths(cs) : \A p \in ToSet(list) : Sensible(p.keys)}, {<<>>}),
                  Side({Fits(cs, <<>>, ManyInners).inners}, {Table({})}, {list \in InnerPaths(cs) : \A p \in ToSet(list) : Sensible(p.keys)}, {<<>>}))
           : cs \in {SameOuter, SameInner, Apart(0, 2), Constants}}
  \cup UNION {Joining0({"inner", "semi"}, {<<EqX>>, <<EqX, EqY>>, <<EqY, EqX>>}, Shared(n), Queries(Shared(n)),
                       Side({ManyOuters}, {Table({})}, OuterPaths(Shared(n)), {<<>>}),
                       Side({ManyInners}, {Table({})}, InnerPaths(Shared(n)), {<<>>})) : n \in 0..2}
MCJoins ==
  OfPaths({"inner", "semi"}, Lists) \cup OfPaths({"left", "right", "full", "anti"}, OuterLists)
    \cup OfSources \cup OfUnique \cup OfClasses
====
