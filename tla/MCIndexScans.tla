---- MODULE MCIndexScans ----
(* Scans of a relation of 24 rows, every combination of two integer columns with two values  *)
(* of a boolean one, by one or two indexes, alone or for rows of two other relations.        *)
EXTENDS ScanPlans

a == Var(1)
b == Var(2)
c == Var(3)
t == Var(4)
f == Var(5)
d == Var(6)
k(v) == Const(v)
EqualsAny(e, vs) == ScalarArrayOp("=", 1, e, ArrayConst([n \in DOMAIN vs |-> Const(vs[n])]))
CompareRows(op, x, y) == Node("RowCompare", op, Len(x), x \o y)

Flags(x, y) == IF (x + y) % 2 = 0 THEN {0, 1} ELSE {Null, 1}
Place(x, y, g) == 1 + (x + 1) * 6 + (y + 1) * 2 + (IF g = 1 THEN 1 ELSE 0)
MCRows == UNION {{<<x, y, u, Place(x, y, g), g, v>> : g \in Flags(x, y)} :
                   x \in {Null, 0, 1, 2}, y \in {Null, 0, 1}, u \in {Null, 1, 2}, v \in {Null, 1, 2}}

Info(e) == [clause |-> e, ec |-> 0, level |-> 0, movable |-> TRUE]
Infos(s) == [n \in DOMAIN s |-> Info(s[n])]
Derived(e) == [Info(e) EXCEPT !.ec = 1]
IndexOn(cols, am, pred) ==
  [cols |-> cols, am |-> am, pred |-> pred, unique |-> FALSE, canreturn |-> [n \in DOMAIN cols |-> am = "btree"]]
Query(base, indexes) ==
  [base |-> base, joins |-> <<>>, eclauses |-> <<>>, minsec |-> 0, keys |-> <<>>, target |-> {1, 2},
   targetrel |-> FALSE, indexes |-> indexes]
Asc(e) == Key(e, FALSE)
Desc(e) == Key(e, TRUE)

Conditions ==
  <<Op("=", a, k(1)), Op(">", a, k(0)), Op(">", k(2), a), Op("<>", a, k(1)), EqualsAny(a, <<2, 0>>), NullTest("IsNull", a),
    NullTest("IsNotNull", a), Func("evenfrom", <<a, k(0)>>), CompareRows("<", <<a, b>>, <<k(1), k(1)>>),
    CompareRows("<=", <<k(1), k(0)>>, <<a, b>>), Op("=", b, k(1)), EqualsAny(b, <<1, 0>>), f, Not(f), BooleanTest("IsFalse", f),
    BooleanTest("IsNotTrue", f), Op("=", Func("inc", <<a>>), k(2)), Op("=", a, Func("rand", <<>>)),
    Op("=", Func("now", <<>>), k(1)), Op("=", t, k(8)), EqualsAny(t, <<8, 15>>)>>
Ors ==
  {Or(<<Op("=", a, k(1)), Op("=", b, k(0))>>), Or(<<And(<<Op("=", a, k(1)), Op("=", b, k(1))>>), Op(">", a, k(1))>>),
   Or(<<And(<<Op(">", a, k(0)), Or(<<Op("=", b, k(0)), f>>)>>), NullTest("IsNull", a)>>),
   Or(<<Func("evenfrom", <<a, k(1)>>), And(<<Op(">", a, k(0)), Op("=", b, k(1))>>)>>),
   Or(<<Op("=", t, k(8)), And(<<Op("=", t, k(15)), Op("=", b, k(1))>>)>>), Or(<<Op("=", t, k(8)), Op("=", t, k(9))>>)}
Indexes ==
  {IndexOn(<<a>>, "btree", <<>>), IndexOn(<<a, b>>, "btree", <<>>), IndexOn(<<b, a>>, "btree", <<>>), IndexOn(<<f, a>>, "btree", <<>>),
   IndexOn(<<Func("inc", <<a>>), b>>, "btree", <<>>), IndexOn(<<a>>, "hash", <<>>), IndexOn(<<a>>, "gist", <<>>),
   IndexOn(<<a, b>>, "brin", <<>>), IndexOn(<<b>>, "btree", <<Op(">", a, k(0))>>), IndexOn(<<a>>, "btree", <<Op("=", b, k(1))>>),
   IndexOn(<<b, a>>, "btree", <<f>>), IndexOn(<<a>>, "hash", <<NullTest("IsNotNull", a)>>)}
Keys == {<<>>, <<Asc(a), Asc(b)>>, <<Desc(b)>>, <<Asc(Op("dist", k(1), a))>>}

InPairs(list) == {<<list[p[1]], list[p[2]]>> : p \in {q \in (DOMAIN list) \X (DOMAIN list) : q[1] < q[2]}}
Singles(S) == {<<x>> : x \in S}
\* One index, up to two conditions, an order.
Alone ==
  {[Query(Infos(s), <<i>>) EXCEPT !.keys = o, !.targetrel = (o = <<>>), !.target = IF o = <<Desc(b)>> THEN {2} ELSE {1}] :
     s \in {<<>>} \cup Singles(ToSet(Conditions)) \cup InPairs(Conditions), i \in Indexes, o \in Keys}
\* An OR, with another condition, and two indexes.
IndexPairs ==
  InPairs(<<IndexOn(<<a>>, "btree", <<>>), IndexOn(<<b, a>>, "btree", <<>>), IndexOn(<<f>>, "hash", <<>>), IndexOn(<<a>>, "brin", <<>>),
            IndexOn(<<b>>, "btree", <<Op(">", a, k(0))>>), IndexOn(<<a>>, "hash", <<Op("=", b, k(1))>>),
            IndexOn(<<a>>, "btree", <<Op(">", a, k(0))>>)>>)
Combined ==
  {[Query(Infos(s), p) EXCEPT !.targetrel = (Len(s) = 1)] :
     s \in Singles(Ors) \cup {<<o, Conditions[n]>> : o \in Ors, n \in {2, 5, 8, 11, 13}} \cup
            {<<Conditions[n], Conditions[m]>> : n \in {1, 2, 5, 8}, m \in {11, 13}},
     p \in IndexPairs}
\* Rows of other relations that it is joined with.
Fixed(e) == [Info(e) EXCEPT !.movable = FALSE]
Joins1 ==
  {<<Info(Op(">", a, c))>>, <<Info(Op("=", c, b))>>, <<Info(Op("<", a, c)), Info(Op("=", b, d))>>,
   <<Info(Or(<<Op("=", a, c), Op("=", b, c)>>))>>, <<Info(Op("=", t, c))>>, <<Fixed(Op("=", b, c))>>, <<>>,
   <<Info(Op("=", b, d)), Info(NullTest("IsNotNull", b))>>}
Classes == {<<>>, <<Derived(Op("=", a, c))>>, <<Derived(Op("=", a, c)), Derived(Op("=", a, d))>>}
Joined ==
  {[Query(Infos(s), <<i>>) EXCEPT !.joins = j, !.eclauses = e, !.target = {1, 2, 4}, !.targetrel = (s = <<>>)] :
     s \in {<<>>, <<Conditions[12]>>, <<Conditions[11]>>, <<Conditions[8]>>}, j \in Joins1, e \in Classes,
     i \in {IndexOn(<<a>>, "btree", <<>>), IndexOn(<<a, b>>, "btree", <<>>), IndexOn(<<b>>, "hash", <<>>),
            IndexOn(<<a, b>>, "btree", <<NullTest("IsNotNull", b)>>), [IndexOn(<<a>>, "btree", <<Op("=", b, k(1))>>) EXCEPT !.unique = TRUE],
            [IndexOn(<<a>>, "btree", <<NullTest("IsNotNull", b)>>) EXCEPT !.unique = TRUE],
            [IndexOn(<<b, a>>, "btree", <<>>) EXCEPT !.unique = TRUE], [IndexOn(<<a>>, "hash", <<>>) EXCEPT !.unique = TRUE]}}
\* Conditions of a view that hides rows, below those of the query.
AtLevel(e, n) == [Info(e) EXCEPT !.level = n]
Hidden ==
  {[Query(<<AtLevel(q, n), AtLevel(s, 1 - n)>>, <<i>>) EXCEPT !.target = {1}, !.minsec = 0] :
     n \in {1}, q \in {Func("evenfrom", <<a, k(0)>>), Or(<<Func("evenfrom", <<a, k(0)>>), Op("=", b, k(1))>>),
                       Op("=", Func("nvl", <<a>>), k(0)), Op("=", a, k(1))},
     s \in {Op("=", b, k(1)), Func("evenfrom", <<b, k(0)>>), Op("=", Func("nvl", <<b>>), k(0)), Op(">", a, k(0))},
     i \in Indexes}
MCQueries == Alone \cup Combined \cup Joined \cup Hidden
====
