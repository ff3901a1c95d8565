------------------------------- MODULE JoinNodes -------------------------------
(***************************************************************************)
(* What the join nodes of a finished plan do with the rows of their two     *)
(* inputs.  The executor is not part of the repository; these definitions   *)
(* say what the planner relies on: a merge join trusts the order of its     *)
(* inputs, backs up in the inner one only if it has marked a place there,   *)
(* and no node but the one that owns a row can say that it found no match.  *)
(*                                                                         *)
(* Outer rows have the columns a and b and a number n, inner rows x, y and  *)
(* m; a joined row has all of them.  Null is larger than all other values.  *)
(***************************************************************************)
EXTENDS Integers, SequencesExt

Null == 99
NoOuter == [n |-> 0, a |-> Null, b |-> Null]
NoInner == [m |-> 0, x |-> Null, y |-> Null]
OuterCols == {"a", "b"}
InnerCols == {"x", "y"}
Concat(seqs) == FlattenSeq(seqs)

\* A clause is [l, r, op, pushed]; "=m" can only be merged and "=h" only be hashed.
Equalities == {"=", "=m", "=h"}
Holds(c, row) ==
  CASE c.op = "false" -> FALSE
    [] c.op = "isnull" -> row[c.l] = Null
    [] row[c.l] = Null \/ row[c.r] = Null -> FALSE
    [] c.op = "<" -> row[c.l] < row[c.r]
    [] OTHER -> row[c.l] = row[c.r]
AllHold(clauses, row) == \A n \in DOMAIN clauses : Holds(clauses[n], row)

FillsOuter(type) == type \in {"left", "full", "anti"}
FillsInner(type) == type \in {"right", "full"}
Emit(o, i, quals) == IF AllHold(quals, o @@ i) THEN <<o @@ i>> ELSE <<>>

\* Keys are [ec, desc, nf]: a class of columns, the direction and where nulls go.
Rank(v, key) == IF v = Null THEN (IF key.nf THEN -Null ELSE Null) ELSE IF key.desc THEN -v ELSE v
ColumnIn(ec, row) == CHOOSE c \in ec.cols : c \in DOMAIN row
KeyRanks(row, keys) == [n \in DOMAIN keys |-> Rank(row[ColumnIn(keys[n].ec, row)], keys[n])]
LexLess(x, y) == \E n \in DOMAIN x : x[n] < y[n] /\ \A k \in 1..n - 1 : x[k] = y[k]
Sort(rows, keys) == SortSeq(rows, LAMBDA r, s : LexLess(KeyRanks(r, keys), KeyRanks(s, keys)))
InKeyOrder(rows, keys) == \A n \in 1..Len(rows) - 1 : ~LexLess(KeyRanks(rows[n + 1], keys), KeyRanks(rows[n], keys))

----
\* An outer row with the inner rows it may match: single stops at the first match.
Matches(type, single, o, candidates, joinquals, otherquals) ==
  LET matches == SelectSeq(candidates, LAMBDA i : AllHold(joinquals, o @@ i))
      first == IF single /\ matches # <<>> THEN <<matches[1]>> ELSE matches
  IN IF matches = <<>> THEN (IF FillsOuter(type) THEN Emit(o, NoInner, otherquals) ELSE <<>>)
     ELSE IF type = "anti" THEN <<>>
     ELSE Concat([k \in DOMAIN first |-> Emit(o, first[k], otherquals)])
\* inners[n]: what a scan of the inner side for the nth outer row returns.
NestLoop(type, single, outers, inners, joinquals, otherquals) ==
  Concat([n \in DOMAIN outers |-> Matches(type, single, outers[n], inners[n], joinquals, otherquals)])
\* A table of the inner rows; those that met no outer row of this worker come last.
HashJoin(type, single, outers, inners, hashclauses, joinquals, otherquals) ==
  LET quals == hashclauses \o joinquals
      unmatched == SelectSeq(inners, LAMBDA i : \A n \in DOMAIN outers : ~AllHold(quals, outers[n] @@ i))
  IN Concat([n \in DOMAIN outers |-> Matches(type, single, outers[n], inners, quals, otherquals)])
     \o (IF FillsInner(type) THEN Concat([k \in DOMAIN unmatched |-> Emit(NoOuter, unmatched[k], otherquals)]) ELSE <<>>)

----
\* The merge join, step by step.  J is [type, single, backs, keys, clauses, joinquals, otherquals,
\* never]: backs says that it marks and restores, keys[n] is how clause n's sides are ordered.
OuterValue(J, n, o) == o[J.clauses[n].l]
InnerValue(J, n, i) == i[J.clauses[n].r]
HasNull(values) == \E n \in DOMAIN values : values[n] = Null
OuterValues(J, o) == [n \in DOMAIN J.clauses |-> OuterValue(J, n, o)]
InnerValues(J, i) == [n \in DOMAIN J.clauses |-> InnerValue(J, n, i)]
Ranks(J, values) == [n \in DOMAIN values |-> Rank(values[n], J.keys[n])]
\* No row after this one can match: its first value is null and nulls come last.
Ends(J, values, fills) == values # <<>> /\ values[1] = Null /\ ~J.keys[1].nf /\ ~fills
Before(J, o, i) == LexLess(Ranks(J, OuterValues(J, o)), Ranks(J, InnerValues(J, i)))
After(J, o, i) == J.never \/ LexLess(Ranks(J, InnerValues(J, i)), Ranks(J, OuterValues(J, o)))
Same(J, o, i) == ~HasNull(InnerValues(J, i)) /\ ~Before(J, o, i) /\ ~After(J, o, i)

LeaveOuter(J, s, O) ==
  [s EXCEPT !.o = @ + 1, !.mo = FALSE,
            !.out = @ \o (IF FillsOuter(J.type) /\ ~s.mo THEN Emit(O[s.o], NoInner, J.otherquals) ELSE <<>>)]
LeaveInner(J, s, I) ==
  [s EXCEPT !.i = @ + 1, !.mi = FALSE,
            !.out = @ \o (IF FillsInner(J.type) /\ ~s.mi THEN Emit(NoOuter, I[s.i], J.otherquals) ELSE <<>>)]
Skipping(J, s, O, I) ==
  IF s.o > Len(O) THEN (IF s.i > Len(I) THEN [s EXCEPT !.at = "end"] ELSE LeaveInner(J, s, I))
  ELSE IF s.i > Len(I) THEN LeaveOuter(J, s, O)
  ELSE CASE Ends(J, OuterValues(J, O[s.o]), FillsOuter(J.type)) -> [s EXCEPT !.o = Len(O) + 1]
         [] Ends(J, InnerValues(J, I[s.i]), FillsInner(J.type)) -> [s EXCEPT !.i = Len(I) + 1]
         [] HasNull(OuterValues(J, O[s.o])) -> LeaveOuter(J, s, O)
         [] HasNull(InnerValues(J, I[s.i])) -> LeaveInner(J, s, I)
         [] After(J, O[s.o], I[s.i]) -> LeaveInner(J, s, I)
         [] Before(J, O[s.o], I[s.i]) -> LeaveOuter(J, s, O)
         [] OTHER -> [s EXCEPT !.at = "join", !.mark = s.i]
Joining(J, s, O, I) ==
  LET passes == AllHold(J.joinquals, O[s.o] @@ I[s.i])
  IN [s EXCEPT !.mo = @ \/ passes, !.mi = @ \/ passes,
               !.at = IF passes /\ (J.single \/ J.type = "anti") THEN "nextouter" ELSE "nextinner",
               !.out = @ \o (IF passes /\ J.type # "anti" THEN Emit(O[s.o], I[s.i], J.otherquals) ELSE <<>>)]
NextInner(J, s, O, I) ==
  LET next == LeaveInner(J, s, I)
  IN IF next.i <= Len(I) /\ Same(J, O[s.o], I[next.i]) THEN [next EXCEPT !.at = "join"] ELSE [next EXCEPT !.at = "nextouter"]
NextOuter(J, s, O, I) ==
  LET next == LeaveOuter(J, s, O)
  IN IF next.o > Len(O) THEN [next EXCEPT !.at = "skip"]
     ELSE IF HasNull(OuterValues(J, O[next.o])) THEN next
     ELSE IF ~Same(J, O[next.o], I[s.mark]) THEN [next EXCEPT !.at = "skip"]
     ELSE [next EXCEPT !.at = IF s.i > Len(I) /\ ~J.backs THEN "skip" ELSE "join", !.i = IF J.backs THEN s.mark ELSE @]
RECURSIVE Merging(_, _, _, _)
Merging(J, s, O, I) ==
  CASE s.at = "skip" -> Merging(J, Skipping(J, s, O, I), O, I)
    [] s.at = "join" -> Merging(J, Joining(J, s, O, I), O, I)
    [] s.at = "nextinner" -> Merging(J, NextInner(J, s, O, I), O, I)
    [] s.at = "nextouter" -> Merging(J, NextOuter(J, s, O, I), O, I)
    [] OTHER -> s.out
MergeJoin(J, outers, inners) ==
  Merging(J, [at |-> "skip", o |-> 1, i |-> 1, mark |-> 0, mo |-> FALSE, mi |-> FALSE, out |-> <<>>], outers, inners)
=============================================================================
