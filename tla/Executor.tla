------------------------------- MODULE Executor -------------------------------
(***************************************************************************)
(* What the nodes of a finished plan do with rows.  The executor is not    *)
(* part of the repository; these definitions say what the planner relies   *)
(* on: a node that needs sorted input compares neighbours only and so      *)
(* gives wrong rows, not an error, if the input is not sorted.             *)
(*                                                                         *)
(* A row is a function from columns to numbers, Null being larger than all *)
(* others; rows come in a sequence.                                        *)
(***************************************************************************)
EXTENDS ListOps, FiniteSets

Null == 99
Columns == {"a", "b", "c", "v", "w1", "w2"}
SumSeq(s) == FoldLeft(LAMBDA x, y : x + y, 0, s)

Less(x, y, keys) ==
  \E i \in DOMAIN keys : /\ x[keys[i]] < y[keys[i]]
                         /\ \A j \in 1..i - 1 : x[keys[j]] = y[keys[j]]
Alike(x, y, cols) == \A c \in cols : x[c] = y[c]
Sorted(rows, keys) == \A i \in 1..Len(rows) - 1 : ~Less(rows[i + 1], rows[i], keys)

InOrder(rows, positions) == Among([i \in DOMAIN rows |-> i], positions)
\* The stretches of neighbouring rows that agree on some columns.
RunEnds(rows, cols) == {i \in DOMAIN rows : i = Len(rows) \/ ~Alike(rows[i], rows[i + 1], cols)}
RunStart(rows, cols, i) ==
  CHOOSE s \in 1..i : /\ \A k \in s..i - 1 : Alike(rows[k], rows[k + 1], cols)
                      /\ s = 1 \/ ~Alike(rows[s - 1], rows[s], cols)
Runs(rows, cols) ==
  LET ends == InOrder(rows, RunEnds(rows, cols))
  IN [n \in DOMAIN ends |-> SubSeq(rows, RunStart(rows, cols, ends[n]), ends[n])]

Sort(rows, keys) == SortSeq(rows, LAMBDA x, y : Less(x, y, keys))
\* Rows already sorted on the first n keys are sorted run by run.
IncrementalSort(rows, keys, n) ==
  LET runs == Runs(rows, ToSet(SubSeq(keys, 1, n)))
  IN FlattenSeq([i \in DOMAIN runs |-> Sort(runs[i], keys)])

\* Workers deliver in any order; the last one first is the worst.
Gather(streams) == FlattenSeq(Reverse(streams))

\* The smaller of the two first rows, again and again.
MergeTwo(s, t, keys) ==
  LET Step(acc, n) ==
        IF acc[2] > Len(s) \/ (acc[3] <= Len(t) /\ Less(t[acc[3]], s[acc[2]], keys))
        THEN <<Append(acc[1], t[acc[3]]), acc[2], acc[3] + 1>>
        ELSE <<Append(acc[1], s[acc[2]]), acc[2] + 1, acc[3]>>
  IN FoldLeft(Step, <<<<>>, 1, 1>>, [n \in 1..Len(s) + Len(t) |-> n])[1]
GatherMerge(streams, keys) == FoldLeft(LAMBDA s, t : MergeTwo(s, t, keys), <<>>, streams)

\* The first row of each stretch of equals.
Unique(rows, cols) == LET runs == Runs(rows, cols) IN [i \in DOMAIN runs |-> runs[i][1]]
\* Equals are found wherever they are; the results come out in no useful order.
Firsts(rows, cols) == {i \in DOMAIN rows : \A j \in 1..i - 1 : ~Alike(rows[j], rows[i], cols)}
Buckets(rows, cols) ==
  LET firsts == Reverse(InOrder(rows, Firsts(rows, cols)))
  IN [n \in DOMAIN firsts |-> SelectSeq(rows, LAMBDA x : Alike(x, rows[firsts[n]], cols))]
HashUnique(rows, cols) == LET buckets == Buckets(rows, cols) IN [n \in DOMAIN buckets |-> buckets[n][1]]

\* One row for some rows alike in cols, with the sum of v.
Summary(rows, cols, withSum) ==
  [c \in Columns |-> IF c \in cols THEN rows[1][c]
                     ELSE IF c = "v" /\ withSum THEN SumSeq([i \in DOMAIN rows |-> rows[i][c]]) ELSE Null]
Summaries(groups, cols, withSum) == [n \in DOMAIN groups |-> Summary(groups[n], cols, withSum)]

\* Sorted input is grouped by several prefixes of its columns at once, the longer before the shorter.
RollUp(rows, prefixes, withSum) ==
  IF rows = <<>>
  THEN LET empty == SelectSeq(prefixes, LAMBDA p : p = {})
       IN [n \in DOMAIN empty |-> Summary(<<>>, {}, withSum)]
  ELSE LET Ended(i) == SelectSeq(prefixes, LAMBDA p : i \in RunEnds(rows, p))
           Group(i, p) == Summary(SubSeq(rows, RunStart(rows, p, i), i), p, withSum)
       IN FlattenSeq([i \in DOMAIN rows |-> LET e == Ended(i) IN [n \in DOMAIN e |-> Group(i, e[n])]])

\* Each row's column gets the sum of v up to its last peer in its partition.
WindowAgg(rows, column, partition, order) ==
  LET parts == Runs(rows, partition)
      LastPeer(part, i) == CHOOSE e \in RunEnds(part, order) : e >= i /\ ~\E f \in RunEnds(part, order) : f \in i..e - 1
      SumTo(part, e) == SumSeq([k \in 1..e |-> part[k].v])
  IN FlattenSeq([n \in DOMAIN parts |->
                   [i \in DOMAIN parts[n] |->
                      [parts[n][i] EXCEPT ![column] = SumTo(parts[n], LastPeer(parts[n], i))]]])

Limit(rows, offset, count) == SubSeq(rows, offset + 1, IF offset + count < Len(rows) THEN offset + count ELSE Len(rows))
===============================================================================
