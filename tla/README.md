# PilotScope for PostgreSQL: models, checks and proofs

PilotScope patches PostgreSQL 13 so that a Python program can steer the planner. A client prefixes a
statement with a comment `/*pilotscope {json} pilotscope*/`. The JSON names *anchors*: replace the
cardinality of listed sub-queries, collect the sub-queries and their estimates, measure the execution
time, fetch the records. The backend plans and runs the statement accordingly and sends one JSON answer
back over HTTP, to a URL and port that are in the comment too. With `enableTerminate` it then raises an
error, so that the statement itself is not executed.

The program's own code is about 3,000 lines of C around a copy of PostgreSQL's `optimizer/` directory.
It is small and written for one case: one comment, one statement, run to its end. The models ask what it
does in the others: when queries nest, when errors unwind them, when cursors and cached plans separate
planning from execution, when a peer is slow or dies, and when the comment is unusual but legal.

A replaced cardinality is worth nothing if the planner it steers is wrong, and the text a sub-query is
known by is taken from that planner's paths. So the models follow the copied planner too, wherever a
decision can be checked by its consequences: every path it may choose is run on rows, and must give the
rows and the order of the statement, whatever the costs are.

## 1. Inventory

| Component | State | Operations | Module |
|---|---|---|---|
| Hooks and comment parser (`pilotscope.c`, `parse_json.c`, `anchor2struct.c`) | four anchor pointers, `pilot_transdata`, `anchor_num`, `anchor_time_num`, `subquery_count`, `enableSend`, `enableTerminate`: C globals of the backend | planner hook, ExecutorStart hook, ExecutorEnd hook, `parse_json`, `end_anchor`, `free_all_struct` | `AnchorSession` |
| Estimates (`optimizer/path/costsize.c`, two patched functions) | the arrays in `pilot_transdata` | record an estimate, replace an estimate | `AnchorSession` (record), `CardTable` (replace) |
| Sending (`send_and_receive.c`, `utils/http.c`) | one socket per call, two attempt counters | connect, send, wait, resend, receive, give up | `SendReceive`, `Delivery` |
| Cardinality table (`utils/hashtable.c`, `store_aimodel_subquery2card`) | `table`, `table_size` | create, put, get | `CardTable`, `CardMap` |
| JSON to struct (`utils/cson.c`, `utils/cjson_impl.c`) | none | read an object by a reflection table; print a struct | `Cson` (reading) |
| Sub-query text (`utils/subplanquery.c`) | buffers `sub_query`, `relation`, `clauses` | print a base relation, print a join | `SubqueryText` |
| Path lists (`pathnode.c`, `pathkeys.c`) | `pathlist`, `partial_pathlist`, the cheapest paths | add, precheck, choose, look up | `PathList` |
| Equivalence classes and join clauses (`equivclass.c`, `relnode.c`, `initsplan.c`) | `eq_classes`, the clauses of each join and parameterisation | merge, generate, move | `EquivClasses`, `JoinPaths` |
| Join order (`initsplan.c`, `joinrels.c`, `allpaths.c`) | `join_info_list`, `join_rel_level` | deconstruct, search | `JoinTree`, `JoinSearch` |
| Upper planner (`planner.c`, `createplan.c`) | the upper relations' paths | group, window, distinct, order, gather | `UpperPlanner`, `PathNodes`, `Executor` |
| Append relations (`allpaths.c`, `plancat.c`) | parts and their paths | exclude, append, merge | `Appends` |
| Expressions (`clauses.c`, `predtest.c`, `orclauses.c`) | none | fold, inline, classify, prove | `Expressions`, `ConstFolding`, `Predicates` |
| Scans (`indxpath.c`, `tidpath.c`, `createplan.c`) | a relation's paths, `predOK` | match, build, choose, make the plan | `IndexScans`, `ScanPlans` |
| Join methods (`joinpath.c`, `analyzejoins.c`, `createplan.c`) | a join relation's paths | remove, merge, nest, hash, make the plan | `JoinMethods`, `JoinNodes` |
| Rest of the planner (`costsize.c`, `setrefs.c`, `subselect.c`, ...) | | | not modelled; costs are inputs or free choices |
| Hook installation (`_PG_init`, `_PG_fini`) | the server's hook pointers, `prev_*` | load, unload | the one effect, `prev_planner_hook`, is in `AnchorSession` |
| `plugin/pg_buffercache` | a snapshot kept across calls of a set-returning function | first call, next row | not modelled |
| `utils/cJSON.c` | | | third party, not modelled |
| makefile, dockerfile, SQL and shell scripts | | | not modelled; the dockerfile fixes the server (13.1, assertions on) |

How they interact. The planner hook calls `parse_json` with the statement text. `parse_json` allocates
the anchors and `pilot_transdata` in the memory of the current statement, stores pointers to them in
globals and calls the cardinality table. The (renamed) standard planner then makes estimates, and the
patched functions of `costsize.c` look at the globals. Back in the hook, the anchors that are done are
counted down; ExecutorStart sets a timer, ExecutorEnd reads it and counts its anchor down. Whoever finds
nothing left to count calls `end_anchor`, which sends the answer with `send_and_receive`, frees the
structs and may raise an error.

Inside the planner: conditions are folded (`clauses.c`) and the join tree is taken apart (`initsplan.c`),
which makes the equivalence classes and the list of outer joins. Each base relation gets its scan paths,
each pair of relations the search allows gets its join paths; every path goes through `add_path`. For
each relation made, `costsize.c` asks for the size, and there the sub-query's text is built and looked up.
`planner.c` stacks grouping, windows and ordering on the last join, and `createplan.c` turns the chosen
path into a plan.

What is hard about it:

* **Re-entrance.** The backend has one thread, but a function in a query plans and runs queries of its
  own, through the same hooks and over the same globals.
* **Lifetimes.** The globals point into memory that goes away with the statement; nothing clears them.
* **Planning without execution and the reverse.** `EXPLAIN`, `PREPARE`, cursors, plan caches.
* **Errors**, the program's own (`enableTerminate`, an unknown anchor) among them: they skip the rest of a
  hook and may be caught by a function half way up.
* **A blocking, resending client** over TCP with no end to a read but the peer's close.
* **Numbers and arrays taken as they come**: `table_size` is a product of two ints, buffers have fixed
  lengths, two lists are assumed to match.

What makes each component correct:

* *Hooks*: an answer is complete, has arrays as long as their counts and the time of the statement that asked; it
  does come; a statement to be terminated is not run.
* *Sending*: success only after the data was read; bounded copies; a call returns with a result, also when the
  process is at its limit of sockets.
* *Table*: it is a map; estimates are replaced exactly as this comment says; no memory but its own is used.
* *Sub-query text*: whichever paths are cheapest, it names the conditions of its sub-query and no other's.
* *Path lists*: nothing worth having is lost; lists stay sorted, since the searches stop early on that.
* *Classes and clauses*: every join tree enforces every clause once, however clauses were replaced and moved.
* *Join order*: all orders allowed give the rows of the statement, and one is always left.
* *Expressions*: folding keeps the value on every row; what is proved follows.
* *Scans, join methods, appends, upper planner*: every plan that may be chosen can be made, gives the rows
  asked for, and has the order it claims; nothing that may leak is called early.

`PROJECT.json` lists these components, and under `hazards` every place found in this code where something
can go wrong that a test would hardly reach.

## 2. Modules

### AnchorSession

One backend. A *query* is one call of the planner hook and the execution of its plan; queries are
numbered, `nq` counts them, `stack` holds those in progress, innermost last. For each query the model has
its `text` (no comment, a comment, a comment without its mandatory members), its `stage`, whether its
`QueryDesc` has a `timer`, and the number of `estimates` made for it. The C globals are variables under
their names. A pointer with its struct is a record: `ptr` is `null`, `live` or `stale`, `home` is the query
whose memory it is in, and then the fields that matter.

| Action | Code |
|---|---|
| `PlanPlain`, `PlanCommented`, `PlanMalformed` | `pilotscope_hook_planner` up to the choice of a planner: all of `parse_json`, with `init_some_vars`, `parse_relative_infomation`, `for_each_anchor` |
| `Estimate` | the recording halves of `set_baserel_size_estimates`, `calc_joinrel_size_estimate` |
| `PlannerReturns`, `PilotPlannerReturns` | the rest of the planner hook; the second processes the card and sub-query anchors |
| `EndAnchor` | `end_anchor` as called from the parser, the planner hook or ExecutorEnd (`AfterEnd` says where it returns to) |
| `ExecutorStart` | the hook with `set_timer_for_exeution_time_fetch_anchor` |
| `MeasureTime`, `SkipMeasure`, `Close` | the ExecutorEnd hook |
| `ExecuteCachedPlan`, `DiscardPlan`, `Suspend`, `Resume` | PostgreSQL: cached plans, EXPLAIN or PREPARE, cursors |
| `StatementError`, `Unwind` | any `ereport(ERROR)`, and who catches it: frame `k` of the stack, or nobody |

Undefined behaviour. A read through a stale pointer returns either value. A write or a free through one
either ends the process (`crashed`) or goes unnoticed. Either way the ghost `tainted` is set, and what is
done to the bytes of others is not modelled. So properties about the contents of an answer speak of
answers that were `clean`, that is made before any freed memory was used; properties about the freed
memory itself would be false (see Disagreements). `Apart(q)`, a ghost too, says that no other comment has been
parsed since that of `q` nor is the comment of a statement still at work: two comments, one inside the other's
statement, share flags, counter and arrays, and neither need be answered rightly.

The content of an answer is what the properties need of it: which query's `pilot_transdata` it is (`tid`),
which query was at work (`by`), whose time it carries, the anchor names and the estimates with their two counts.
Sending is one step here; `SendReceive` is what it consists of. It always takes the frees with it, because
`end_anchor` ignores the result.

### SendReceive, Delivery

`SendReceive` is `send_and_receive` with the five functions of `utils/http.c`, one action per blocking point
(`pc`), against an environment that starts and stops listening, reads a copy and answers it, or closes,
keeping or losing answers on the way, or never closes. `WAITE_TIME` is a wait that may end at any time when there is
nothing to read; so a time-out races with an answer in every possible way. `conn[c]` is the connection of
call `c`: copies sent and not read, answers sent and not received. An old call's connection lives on when
the next call starts. `fds` counts the sockets the process holds: attempts to connect add to it and nothing takes
away, up to `MaxSockets`, the limit of the system; from then on `socket` fails. `result` is how a call ended by
what it logs, `returned` the value it returns: 1 also when `select` failed or the answer was no success
(`send_and_receive.c:197`), a value `end_anchor` does not look at.

`Delivery` is what the callers may rely on: calls come one after another, end once, a successful one was
received at least once, none more than `MaxCopies` times. `SendReceive!Delivers` is its specification under
the mapping *result to ok/failed*, *processed to received*.

### Cson, CardTable, CardMap

`Cson` reads a JSON object into a struct by a reflection table, with the quirks of `cson.c`: an array keeps
its room when an item fails, the others move up, the count is that of the successes; a number that is no
number is read as `valueint`.

`CardTable` follows one anchor from its JSON to the planner: `anchor_handler` reads it and makes the table,
`put` is one turn of the loop of `store_aimodel_subquery2card`, `Replace` and `KeepOwn` are the lookups in
`costsize.c`. The table is a function from bucket to chain. `hash_bytes` is an arbitrary function chosen at
the start, so a run covers every collision pattern. `IntWrap` gives `table_size` its width. A cardinality
is counted in ten-thousandths of a row, so that both roundings (`"%.3f"`, then `rint`) are exact integer
arithmetic; a printed number has the size that decides whether it fits its buffer.
`PutCrashes`, `ReplaceCrashes` and `PutGarbage` are the undefined outcomes: division by zero, `NULL` text,
and reading beyond `subquery`.

`CardMap` is a map that is emptied, filled and asked. `CardTable!IsMap` is its specification with the map
defined by searching the chains.

### PathList

`add_path` and `add_partial_path` as loops, one step for each path of the list looked at, with the removals
and the insertion point as they are kept meanwhile; `set_cheapest`; the prechecks and the searches as
operators. `offered` is what was ever offered. Dominance is fuzzy and not transitive, and a new path removes
old ones before it is itself turned away: the ghost `slack` counts, for each list, the paths removed
or turned away, and `OfferedMatched` allows one fuzz factor for each of them, the strongest form that holds.
Costs are integers with a fuzz of one per cent; the proofs take any rational factor of at least one.

### EquivClasses, SubqueryText, JoinPaths

`EquivClasses` has `process_equivalence` and the merging of classes, what classes give to a relation
and to a join (with the "broken" class whose operators are missing). A class is a sequence of members, as in the
code, which links members it meets in that order: `Firsts`, `Lasts` and `Chain` name members by their positions.
`JoinPaths`
builds a forest of join trees: `Scan` and `Join` are one parameterised or plain path each, with the clauses
it enforces worked out as `relnode.c`, `pathnode.c` (`create_nestloop_path`) and `joinpath.c` do. `SubqueryText`
says for each path and relation which clauses `get_single_rel`, `get_join_rel` and `get_path` print: the base
relations' own, the join's own, those in the cheapest path of each side, less those a foreign key has taken
out. A text is the set of its clauses.

### JoinTree, JoinSearch

`JoinTree` goes from the joins as written to `min_lefthand`, `min_righthand`, `delay_upper_joins` and the
places of conditions (`make_outerjoininfo`, `distribute_qual_to_rels`). A statement is its joins from the
innermost outwards; each has the whole of a lower join on one side, or nothing of it. `SidesWithin` says
that the minimal sides lie in the sides written and are not empty, `PlacedRight` that no condition which is
pushed down is evaluated below an outer join that can null it. `JoinSearch` is the dynamic programming, one
relation of one level after another: `join_is_legal` with all its cases, the heuristics about clauseless
joins, the swapping, the unique-ified semijoins, and both places where the search gives up ("failed to build
any %d-way joins"). Each pair joined is also evaluated on a database, so that two ways to make one relation
are compared by their rows.

### Executor, PathNodes, Appends, UpperPlanner

`Executor` says what plan nodes do with rows; a node that needs sorted input compares neighbours only.
`PathNodes` holds the statement, the path keys and the sorting and gathering nodes. `Appends` makes the paths
of a relation with parts: constraint exclusion, `accumulate_append_subpath` with its dissolving of a child's
Append, parallel appends, `generate_orderedappend_paths`, the order of bounds. `UpperPlanner` is one action
for each stage: preprocessing of grouping sets (`extract_rollup_sets`, `reorder_grouping_sets`), scan or join,
partial grouping, grouping, windows, DISTINCT, ORDER BY and the end. A behaviour takes any one of the paths
offered at each stage, since any may be the cheapest, and runs it as it grows: `path.streams` has the rows of
each worker.

### Expressions, ConstFolding, Predicates

`Expressions` has the nodes, their values on a row at a moment (parameters, clock, random numbers) and the
questions of `clauses.c`. `ConstFolding` is `eval_const_expressions` with the inlining of SQL functions.
`Predicates` is `predtest.c` and `orclauses.c`. They are functions on expressions; `MCExpressions` enumerates
the expressions and holds the specification: build one larger, fold it, prove one from another.

### IndexScans, ScanPlans

`IndexScans` matches clauses to index columns and enumerates index, bitmap and row-address paths.
`ScanPlans` is the life of one relation: judge the partial indexes, match, scan, OR paths, bitmaps, row
addresses, plan. `create_plan` says what each plan looks up, tests again and filters, and the properties run
it over rows of the relation for every pair of outer values.

### JoinNodes, JoinMethods

`JoinNodes` has the executor's joins; the merge join is the state machine of the executor, with marks, over
whatever order it is given. `JoinMethods` goes through `add_paths_to_joinrel`: removal or reduction of the
join, merge clauses, the sorted, unsorted, parallel and hashed paths, and `create_join_plan` of any one of
them.

## 3. What the runs show

Every run's cfg is `<module>_<run>.cfg`. Deadlock is not checked except in `upper`: a session may end, a
backend may crash, a bounded number of queries, calls or comments runs out, a plan is made and that is all.
Some properties are conjunctions of named parts, each with its comment in the module.

| Run | Bounds | Shows |
|---|---|---|
| `sessions` | 3 queries after or inside one another (depth 2), one with any of 12 comments or two with one each, cursors, cached plans, errors; 291k states | `ReportComplete` (also when uncommented queries run inside the statement), `ReportArraysFit`, `StuckUnanswered` (a disabled, repeated or unprocessed entry keeps the answer from ever being sent), `TimeIsOfFirstEnd` (whose time an answer carries), `TerminatedBeforeExecution`, `RequestAnswered`, `TypeOK` |
| `calls` | 3 calls, `MAX_SEND_TIMES` = 2 as configured, 2 sockets; 34k states | `TypeOK`, `Delivers`, `GivesUpWithoutSocket` (what follows when the sockets are used up) |
| `ends` | one call | violated: a call answered over a connection that stays open never returns |
| `stored` | two comments of up to 4 items, any hash; 148k states | `ChainsSound`, `IsMap`, `ReplacedAsAsked`, `PlainIsClean` |
| `nocards` | one comment | violated: empty lists divide by zero |
| `kept` | 3 of 30 paths, either list | `ListsSorted` (type and order, also half way through a scan), `OfferedMatched`, `PrecheckSound`, `ChoicesRight` (`set_cheapest` and the searches) |
| `inner` | 9 queries of up to 4 relations, all orders of clauses, all trees, at most 2 parameters; 114k states | `ClassesSound`, `EqualityEnforced`, `ClausesPlaced` (none lost, none twice), `ParameterisedAlike`, `TextNamesJoin` |
| `orders` | about 4000 statements of 3 and 4 relations; 134k states | `SearchSound` (levels hold what they are to hold, no assertion or sanity check fails, conditions are where they may be, one join of all relations at the end), `SameRows` (every order has the rows of the statement, and there is one) |
| `upper` | about 760 statements, a table of 7 rows and an empty one, 11 relations with parts, 2 workers; 27k states | `SortedAsClaimed`, `AnswersQuery`, `GroupingSound` (a statement is refused only if nothing could do it, and every way to compute grouping sets computes each of them as often as asked) |
| `exprs` | 70 simple conditions, one step larger: about 19,000 | `FoldedAlike`, `ConclusionsFollow`, `AnswersRight` |
| `scans` | about 13,000 relations: 12 kinds of index, up to 2 conditions, 2 other relations | `RowsRight` (right when read, and when a changed row is tested again), `InClaimedOrder`, `NothingLeaks`, `UniqueOfOwn` |
| `joins` | 16,177 joins of 7 by 7 rows with duplicates and nulls, 2 workers | `RightRows`, `InClaimedOrder`, `PlanSucceeds` |

### Disagreements

The runs `nocards` and `ends` each show a disagreement between the code and what is said of it; `findings` in
`PROJECT.json` quotes the comments. Others were met while modelling. Some are properties that say what the code
does; others are why properties carry conditions.

In the program's own code:

* `init_some_vars` (`anchor2struct.c:147`) clears no anchor pointer. A comment without the sub-query anchor is
  planned with the pointer an earlier one left, and collects estimates when that memory still says so.
  `pilotscope.c:134-135`: "are set to 1 if there are corresponding anchors in json".
* The ExecutorEnd hook (`pilotscope.c:290`) takes whatever query ends first for the commented one, also a
  query run by a function inside it, and also a cursor opened before, which has no timer: `InstrEndLoop` gets
  NULL. `pilotscope.c:287-288` speaks of "the execution time recorded by timer set before". `TimeIsOfFirstEnd` is
  what the code does: the time stored is that of the first query to end since the comment was parsed, and hides
  the statement's own.
* The retry limit is tested between a resend and its wait (`send_and_receive.c:122`), so the last copy is never
  waited for, against the comment at 97-99.
* `http_tcpclient_recv` (`utils/http.c:82`) reads until the peer closes, though the request asks for
  "Connection: Keep-Alive" (`utils/http.c:160`); and a silent close leaves a NULL buffer that is read
  (`utils/http.c:206`), where `send_and_receive.c:97-99` promises to "report failure information and just return".
  The run `ends` shows the first.
* `send_and_receive.c:99-101` says that a successful call shuts its socket down "in case of two many socket
  connections occupied in the system resources". `shutdown` does not close a socket, and neither does anything
  after a failed attempt to connect (`utils/http.c:53`): no socket is ever given back, and a backend comes to the
  limit. `GivesUpWithoutSocket` is what follows: every call from then on gives up, and its statement goes on
  without an answer.
* `pilotscope.c:132` calls `anchor_num` the number of unprocessed anchors; `for_each_anchor` also counts
  disabled, repeated and ignored entries, which no hook counts down. `StuckUnanswered` says what comes of it: a
  comment with such an entry is never answered, though its other anchors are processed. For the same reason a
  statement with one is not terminated.
* Sub-query texts are also built for parameterised joins (`calc_joinrel_size_estimate` is called by
  `get_parameterized_joinrel_size`), with clauses that name relations not in FROM, against
  `subplanquery.c:327-329`; clauses matched by a foreign key are taken out before the text is made; clauses
  moved into the inner side are lost when the nested loop keeps some of its own, when the parameterised scan is
  on the outer side, and under Material or Unique; the arguments `inner_rel` and `outer_rel` are exchanged at
  `costsize.c:4999` and `5013`. `TextNamesJoin` excludes texts that lost clauses (`text.lost`).
* As printed, not modelled: outer joins appear as comma lists, columns are unqualified, unknown kinds of
  expression vanish, `get_rel_name(0)` is NULL for a sub-select (`subplanquery.c:238`), texts of one relation
  have no ";" though the example keys at `parse_json.c:18-22` do, and 2560 bytes may not hold a text.

In the planner of PostgreSQL 13:

* A broken class falls back to its source clauses only for joins seen from then on, so a parameterised path
  built on what the class gave earlier may leave two expressions unequal, while the comments at
  `equivclass.c:895-905` and `1177-1180` expect a loss of speed only. `EqualityEnforced` therefore speaks, where a
  class is broken, of trees that pass no parameters.
* A nested loop whose sides take parameters from different relations may leave a member of a class free. Take
  f(3,4) = g(4) = a(2) = h(1), where only `a` is a plain column: scan 1 parameterised by 3, inside a nested loop
  scan 2 parameterised by 1 and 4, and the result joined with 3 and 4. The inner scan ties `a` to `g`, the loop,
  which counts all of its own relations on one side, ties `a` to `f`, and above it the class counts as done:
  nothing mentions `h` (`relnode.c:1434-1524`). `optimizer/README:468`: "We require all levels of the plan to
  enforce EquivalenceClasses". `Tangled` names the classes this takes: four members or more, one of them of
  several relations. `EqualityEnforced`, `ParameterisedAlike` and `TextNamesJoin` leave them aside in trees that
  pass parameters; without that condition, and with this class among the queries of `MCJoinPaths` (and
  `MaxParams` 2), TLC shows the tree.
* A column that WHERE makes constant is dropped from ORDER BY (`pathkeys.c:1149`) although grouping sets put
  nulls in it; `planner.c:4919` says "All paths in the result must satisfy the ORDER BY ordering." Hence the
  condition `NullsFree`.
* `find_nonnullable_rels` (`clauses.c:1592`) takes `x = ANY (array)` as strict below the top of a condition even if
  the array is empty, where it is false and not null, against `clauses.c:1527-1530`; `contain_nonstrict_functions`
  (`clauses.c:1085-1092`) does too. `AnswersRight` leaves empty arrays aside.
* A partial unique index whose predicate follows only from a join with a third relation is believed to be
  unique for other joins as well (`indxpath.c:3562`, comment at 3478-3481). `UniqueOfOwn` is about indexes whose
  predicate follows from the relation's own conditions.

### Bounds

Why the bounds are enough to be of interest. Comments: the twelve shapes in `MCAnchorSession` take every path
through the hooks: each anchor alone, several in one, none, one unknown after a known one, disabled, repeated,
of an unprocessed kind, with and without an address, with and without termination. Queries: three are the least
with which a commented one can have one before (a cursor or a stale comment) and one after or inside it;
`MaxLoad` bounds queries and the comments among them together, so that a session with two comments has no third
query. A comment inside another's statement is `Explain`, which is answered and terminates, or `Replace`, which
is not answered. Calls: three in a process of two sockets, so that an old connection's late reader meets a new
call, and a call finds no socket left in its first attempt or in its second. Table: texts `q1`, `q2` with hashes
in {0, 4}, which collide in tables of one and four buckets but not of nine; ints of five bits, so that four
pairs (16 > 15) wrap to a negative size; two comments, so that there is an older table to confuse the new one
with. The numbers are on both sides of each rounding and of the buffer's length (8 bytes in place of 32).

Paths: two startup costs and three total costs one fuzz apart, six shapes of order, parameterisation
and safety; three offers are the least that show intransitive dominance. Clauses: four relations let a chain
be split by any bushy tree, and two parameters let a nested loop pass one and keep one; the queries have
chains, expressions of two relations, a constant, and missing operators at a join, a relation and a constant.
Join orders: three relations take every case of `join_is_legal` once, four let an outer join lie between two
others, and both collapse limits split the list or not. Rows: in every module the rows have duplicates, nulls
and all combinations of the compared values that matter; `upper` has no two groups with the same sum, `scans`
24 rows with 9 pairs of outer values, `joins` every pair of multiplicities 0, 1, 2 of a value on both sides.
Orders are ascending with nulls last, except index scans, which run both ways. Two workers are the least that
can split a group.

Where two comments share the globals (`Apart` is false), `ReportComplete`, `StuckUnanswered`,
`TerminatedBeforeExecution` and `RequestAnswered` claim nothing: the outer comment's flags and counter are lost.

### Liveness and fairness

* `RequestAnswered` is under weak fairness of the hooks' steps, taken together: a backend does not stop in the
  middle of the statement it has; planner, executor and error recovery go on with the innermost query. What
  clients and functions do next (issue a query, fetch, fail) is not fair. As some hook's step is enabled as long
  as a statement is at work, this also says that a function in it does not open and leave cursors for ever. The
  property excuses queries that fail or are never run, those that share the globals with another comment, and
  those after freed memory was used.
* `GivesUpWithoutSocket` and `CallReturns` are under `WF(Client)`, the same justification: a call takes its next
  step when it can. Nothing is assumed of the Python side, whose server is not in this repository, nor of the
  network. A wait may be as long as it likes but ends, as `select` has a time limit; a `recv` has none.

## 4. What is proved

The proofs hold for all values of the constants: for all sets of comments, all bounds, every hash function and
width of int, all paths, any number of relations, all classes, clauses and join trees. They assume only the
named `ASSUME`s of the modules, which TLC evaluates in every run. `RequestsAssumption`, `TextsAssumption`,
`BoundsAssumption`, `SendAssumption`, `NoneAssumption`, `KeysAssumption`, `NullAssumption`, `NumbersAssumption`,
`OtherClausesAssumption`, `LimitAssumption` and `BoundAssumption` give the constants their types. The others
say what the rest of the program sees to:

* `CommentsAssumption`: a JSON array has finitely many items.
* `FuzzAssumption`, `PathsAssumption`, `RowsAssumption`: the fuzz factor is a rational of at least one, no path
  starts later than it ends, and paths of one parameterisation have one row count.
* `ExprsAssumption`, `QueriesAssumption` of `JoinPaths`: a plain column is of one relation; an equality has two
  different sides, one of them no constant, and an operator for their types.
* `QueriesAssumption` of `UpperPlanner`: grouping sets are of columns of GROUP BY and those with fewer columns come
  first, as the parser and `expand_grouping_sets` leave them.
* `StatementsAssumption`: each side of a join is one relation or all of an earlier join, the last join has all
  relations, and a condition mentions only relations of its join and at least one.

What a run checks and a theorem states has one name in both, so neither says less than the other. An invariant
listed with a theorem is inductive; the runs checked it first.

**AnchorSession**

* `AnchorSessionProofs!TypeCorrect`: `Spec => []TypeOK`. `TypeOK` is inductive; one step per action.
* `AnchorSessionProofs!ArraysFit`: from `FitInv`, that the counts fit the arrays of a live `pilot_transdata`
  and of every clean report. A hook that counts also appends, in one step.
* `AnchorSessionProofs!TimeOfFirstEnd`: `Spec => TimeIsOfFirstEnd`, however queries nest, cursors are left open and
  errors caught. `TimerInv` says that a live execution-time anchor that is still enabled has not been used since the
  comment it is of, or a later one, was parsed: no query from its home on has ended, and `pilot_transdata` of the
  same home has no time. Only ExecutorEnd stores a time, and clears the flag in the same step; a new comment takes a
  home larger than all (`BeginKeeps`); what leaves the stack takes its memory along (`LeavingSpends`).
* `AnchorSessionProofs!CompleteAnswers`, `!StuckGetsNone`, `!TerminatedInTime`: `ReportComplete`,
  `StuckUnanswered` and `TerminatedBeforeExecution`, under the hypothesis `Flat`: statements come one after the
  other, no function issues queries and no cursor stays open. With nesting they are model-checked only, by
  `sessions`. One invariant serves all three. `FlatInv` says that the statement at work is the last one begun;
  that the globals point into its memory or nowhere usable, though nothing clears them; that the flags still set
  are the anchors the comment wants less those whose names are in the answer already, with `anchor_num` and the
  arrays to match; and at which stages a statement to be terminated can be.

**Sending**

* `SendReceiveProofs!TypeCorrect`: `Spec => []TypeOK`.
* `SendReceiveProofs!Implements`: `Spec => Delivers`. `DeliveryInv` is `TypeOK` with `CallInv` (calls not yet begun
  have no connection and no result; a call in progress has none; the attempts stay within
  `MAX_SEND_TIMES`), `CopiesInv` (copies on the way plus copies read never exceed copies sent) and
  `AnswersInv` (an answer on the way or in the buffer means that a copy was read).

**Cardinality table**

* `CardTableProofs!SoundChains`: `Spec => []ChainsSound`, inductive together with `TypeOK`. `PutInSound` says what
  `put` does to one chain.
* `CardTableProofs!Implements`: `Spec => IsMap`. By `SoundChains` and the lemmas `PositionFinds` and `GetAfterPut`:
  after a put the search finds the new value, and finds for every other text what it found before.
* `CardTableProofs!AsAsked`, `!PlainClean`: the action properties `ReplacedAsAsked` and `PlainIsClean`. The map
  alone does not give them: they relate the table to the comment it was made from. `StoreInv` says that the
  anchor is what `cson` makes of this comment (`DecodedPairs`: with no failing item every item stays where it
  was) and that after `i` turns of the loop a sub-query is found exactly when it is among the first `i` pairs,
  with the cardinality of the last one of them as printed (`Filed`). So nothing of an older comment's table is
  found. `PlainIsClean` is about memory and about division by zero. It needs the size of the table (`SizeInv`) and
  `RoomInv`: every entry has room for the numbers its text is still to be given, since it was allocated for the first
  of them. `Plain` says what such a comment is; each of its conditions excludes something that can go wrong.

**Path lists**

* `PathListProofs!TypeCorrect`, `!StaysSorted`: `ListsSorted` from `SortedInv`, which relates a half-finished scan to
  the list: what lies up to the insertion point is no dearer than the new path, what was passed after it is dearer;
  removals move both places.
* `PathListProofs!NothingLost`: `OfferedMatched` from `OfferedInv`, where the path being compared counts as held. It
  rests on `MatchesThrough`: if k is as good as q up to the fuzz, and q as good as p up to f, then k is up to f
  times the fuzz, for keys, parameters, rows, safety and both costs. Dominance is not transitive, so nothing
  stronger carries over a removal.
* `PathListProofs!PrecheckTurnsAwayRightly`: `PrecheckSound`, from the order of the list and the row counts.
* `PathListProofs!ChoicesAreLeast`: `ChoicesRight`. The loops of `set_cheapest` and of the searches are
  recursive functions on the places of the list. `Recursion` (in `ListOpsProofs`, as is `Induction`) shows that
  such a function exists and `Induction` that what each step keeps holds at the end, both by the least place
  where they would fail. `ChosenOf` says what has been chosen of the paths seen: that a best parameterised path
  stays best although subsets are a partial order needs that a smaller parameterisation always wins
  (`LeastParamKept`).

**Classes, clauses and join trees**

`WholeInv` is the invariant of the theorems of `JoinPathsProofs`. Its part `MergeInv` says of the classes that
they are apart, cover the clauses done, hold only what these link, and keep every source; `Forest` that no two
trees share a relation; `Placement` what each tree tests and carries; `QualsGiven` what the relations have been
given of each class, or that it is broken and gave its clauses back; `Plain` what a tree without parameters
tests and makes equal.

* `JoinPathsProofs!SoundClasses`: `Spec => []ClassesSound`; connectedness over all sets of expressions
  (`Linked`) makes the merge of two classes a statement about sets, without induction over chains of clauses.
* `JoinPathsProofs!EveryClausePlaced`: `Spec => []ClausesPlaced`, for trees with parameters too. What a nested loop
  drops is what its sides, given their parameters, test (`join_clause_is_movable_into` on both sides); nothing is
  tested twice, as the clauses of the sides and those kept are apart.
* `JoinPathsProofs!EqualInPlainTrees`: the half of `EqualityEnforced` about trees that pass no parameters, and for
  those without its conditions on broken or tangled classes. A join makes equal what is new, ties it to one
  side, and ties the sides; each side was equal already (`JoinTies`, `JoinEquates`). The steps of the next two
  theorems rest on it.
* `JoinPathsProofs!EqualWithParameters`, `!AlikeHoweverBuilt`: `Spec => []EqualityEnforced` and
  `Spec => []ParameterisedAlike`, for trees that pass parameters. `FullInv` adds `Parameterised` to `WholeInv`: a path
  tests each clause its relations were given that it can, carries the others up (`TakesOver`), and makes equal all
  it can compute of a class once its parameters are equal (`Tied`). That this survives a join is argued by one
  division of a class in two. If no clause enforced crosses it and the parameters lie on one side, all the tree can
  compute must lie there (`CutOfJoin`): either the class gives the join no clause, or the nested loop ties it again
  (`TiedAgain`), or a clause links new members to the inner side (`CutLinks`), and each side is undivided already.
  `Tangled` excludes the classes for which the choice of one member a side is not enough; the proof uses it as
  the code's comment does: all members of single relations, or at most three members.
* `JoinPathsProofs!TextsNameJoins`: `Spec => []TextNamesJoin`. `TextInv` adds to `FullInv` what paths print (`Prints`)
  and what texts name (`Tells`). If both sides take no parameters the text holds all the join enforces. If the inner
  side is a parameterised scan, its clauses are not printed, and those of the join may be others than the nested loop
  keeps; but the join's list, what the outer side enforces and the quals of the relations are all clauses of the
  query there are, and tie each class (`ScanJoinTells`). Foreign keys only take clauses out (`PrintedOfList`).

**Join tree**

`TreeInv` is `SidesWithin`, `PlacedRight` and `AssertionsHold` with the infos' origins (`Listed`) and scopes of
conditions (`InScope`). `LeastDelay` characterises `check_outerjoin_delay`'s loop as the least set closed under what
the outer joins call for; `WithinDelay` then bounds it by the join's own relations.

* `JoinSearchProofs!NoAssertionFails`, `!OwnSides`, `!PushedNoLower`: `AssertionsHold`, `SidesWithin`,
  `PlacedRight`, three conjuncts of `SearchSound`.
* `JoinSearchProofs!SearchIsSound`: `Spec => []SearchSound`, for joins nested in any way, any limit for collapsing
  them and any number of problems planned on their own. Its other conjuncts follow from `SearchInv`. `ListsInv` says
  of the join lists that each divides its scope into parts which are single relations or made by a problem before it;
  `InTurn` that a problem finds its parts made when its turn comes, by the problems before it or by the search itself;
  `RowsInv` that what has been joined so far lies within a part of each problem to come or apart from it, so that no
  join of a later problem is known before that problem begins (it would be missing from its level, as
  `build_join_rel` lists only new relations); `LevelsInv` that a join at level l is the union of just l parts, is
  listed once, and that every known relation which is not inside a part is listed; and that each pair still to be
  tried is of two disjoint joins whose levels add up. `NoneEmpty` gives the sanity check: without special joins
  `join_is_legal` never refuses, and the last-ditch pairs are never none because two parts of the problem are left
  over. With special joins a level may stay empty, as joinrels.c says; that the last one does not is in `SameRows`.
  The lists of pairs are made by loops: `AmongIs` and `FlattenIs` of `ListOpsProofs` say what these collect.

**Upper planner**

* `UpperPlannerProofs!GroupingIsSound`: `Spec => []GroupingSound`, for every statement with any number of
  grouping sets and any columns that cannot be sorted or cannot be hashed. `GroupInv` says that from
  preprocessing on `root` holds what the statement calls for (`RootSound`): the rollups and the sets that can
  only be hashed have, together, each grouping set as often as it is written. How often is a sum, `Total`, of
  the weight of each place of a list; `ListOpsProofs` says what it is of lists joined, flattened, reversed and
  divided, so that moving sets about keeps it. Along the code: a matching of sets with smaller ones falls into
  chains, whatever the matching (`DescentChains`: the next set down is strictly smaller, and none has two above
  it); the chains divide the sets, and the smaller sets of a chain come first (`ExtractIs`); reordering makes
  each set the beginning of those before it, for any ORDER BY (`Reordering`); so the numbers of columns by which
  the executor groups name the right columns (`RollupFaithful`). Then each way to hash some or all rollups only
  moves sets (`SomeWays`, `AllWays`, `AllButFirstWays`); the empty sets are in the first rollup, so none is lost
  when that one alone is sorted (`SetsAfterFirst`). A statement is refused only if neither would do, because a
  set that can only be hashed makes `any_hashable` true, and some rollups to hash are then found
  (`HashingFound`).

**Only model-checked**

* `RequestAnswered`, `GivesUpWithoutSocket`: liveness under fairness, which the prover does not do.
* `ReportComplete`, `StuckUnanswered`, `TerminatedBeforeExecution` where queries nest.
* `JoinSearch`: `SameRows`, which evaluates joins on rows. That outer joins may be exchanged is a theorem about
  what conditions do to nulls, and that some order is left is one about all restrictions together.
* `UpperPlanner`: `SortedAsClaimed` and `AnswersQuery`, which run the nodes on rows (with `TypeOK`, a conjunct of the
  first). The rows are made by folds, `SortSeq` and `SelectSeq`, about which only induction says anything.
* `ScanPlans`, `IndexScans`, `JoinMethods`, `JoinNodes`, `Expressions`, `ConstFolding`, `Predicates`: recursion over
  expressions, plans and rows, with RECURSIVE operators, under which the prover loses its SMT backend.

## 5. Not modelled, and why

* Costs, selectivities and the sizes PostgreSQL estimates itself: a search over numbers nobody asserts
  anything about. Where a cost decides, any choice is taken, which is more behaviours than the code has.
* Of the upper planner: target lists, set-returning functions, set operations, row locks, INSERT, UPDATE and
  DELETE, partitionwise grouping, min/max shortcuts. Of appends: parameterised ones, descending orders,
  sub-queries of UNION ALL, partitionwise joins, pruning at run time. Of scans: parallel copies, lateral
  references, collations, bitmaps of more than two indexes. Of joins: foreign tables, lateral references,
  operators that do not agree on equality. Of classes: outer joins' own equalities, child members, security
  levels. Of expressions: windows, sub-plans, coercions of arrays and domains, leak checks, the cache of operator
  proofs, and the shortcut for identical pointers.
* `setrefs.c`, `subselect.c`, `planagg.c`, `placeholder.c`, `inherit.c`: rewriting of trees, with no choice or
  interleaving in it. `prep/` and `geqo/` are not in `src/`.
* Of sizes: that a parameterised join's rows are capped at those of the unparameterised one (`costsize.c:4842`).
  Of the join search: the error that a full join has no clause to merge or hash with (`joinrels.c:852-855`);
  full joins of `JoinSearch` have one.
* How a sub-query's text is printed, and its length: a text is the set of its clauses.
* `_PG_init` and `_PG_fini`: they assign pointers, and PostgreSQL 13 never unloads a library, so the second
  never runs.
* pg_buffercache: one loop over headers that code outside this repository changes.
* cJSON, and the printing half of `cson.c` (the program does not call it).
* Out-of-memory in `malloc` and `palloc`, the wording of messages, logging, elapsed times.
* What a stray write does to other objects: after it `tainted` holds and nothing is claimed.
* The Python side, except as the peer of `SendReceive`; the executor, except as `Executor` and `JoinNodes`
  say what its nodes do.

## 6. Plan

Done: the program's own code (`AnchorSession`, `SendReceive` with `Delivery`, `Cson`, `CardTable` with `CardMap`,
`SubqueryText`), the planner's decisions from conditions to plans, and the proofs of section 4. To come:

1. `JoinSearch`: that `join_is_legal` leaves an order whatever the special joins (`GivesUp` never holds), as a
   theorem.
2. `CardTable` under nested comments, where the inner comment's table replaces the outer's.
3. `SortedAsClaimed` as a theorem, with the nodes of `Executor` written as recursive functions.
