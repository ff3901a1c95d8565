----------------------------- MODULE JoinSearch -----------------------------
(***************************************************************************)
(* The search for join orders (join_search_one_level and what it calls in  *)
(* optimizer/path/joinrels.c, standard_join_search of allpaths.c): which   *)
(* pairs of relations are joined, in which order, and as which type of     *)
(* join.                                                                   *)
(*                                                                         *)
(* To see that a pair may be joined at all, the model also evaluates it,   *)
(* on a database chosen at the start.  A row gives for every relation its  *)
(* column's value, Null if the row is null-extended there, Absent before   *)
(* the relation is joined, Hidden if it is the inner side of a semijoin.   *)
(* Conditions are applied at joins as createplan.c does.  Paths, costs and *)
(* parameterised joins are left out.                                       *)
(***************************************************************************)
EXTENDS JoinTree, Functions

CONSTANTS
  Databases,       \* functions from Rels to sets of numbers
  Holds(_, _)      \* whether a test holds of the values of a condition's relations

VARIABLES
  tables,
  initial_rels,    \* of the problem at hand
  join_rel_level,  \* for each number of them, the joins built so far in their order
  join_cur_level,
  agenda,          \* pairs of this level still to be tried
  last_ditch,      \* pairs without a condition have been tried at this level
  rows             \* for each relation or join, the results of all ways to compute it

searchVars == <<tables, initial_rels, join_rel_level, join_cur_level, agenda, last_ditch, rows>>
vars == <<treeVars, searchVars>>

------------------------------------------------------------------------------
(* Which pairs of relations may be joined *)

joininfo(rel) ==
  {c \in rinfos : /\ Overlap(c.required_relids, rel) /\ ~(c.required_relids \subseteq rel)}

have_relevant_joinclause(rel1, rel2) == \E c \in joininfo(rel1) : Overlap(rel2, c.required_relids)

Within(info, rel) == info.min_lefthand \subseteq rel /\ info.min_righthand \subseteq rel
InOrder(info, rel1, rel2) == info.min_lefthand \subseteq rel1 /\ info.min_righthand \subseteq rel2

\* A special join that says nothing about a join of rel1 and rel2.
Irrelevant(info, rel1, rel2) ==
  \/ ~Overlap(info.min_righthand, rel1 \cup rel2)
  \/ rel1 \cup rel2 \subseteq info.min_righthand
  \/ Within(info, rel1) \/ Within(info, rel2)
  \/ /\ info.jointype = "SEMI"
     /\ \/ info.syn_righthand \subseteq rel1 /\ info.syn_righthand # rel1
        \/ info.syn_righthand \subseteq rel2 /\ info.syn_righthand # rel2

create_unique_path(info, rel) == info.jointype = "SEMI" /\ rel = info.syn_righthand /\ info.semi_can

Forward(info, rel1, rel2) ==
  \/ InOrder(info, rel1, rel2)
  \/ ~InOrder(info, rel2, rel1) /\ create_unique_path(info, rel2)
Reversed(info, rel1, rel2) ==
  ~Forward(info, rel1, rel2) /\ (InOrder(info, rel2, rel1) \/ create_unique_path(info, rel1))

Matches(rel1, rel2) ==
  {info \in Info : ~Irrelevant(info, rel1, rel2) /\ (Forward(info, rel1, rel2) \/ Reversed(info, rel1, rel2))}

\* Special joins whose right side this join enters from outside.
Entered(rel1, rel2) ==
  {info \in Info : /\ ~Irrelevant(info, rel1, rel2) /\ info \notin Matches(rel1, rel2)
                   /\ ~(Overlap(rel1, info.min_righthand) /\ Overlap(rel2, info.min_righthand))}

MustBeLeftJoin_Any(match) == TRUE
\* Only a left join that rejects the other's nulls may do that.
MustBeLeftJoin(match) == \E info \in match : info.jointype = "LEFT" /\ info.lhs_strict

join_is_legal(rel1, rel2) ==
  LET match == Matches(rel1, rel2)
      entered == Entered(rel1, rel2)
  IN /\ Cardinality(match) <= 1
     /\ \A info \in entered : info.jointype = "LEFT" /\ ~Overlap(rel1 \cup rel2, info.min_lefthand)
     /\ entered # {} => MustBeLeftJoin(match)

------------------------------------------------------------------------------
(* Which pairs are tried *)

has_legal_joinclause(rel) ==
  \E r \in ToSet(initial_rels) : ~Overlap(rel, r) /\ have_relevant_joinclause(rel, r) /\ join_is_legal(rel, r)

have_join_order_restriction(rel1, rel2) ==
  /\ \E info \in NotFull :
       \/ InOrder(info, rel1, rel2) \/ InOrder(info, rel2, rel1)
       \/ Overlap(info.min_righthand, rel1) /\ Overlap(info.min_righthand, rel2)
       \/ Overlap(info.min_lefthand, rel1) /\ Overlap(info.min_lefthand, rel2)
  /\ ~has_legal_joinclause(rel1) /\ ~has_legal_joinclause(rel2)

has_join_restriction(rel) ==
  \E info \in NotFull : ~Within(info, rel) /\ (Overlap(info.min_lefthand, rel) \/ Overlap(info.min_righthand, rel))

Tied(rel) == joininfo(rel) # {} \/ has_join_restriction(rel)
Attracted(rel1, rel2) == have_relevant_joinclause(rel1, rel2) \/ have_join_order_restriction(rel1, rel2)

Pairs(rel, others, wanted) ==
  LET chosen == Among(others, {r \in wanted : ~Overlap(rel, r)})
  IN [i \in DOMAIN chosen |-> <<rel, chosen[i]>>]
After(rels, i) == SubSeq(rels, i + 1, Len(rels))

make_rels_by_clause_joins(rel, others) == Pairs(rel, others, {r \in ToSet(others) : Attracted(rel, r)})
make_rels_by_clauseless_joins(rel, others) == Pairs(rel, others, ToSet(others))

\* Joins of one level less with single relations.
LeftDeepPairs(levels, level) ==
  LET rels == levels[level - 1]
  IN FlattenSeq([i \in DOMAIN rels |->
       IF Tied(rels[i])
       THEN make_rels_by_clause_joins(rels[i], IF level = 2 THEN After(rels, i) ELSE levels[1])
       ELSE make_rels_by_clauseless_joins(rels[i], levels[1])])

\* Joins of k relations with those of level - k, each pair once.
BushyPairsOf(levels, k, other_level) ==
  LET rels == levels[k]
  IN FlattenSeq([i \in DOMAIN rels |->
       IF ~Tied(rels[i]) THEN <<>>
       ELSE make_rels_by_clause_joins(rels[i], IF k = other_level THEN After(rels, i) ELSE levels[other_level])])
BushyPairs(levels, level) ==
  FlattenSeq([k \in 1..level - 1 |->
                IF k > 1 /\ k <= level - k THEN BushyPairsOf(levels, k, level - k) ELSE <<>>])

join_search_one_level(levels, level) == LeftDeepPairs(levels, level) \o BushyPairs(levels, level)

\* Tried when a level would be left empty.
ClauselessPairs(levels, level) ==
  LET rels == levels[level - 1]
  IN FlattenSeq([i \in DOMAIN rels |-> make_rels_by_clauseless_joins(rels[i], levels[1])])

------------------------------------------------------------------------------
(* Evaluating joins *)

Null == -1
Absent == -2
Hidden == -3
Values(row, c) == [r \in c.on |-> row[r]]
Passes(c, row) == (\A r \in c.strict : row[r] # Null) /\ Holds(c.test, Values(row, c))
AllPass(clauses, row) == \A c \in clauses : Passes(c, row)

Put(row, rels, value) == [r \in Rels |-> IF r \in rels THEN value ELSE row[r]]
Combined(row1, row2, rels2) == [r \in Rels |-> IF r \in rels2 THEN row2[r] ELSE row1[r]]

\* A join of two sets of rows, the second over rels2, on the conditions quals.
JoinRows(jointype, rows1, rels1, rows2, rels2, quals) ==
  LET Fit(a, b) == AllPass(quals, Combined(a, b, rels2))
      matched == {Combined(p[1], p[2], rels2) : p \in {p \in rows1 \X rows2 : Fit(p[1], p[2])}}
      lone1 == {a \in rows1 : \A b \in rows2 : ~Fit(a, b)}
      lone2 == {b \in rows2 : \A a \in rows1 : ~Fit(a, b)}
      Extended(lone, rels) == {Put(a, rels, Null) : a \in lone}
  IN CASE jointype = "INNER" -> matched
       [] jointype = "LEFT" -> matched \cup Extended(lone1, rels2)
       [] jointype = "FULL" -> matched \cup Extended(lone1, rels2) \cup Extended(lone2, rels1)
       [] jointype = "SEMI" -> {Put(a, rels2, Hidden) : a \in rows1 \ lone1}
       [] jointype = "ANTI" -> Extended(lone1, rels2)

\* One row for each value of the columns a semijoin compares.
UniqueRows(rows2, columns) ==
  LET Key(b) == [r \in columns |-> b[r]]
  IN {CHOOSE b \in rows2 : Key(b) = k : k \in {Key(b) : b \in rows2}}

Scanned(r, clauses) ==
  {row \in {[q \in Rels |-> IF q = r THEN v ELSE Absent] : v \in tables[r]} : AllPass(clauses, row)}

\* The rows of a statement taken as it is written.
AsWritten ==
  LET Evaluate(j, done) ==
        [s \in DOMAIN done \cup {Scope(j)} |->
           IF s = Scope(j) THEN JoinRows(j.jointype, done[j.left], j.left, done[j.right], j.right, j.quals)
           ELSE done[s]]
      bases == [s \in {{r} : r \in Rels} |-> Scanned(CHOOSE r \in Rels : s = {r}, {})]
      inner == UNION {j.right : j \in {j \in ToSet(statement.joins) : j.jointype = "SEMI"}}
      Step(done, j) == Evaluate(j, done)
  IN {Put(row, inner, Hidden) :
        row \in {row \in FoldLeft(Step, bases, statement.joins)[RelsInQuery] : AllPass(statement.where, row)}}

\* A semijoin is over where both its sides are joined: a row counts once for each value
\* of its inner side that is still there.
Over(joinrel) == UNION {o.syn_righthand : o \in {i \in Info : /\ i.jointype = "SEMI" /\ Within(i, joinrel)
                                                               /\ i.syn_righthand \subseteq joinrel}}
Finished(result, joinrel) ==
  LET hidden == {Put(row, Over(joinrel), Hidden) : row \in result}
  IN [rows |-> hidden, once |-> Cardinality(hidden) = Cardinality(result)]

restrictlist(rel1, rel2) ==
  {c \in joininfo(rel1) \cup joininfo(rel2) : c.required_relids \subseteq rel1 \cup rel2}

RINFO_IS_PUSHED_DOWN(c, joinrel) == c.is_pushed_down \/ ~(c.required_relids \subseteq joinrel)
ClausesOf(infos) == {c.clause : c \in infos}

\* Conditions of an outer join decide which rows match, the others are applied afterwards.
Executed(jointype, rows1, rel1, rows2, rel2) ==
  LET list == restrictlist(rel1, rel2)
      pushed == IF jointype \in {"LEFT", "FULL", "ANTI"}
                THEN {c \in list : RINFO_IS_PUSHED_DOWN(c, rel1 \cup rel2)} ELSE {}
      joined == JoinRows(jointype, rows1, rel1, rows2, rel2, ClausesOf(list \ pushed))
  IN Finished({row \in joined : AllPass(ClausesOf(pushed), row)}, rel1 \cup rel2)

TheRows(rel) == (CHOOSE result \in rows[rel] : TRUE).rows

\* populate_joinrel_with_paths: the results of the ways to do one join.
Populated(rel1, rel2) ==
  LET match == Matches(rel1, rel2)
      Ways(info, outer, inner) ==
        (IF InOrder(info, outer, inner) THEN {Executed(info.jointype, TheRows(outer), outer, TheRows(inner), inner)} ELSE {})
        \cup (IF create_unique_path(info, inner)
              THEN {Executed("INNER", TheRows(outer), outer, UniqueRows(TheRows(inner), info.semi_rhs), inner)} ELSE {})
  IN IF match = {} THEN {Executed("INNER", TheRows(rel1), rel1, TheRows(rel2), rel2)}
     ELSE UNION {IF Reversed(info, rel1, rel2) THEN Ways(info, rel2, rel1) ELSE Ways(info, rel1, rel2) : info \in match}

------------------------------------------------------------------------------
(* The search *)

levels_needed == Len(initial_rels)
LevelEnds == agenda = <<>> /\ (join_cur_level < 2 \/ last_ditch)

\* "failed to build any %d-way joins": at the last level, or at any without special joins.
GivesUp ==
  /\ LevelEnds /\ join_cur_level >= 2 /\ join_rel_level[join_cur_level] = <<>>
  /\ join_cur_level = levels_needed \/ join_info_list = <<>>

Idle == Deconstructed /\ LevelEnds /\ ~GivesUp /\ join_cur_level >= levels_needed

StartLevel(levels, level) ==
  /\ join_cur_level' = level
  /\ agenda' = join_search_one_level(levels, level)
  /\ last_ditch' = FALSE

ScanTables ==
  /\ Deconstructed /\ rows = <<>>
  /\ rows' = [s \in {{r} : r \in Rels} |->
                LET r == CHOOSE r \in Rels : s = {r}
                IN {Finished(Scanned(r, {c.clause : c \in {c \in rinfos : c.required_relids = s}}), s)}]
  /\ UNCHANGED <<treeVars, tables, initial_rels, join_rel_level, join_cur_level, agenda, last_ditch>>

Begin ==
  /\ Idle /\ rows # <<>> /\ problems # <<>>
  /\ initial_rels' = Head(problems) /\ problems' = Tail(problems)
  /\ join_rel_level' = [l \in 1..Len(Head(problems)) |-> IF l = 1 THEN Head(problems) ELSE <<>>]
  /\ join_cur_level' = 1 /\ agenda' = <<>> /\ last_ditch' = TRUE
  /\ UNCHANGED <<statement, join_collapse_limit, next, join_info_list, rinfos, joinlist, failed, tables, rows>>

make_join_rel ==
  /\ agenda # <<>>
  /\ agenda' = Tail(agenda)
  /\ LET rel1 == Head(agenda)[1]
         rel2 == Head(agenda)[2]
         joinrel == rel1 \cup rel2
         known == IF joinrel \in DOMAIN rows THEN rows[joinrel] ELSE {}
     IN IF join_is_legal(rel1, rel2)
        THEN /\ rows' = [s \in DOMAIN rows \cup {joinrel} |->
                           IF s = joinrel THEN known \cup Populated(rel1, rel2) ELSE rows[s]]
             /\ join_rel_level' = [join_rel_level EXCEPT ![join_cur_level] =
                                     IF known = {} THEN Append(@, joinrel) ELSE @]
        ELSE UNCHANGED <<rows, join_rel_level>>
  /\ UNCHANGED <<treeVars, tables, initial_rels, join_cur_level, last_ditch>>

TryClauseless ==
  /\ agenda = <<>> /\ join_cur_level >= 2 /\ ~last_ditch
  /\ last_ditch' = TRUE
  /\ agenda' = IF join_rel_level[join_cur_level] = <<>>
               THEN ClauselessPairs(join_rel_level, join_cur_level) ELSE <<>>
  /\ UNCHANGED <<treeVars, tables, initial_rels, join_rel_level, join_cur_level, rows>>

NextLevel ==
  /\ LevelEnds /\ ~GivesUp /\ join_cur_level < levels_needed
  /\ StartLevel(join_rel_level, join_cur_level + 1)
  /\ UNCHANGED <<treeVars, tables, initial_rels, join_rel_level, rows>>

Init ==
  /\ TreeInit
  /\ tables \in Databases
  /\ initial_rels = <<>> /\ join_rel_level = <<>> /\ join_cur_level = 0 /\ agenda = <<>>
  /\ last_ditch = TRUE /\ rows = <<>>

Next ==
  \/ TreeNext /\ UNCHANGED searchVars
  \/ ScanTables \/ Begin \/ make_join_rel \/ TryClauseless \/ NextLevel

Spec == Init /\ [][Next]_vars

------------------------------------------------------------------------------
(* Properties *)

TypeOK ==
  /\ failed \in BOOLEAN
  /\ next \in 1..Len(statement.joins) + 2
  /\ \A l \in DOMAIN join_rel_level : \A rel \in ToSet(join_rel_level[l]) :
       /\ rel \in DOMAIN rows
       /\ Cardinality({r \in ToSet(initial_rels) : r \subseteq rel}) = l
  /\ \A l \in DOMAIN join_rel_level : IsInjective(join_rel_level[l])

\* What an outer, semi- or antijoin needs is of its own sides, and something of each.
SidesWithin ==
  \A info \in Info : /\ info.min_lefthand \subseteq info.syn_lefthand /\ info.min_righthand \subseteq info.syn_righthand
                    /\ info.min_lefthand # {} /\ info.min_righthand # {}

\* No condition is evaluated below an outer join that can null what it mentions, unless it
\* was written below it.
PlacedRight ==
  \A c \in rinfos : c.is_pushed_down =>
    \A info \in Info : info.jointype # "SEMI" /\ Nulls(info, c.required_relids) =>
      \/ info.min_lefthand \cup info.min_righthand \subseteq c.required_relids
      \/ c.required_relids \subseteq info.syn_lefthand
      \/ c.required_relids \subseteq info.syn_righthand

\* No assertion about the places of conditions fails, and none is found to mention
\* relations its outer join does not have.
AssertionsHold == ~failed

\* Without outer, semi- and antijoins no level is left empty: join_is_legal never refuses, so
\* "failed to build any %d-way joins" is never raised.
SanityHolds == join_info_list = <<>> => ~GivesUp

\* standard_join_search ends with one relation, as it asserts.
OneFinalRel == Idle /\ join_cur_level >= 1 => Len(join_rel_level[levels_needed]) = 1

\* A search that ends has joined all relations.
EndsJoined == Idle /\ rows # <<>> /\ problems = <<>> => RelsInQuery \in DOMAIN rows

\* The search is sound: every join of a level is of as many of the relations at hand as the
\* level says, and is listed once; no assertion and no sanity check fails, conditions are where
\* they may be, and what it ends with is one join of all relations.
SearchSound == TypeOK /\ SidesWithin /\ AssertionsHold /\ PlacedRight /\ SanityHolds /\ OneFinalRel /\ EndsJoined

\* All the ways to join the same relations, in any order of the joins below, as whatever
\* type of join, have the same rows.
OrdersAgree == \A rel \in DOMAIN rows : Cardinality(rows[rel]) = 1 /\ \A result \in rows[rel] : result.once

\* The search does end, whatever the special joins forbid, and its rows are those of the
\* statement as written.
AllJoined ==
  ~GivesUp /\ (Idle /\ rows # <<>> /\ problems = <<>> => TheRows(RelsInQuery) = AsWritten)

\* Every join order answers the statement, and there is one.
SameRows == OrdersAgree /\ AllJoined
===============================================================================
