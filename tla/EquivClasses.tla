----------------------------- MODULE EquivClasses -----------------------------
(***************************************************************************)
(* Equivalence classes of optimizer/path/equivclass.c: how the equality    *)
(* clauses of a query are gathered in classes, what the classes give back  *)
(* to the base relations, and what they give to a join.                    *)
(*                                                                         *)
(* The clauses are those of an inner join without security barriers: below *)
(* an outer join, volatile members, child members of inheritance and       *)
(* leakproof operators are left out.  A clause is a record                 *)
(* [left, right, derived, required]: two expressions, whether it carries   *)
(* its class as parent_ec, and required_relids.  Equal records are one     *)
(* RestrictInfo, so that create_join_clause's search for an existing one   *)
(* is the identity of records.                                             *)
(***************************************************************************)
EXTENDS Integers, Sequences, SequencesExt, FiniteSets

CONSTANTS
  Rels,          \* base relations
  Exprs,         \* expressions equated by some clause
  relids,        \* the relations an expression mentions; none for a constant
  datatype,      \* its type
  Vars,          \* the expressions that are simple columns
  EqualityOps,   \* pairs of types the operator families have an equality for
  Queries        \* sets of pairs of expressions: the equality clauses of a query

ASSUME ExprsAssumption ==
  /\ IsFiniteSet(Rels) /\ relids \in [Exprs -> SUBSET Rels] /\ Vars \subseteq Exprs
  /\ \A e \in Vars : Cardinality(relids[e]) = 1
ASSUME QueriesAssumption ==
  \A q \in Queries : \A p \in q :
    /\ p \in Exprs \X Exprs /\ p[1] # p[2]
    /\ relids[p[1]] \cup relids[p[2]] # {}
    /\ <<datatype[p[1]], datatype[p[2]]>> \in EqualityOps

VARIABLES
  query,        \* the query's equality clauses
  todo,         \* those not processed yet
  eq_classes,   \* records [members, sources, has_const, broken]
  quals,        \* clauses distributed to the relations they mention
  ec_merging_done

ecVars == <<query, todo, eq_classes, quals, ec_merging_done>>

------------------------------------------------------------------------------
clause_relids(c) == relids[c.left] \cup relids[c.right]
Multiple(s) == Cardinality(s) > 1
Clause(left, right, derived) ==
  [left |-> left, right |-> right, derived |-> derived, required |-> relids[left] \cup relids[right]]

IsConst(e) == relids[e] = {}
ec_relids(ec) == UNION {relids[e] : e \in ToSet(ec.members)}
select_equality_operator(left, right) == <<datatype[left], datatype[right]>> \in EqualityOps

------------------------------------------------------------------------------
(* process_equivalence, for one clause of the query *)

EcOf(e) == {ec \in eq_classes : e \in ToSet(ec.members)}

AddSource(ec, src) == [ec EXCEPT !.sources = @ \cup {src}]
add_eq_member(ec, e) == [ec EXCEPT !.members = Append(@, e), !.has_const = @ \/ IsConst(e)]

Merged_FirstOnly(ec1, ec2) ==
  [ec1 EXCEPT !.members = @ \o ec2.members, !.has_const = @ \/ ec2.has_const]
Merged(ec1, ec2) ==
  [ec1 EXCEPT !.members = @ \o ec2.members, !.sources = @ \cup ec2.sources,
              !.has_const = @ \/ ec2.has_const]

NewClass(p) ==
  [members |-> p, sources |-> {}, has_const |-> IsConst(p[1]) \/ IsConst(p[2]), broken |-> FALSE]

process_equivalence(p) ==
  LET ec1s == EcOf(p[1])
      ec2s == EcOf(p[2])
      Put(gone, ec) ==
        eq_classes' = (eq_classes \ gone) \cup {AddSource(ec, Clause(p[1], p[2], FALSE))}
  IN /\ ~ec_merging_done /\ p \in todo
     /\ todo' = todo \ {p}
     /\ \/ /\ ec1s = {} /\ ec2s = {}
           /\ Put({}, NewClass(p))
        \/ \E ec \in ec1s : ec2s = {} /\ Put({ec}, add_eq_member(ec, p[2]))
        \/ \E ec \in ec2s : ec1s = {} /\ Put({ec}, add_eq_member(ec, p[1]))
        \/ \E ec \in ec1s \cap ec2s : Put({ec}, ec)
        \/ \E ec1 \in ec1s, ec2 \in ec2s : ec1 # ec2 /\ Put({ec1, ec2}, Merged(ec1, ec2))
     /\ UNCHANGED <<query, quals, ec_merging_done>>

------------------------------------------------------------------------------
(* generate_base_implied_equalities: what each class gives to the relations *)

\* Two constants are compared at the top of the join tree.
Implied(left, right) ==
  IF IsConst(left) /\ IsConst(right) THEN [Clause(left, right, FALSE) EXCEPT !.required = Rels]
  ELSE Clause(left, right, FALSE)

\* Of pairs made one after another, at the positions of a list, those before the first that
\* has no operator.
Links(pairs) ==
  {i \in DOMAIN pairs :
     \A k \in DOMAIN pairs : k <= i => select_equality_operator(pairs[k][1], pairs[k][2])}

Firsts(positions) == {i \in positions : \A k \in positions : i <= k}
Lasts(positions) == {i \in positions : \A k \in positions : k <= i}

\* Every member is set equal to the first constant.
ConstPairs(ec) ==
  LET consts == {i \in DOMAIN ec.members : IsConst(ec.members[i])}
      const == CHOOSE i \in Firsts(consts) : TRUE
  IN [i \in DOMAIN ec.members \ {const} |-> <<ec.members[i], ec.members[const]>>]

\* Members of one relation are set equal to the one before.
NoConstPairs(ec) ==
  LET single(i) == Cardinality(relids[ec.members[i]]) = 1
      before(i) == {j \in DOMAIN ec.members : j < i /\ relids[ec.members[j]] = relids[ec.members[i]]}
      later == {i \in DOMAIN ec.members : single(i) /\ before(i) # {}}
  IN [i \in later |-> <<ec.members[CHOOSE j \in Lasts(before(i)) : TRUE], ec.members[i]>>]

\* A class of one clause that needs no join gives that clause itself.
BaseClauses(ec) ==
  LET pairs == IF ec.has_const THEN ConstPairs(ec) ELSE NoConstPairs(ec)
      done  == Links(pairs)
  IN IF ec.has_const /\ Len(ec.members) = 2 /\ Cardinality(ec.sources) = 1
        /\ \A s \in ec.sources : ~Multiple(s.required)
     THEN [broken |-> FALSE, clauses |-> ec.sources]
     ELSE [broken |-> done # DOMAIN pairs,
           clauses |-> {Implied(pairs[i][1], pairs[i][2]) : i \in done}]

Regurgitated(ec) == {s \in ec.sources : ec.has_const \/ ~Multiple(s.required)}

BaseQuals(ec) ==
  BaseClauses(ec).clauses \cup (IF BaseClauses(ec).broken THEN Regurgitated(ec) ELSE {})

generate_base_implied_equalities ==
  /\ todo = {} /\ ~ec_merging_done
  /\ ec_merging_done' = TRUE
  /\ quals' = quals \cup UNION {BaseQuals(ec) : ec \in eq_classes}
  /\ eq_classes' = {[ec EXCEPT !.broken = BaseClauses(ec).broken] : ec \in eq_classes}
  /\ UNCHANGED <<query, todo>>

------------------------------------------------------------------------------
(* generate_join_implied_equalities: what each class gives to a join of the *)
(* relations outer and inner                                                *)

Score(left, right) == Cardinality({left, right} \cap Vars)

\* The clause that joins a member of each side: the first pair of the best score.
CrossPairs(members, outer_members, inner_members) ==
  LET able == {p \in outer_members \X inner_members :
                 select_equality_operator(members[p[1]], members[p[2]])}
      score(p) == Score(members[p[1]], members[p[2]])
      Before(p, q) ==
        \/ score(p) > score(q)
        \/ score(p) = score(q) /\ (p[1] < q[1] \/ (p[1] = q[1] /\ p[2] <= q[2]))
  IN {p \in able : \A q \in able : Before(p, q)}

\* Members first computable at this join are chained, and tied to an older one.
Chain(positions) ==
  {p \in positions \X positions : p[1] < p[2] /\ \A k \in positions : k <= p[1] \/ p[2] <= k}
NewPairs_Untied(new_members, old_member) == Chain(new_members)
NewPairs(new_members, old_member) == Chain(new_members) \cup (Lasts(new_members) \X old_member)

\* Members are named by their positions.
JoinNormal(ec, join, outer, inner) ==
  LET Computable(rel) == {i \in DOMAIN ec.members : relids[ec.members[i]] \subseteq rel}
      outer_members == Computable(join) \cap Computable(outer)
      inner_members == (Computable(join) \cap Computable(inner)) \ outer_members
      new_members   == Computable(join) \ (outer_members \cup inner_members)
      cross == CrossPairs(ec.members, outer_members, inner_members)
      pairs == NewPairs(new_members, Firsts(IF outer_members # {} THEN outer_members ELSE inner_members))
      fails == \/ outer_members # {} /\ inner_members # {} /\ cross = {}
               \/ \E p \in pairs : ~select_equality_operator(ec.members[p[1]], ec.members[p[2]])
      Equate(set, derived) == {Clause(ec.members[p[1]], ec.members[p[2]], derived) : p \in set}
  IN [broken |-> fails,
      clauses |-> IF fails THEN {} ELSE Equate(cross, TRUE) \cup Equate(pairs, FALSE)]

JoinBroken(ec, join, outer, inner) ==
  {s \in ec.sources : /\ s.required \subseteq join
                      /\ ~(s.required \subseteq outer) /\ ~(s.required \subseteq inner)}

\* A class of constants has done its work at the base relations.
Concerned(ec, outer, inner) ==
  ~ec.has_const /\ ec_relids(ec) \cap outer # {} /\ ec_relids(ec) \cap inner # {}

JoinClauses(ec, join, outer, inner) ==
  LET normal == JoinNormal(ec, join, outer, inner)
  IN IF ec.broken \/ normal.broken THEN JoinBroken(ec, join, outer, inner) ELSE normal.clauses

\* A class found to lack an operator stays broken from then on.
Tried(ec, join, outer, inner) ==
  [ec EXCEPT !.broken = @ \/ JoinNormal(ec, join, outer, inner).broken]

generate_join_implied_equalities(ecs, join, outer, inner) ==
  UNION {JoinClauses(ec, join, outer, inner) : ec \in {e \in ecs : Concerned(e, outer, inner)}}
AfterJoin(ecs, join, outer, inner) ==
  {IF Concerned(ec, outer, inner) THEN Tried(ec, join, outer, inner) ELSE ec : ec \in ecs}

------------------------------------------------------------------------------
EcInit ==
  /\ query \in Queries /\ todo = query
  /\ eq_classes = {} /\ quals = {} /\ ec_merging_done = FALSE

EcNext ==
  \/ \E p \in query : process_equivalence(p)
  \/ generate_base_implied_equalities

------------------------------------------------------------------------------
(* Properties *)

\* Every set that holds one of a and b and is closed under the pairs holds the other.
Connected(pairs, a, b) ==
  \A S \in SUBSET UNION {{p[1], p[2]} : p \in pairs} :
    (\A p \in pairs : p[1] \in S <=> p[2] \in S) => (a \in S <=> b \in S)

Sides(clauses) == {<<c.left, c.right>> : c \in clauses}

\* No set of members divides S unless it divides a pair of members.
Equated(pairs, ec, S) ==
  LET members == ToSet(ec.members)
  IN \A T \in SUBSET members :
       (\A p \in pairs : {p[1], p[2]} \subseteq members => (p[1] \in T <=> p[2] \in T))
         => S \subseteq T \/ S \cap T = {}

\* Whatever the order the clauses come in, merging leaves one class for each set of
\* expressions they connect, with every clause among its sources.
ClassesAreComponents ==
  LET done == query \ todo
      in == {p[1] : p \in done} \cup {p[2] : p \in done}
  IN /\ \A a, b \in in : EcOf(a) = EcOf(b) <=> Connected(done, a, b)
     /\ \A e \in in : Cardinality(EcOf(e)) = 1
     /\ \A ec \in eq_classes :
          /\ ToSet(ec.members) \subseteq in /\ IsInjective(ec.members)
          /\ ec.has_const <=> \E e \in ToSet(ec.members) : IsConst(e)
          /\ Sides(ec.sources) = {p \in done : p[1] \in ToSet(ec.members)}
===============================================================================
