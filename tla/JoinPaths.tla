------------------------------ MODULE JoinPaths ------------------------------
(***************************************************************************)
(* Which clauses a join tree enforces and where: the clauses of a join of  *)
(* two relations (relnode.c), of a parameterised scan or join (relnode.c), *)
(* those a nested loop leaves to its inner side (pathnode.c), and the      *)
(* pairs of paths that may be joined (joinpath.c).                         *)
(*                                                                         *)
(* Every path of the planner is some tree of scans and joins; the model    *)
(* builds one tree after another choice, with the equivalence classes as   *)
(* other trees, explored in between, have left them.  A path is a record   *)
(* [rel, req, joininfo, enforced, twice, given] with the text of its       *)
(* relation and what SubqueryText needs for it.  Any two disjoint          *)
(* relations may be joined, which is more than join_is_legal allows.       *)
(***************************************************************************)
EXTENDS SubqueryText

CONSTANTS
  OtherClauses,   \* join clauses that are no equalities: Clause records
  SpecialJoins,   \* records [min_lefthand, min_righthand] of semijoins
  MaxParams       \* bound on the relations a scan takes its parameters from

ASSUME OtherClausesAssumption ==
  \A c \in OtherClauses : c.required = clause_relids(c) /\ c.required \subseteq Rels /\ Multiple(c.required)

VARIABLES
  forest,         \* disjoint paths built so far
  scanned         \* base relations that have theirs

vars == <<ecVars, forest, scanned>>

------------------------------------------------------------------------------
(* Clauses of joins *)

join_clause_is_movable_into(c, current, current_and_outer) ==
  clause_relids(c) \subseteq current_and_outer /\ current \cap clause_relids(c) # {}

\* NULL, here the empty set, if the path takes no parameters.
and_req(path) == IF path.req = {} THEN {} ELSE path.rel \cup path.req

AllQuals == quals \cup OtherClauses
baserestrictinfo(r) == {c \in AllQuals : c.required = {r}}
BaseJoininfo(r) == {c \in AllQuals : r \in c.required /\ Multiple(c.required)}

subbuild_joinrel_restrictlist(joinrel, joininfo) == {c \in joininfo : c.required \subseteq joinrel}
build_joinrel_joinlist(joinrel, outer, inner) ==
  {c \in outer.joininfo \cup inner.joininfo : ~(c.required \subseteq joinrel)}

build_joinrel_restrictlist(ecs, outer, inner) ==
  subbuild_joinrel_restrictlist(outer.rel \cup inner.rel, outer.joininfo \cup inner.joininfo)
    \cup generate_join_implied_equalities(ecs, outer.rel \cup inner.rel, outer.rel, inner.rel)

get_baserel_parampathinfo(ecs, r, req) ==
  {c \in BaseJoininfo(r) : join_clause_is_movable_into(c, {r}, {r} \cup req)}
    \cup generate_join_implied_equalities(ecs, {r} \cup req, req, {r})

\* Clauses that can be moved into a side that takes parameters are enforced there.
InSide(c, path) == join_clause_is_movable_into(c, path.rel, and_req(path))

ParamClauses(ecs, joinrel, outer, req) ==
  {c \in generate_join_implied_equalities(ecs, joinrel \cup req, req, joinrel) : ~InSide(c, outer)}

\* A class whose clause went to the inner side is tied to the outer side again, since
\* the inner path may have enforced another clause of that class.
dropped_ecs(ecs, outer, inner, req) ==
  {ec \in ecs : /\ ~ec.has_const /\ ec_relids(ec) \cap (outer.rel \cup req) # {}
                /\ \E c \in ParamClauses(ecs, outer.rel \cup inner.rel, outer, req) :
                     InSide(c, inner) /\ c.left \in ToSet(ec.members)}
Retied_Never(ecs, outer, inner, req) == {}
Retied(ecs, outer, inner, req) ==
  {c \in UNION {JoinClauses(ec, outer.rel \cup req, req, outer.rel) : ec \in dropped_ecs(ecs, outer, inner, req)} :
     ~InSide(c, outer)}

get_joinrel_parampathinfo(ecs, joininfo, outer, inner, req) ==
  LET joinrel  == outer.rel \cup inner.rel
      pclauses == {c \in joininfo : /\ join_clause_is_movable_into(c, joinrel, joinrel \cup req)
                                    /\ ~InSide(c, outer) /\ ~InSide(c, inner)}
  IN IF req = {} THEN {}
     ELSE pclauses \cup {c \in ParamClauses(ecs, joinrel, outer, req) : ~InSide(c, inner)}
            \cup Retied(ecs, outer, inner, req)

AfterParam(ecs, outer, inner, req) ==
  LET asked == AfterJoin(ecs, outer.rel \cup inner.rel \cup req, req, outer.rel \cup inner.rel)
  IN IF req = {} THEN ecs
     ELSE {IF ec \in dropped_ecs(asked, outer, inner, req)
           THEN Tried(ec, outer.rel \cup req, req, outer.rel) ELSE ec : ec \in asked}

\* The nested loop drops what its inner path has been given the values for.
KeptByNestloop_All(clauses, outer, inner) == clauses
KeptByNestloop(clauses, outer, inner) ==
  IF inner.req \cap outer.rel = {} THEN clauses ELSE {c \in clauses : ~InSide(c, inner)}

------------------------------------------------------------------------------
(* Which paths may be joined *)

calc_nestloop_required_outer(outer, inner) == (outer.req \cup inner.req) \ outer.rel

param_source_rels(joinrel) ==
  UNION {Rels \ sj.min_righthand :
           sj \in {s \in SpecialJoins : joinrel \cap s.min_righthand # {} /\ joinrel \cap s.min_lefthand = {}}}

allow_star_schema_join(outer, inner) ==
  inner.req \cap outer.rel # {} /\ ~(inner.req \subseteq outer.rel)

\* A nested loop may pass values of its outer side to the inner one.
NestloopAllowed(outer, inner) ==
  LET req == calc_nestloop_required_outer(outer, inner)
  IN /\ outer.req \cap inner.rel = {}
     /\ \/ req = {}
        \/ req \cap param_source_rels(outer.rel \cup inner.rel) # {}
        \/ allow_star_schema_join(outer, inner)

\* Merge and hash joins cannot.
NonNestloopAllowed(outer, inner) ==
  LET req == outer.req \cup inner.req
  IN /\ outer.req \cap inner.rel = {} /\ inner.req \cap outer.rel = {}
     /\ req = {} \/ req \cap param_source_rels(outer.rel \cup inner.rel) # {}

------------------------------------------------------------------------------
(* Building paths *)

\* Parameters of a scan come from relations some join clause ties it to.
Sources(r) ==
  {q \in Rels \ {r} : \/ \E c \in BaseJoininfo(r) : q \in c.required
                      \/ \E ec \in eq_classes : {q, r} \subseteq ec_relids(ec)}

Scan(r, req) ==
  LET new == get_baserel_parampathinfo(eq_classes, r, req)
  IN /\ ec_merging_done /\ \A q \in Rels : q < r => q \in scanned
     /\ req \subseteq Sources(r) /\ Cardinality(req) <= MaxParams
     /\ forest' = forest \cup
          {[rel |-> {r}, req |-> req, joininfo |-> BaseJoininfo(r), twice |-> {}, given |-> req,
            named |-> {}, lost |-> FALSE, ppi |-> IF req = {} THEN {} ELSE new, text |-> get_single_rel(baserestrictinfo(r)),
            enforced |-> baserestrictinfo(r) \cup IF req = {} THEN {} ELSE new]}
     /\ scanned' = scanned \cup {r}
     /\ eq_classes' = IF req = {} THEN eq_classes ELSE AfterJoin(eq_classes, {r} \cup req, req, {r})
     /\ UNCHANGED <<query, todo, quals, ec_merging_done>>

Built(outer, inner, clauses, req, extra, material, text) ==
  [named |-> get_path(clauses \cup extra, outer, inner, material), ppi |-> {}, text |-> text,
   lost |-> Loses(clauses \cup extra, outer, inner, material),
   rel |-> outer.rel \cup inner.rel, req |-> req,
   joininfo |-> build_joinrel_joinlist(outer.rel \cup inner.rel, outer, inner),
   enforced |-> outer.enforced \cup inner.enforced \cup clauses \cup extra,
   twice |-> outer.twice \cup inner.twice \cup (outer.enforced \cap inner.enforced)
               \cup ((clauses \cup extra) \cap (outer.enforced \cup inner.enforced))
               \cup (clauses \cap extra),
   given |-> outer.given \cup inner.given]

\* The size of a relation is estimated with its first join, that of a parameterised path with
\* the clauses of that path; either way the text is made.
Join(outer, inner, nestloop, material) ==
  LET joinrel == outer.rel \cup inner.rel
      req  == IF nestloop THEN calc_nestloop_required_outer(outer, inner) ELSE outer.req \cup inner.req
      ecs  == AfterJoin(eq_classes, joinrel, outer.rel, inner.rel)
      restrictlist == build_joinrel_restrictlist(eq_classes, outer, inner)
      clauses == IF nestloop THEN KeptByNestloop(restrictlist, outer, inner) ELSE restrictlist
      extra == get_joinrel_parampathinfo(ecs, build_joinrel_joinlist(joinrel, outer, inner), outer, inner, req)
  IN /\ scanned = Rels /\ {outer, inner} \subseteq forest /\ outer # inner
     /\ IF nestloop THEN NestloopAllowed(outer, inner) ELSE NonNestloopAllowed(outer, inner)
     /\ material => nestloop /\ inner.req = {} /\ inner.named # {}
     /\ \E text \in {get_join_rel(ecs, IF req = {} THEN restrictlist ELSE clauses \cup extra, outer, inner, quals)} :
          forest' = (forest \ {outer, inner}) \cup {Built(outer, inner, clauses, req, extra, material, text)}
     /\ eq_classes' = AfterParam(ecs, outer, inner, req)
     /\ UNCHANGED <<query, todo, quals, ec_merging_done, scanned>>

\* Another join or parameterised scan is looked at, which breaks a class that lacks an
\* operator.
Breakable(ec) ==
  ~ec.broken /\ \E a, b \in ToSet(ec.members) : ~select_equality_operator(a, b)

Explore(outer, inner) ==
  /\ ec_merging_done /\ outer # {} /\ inner # {}
  /\ scanned # Rels => Cardinality(inner) = 1
  /\ eq_classes' = AfterJoin(eq_classes, outer \cup inner, outer, inner)
  /\ eq_classes' # eq_classes
  /\ UNCHANGED <<query, todo, quals, ec_merging_done, forest, scanned>>

------------------------------------------------------------------------------
Init == EcInit /\ forest = {} /\ scanned = {}

Next ==
  \/ EcNext /\ UNCHANGED <<forest, scanned>>
  \/ \E r \in Rels \ scanned : \E req \in SUBSET (Rels \ {r}) : Scan(r, req)
  \/ \E outer, inner \in forest, nestloop, material \in BOOLEAN : Join(outer, inner, nestloop, material)
  \/ /\ \E ec \in eq_classes : Breakable(ec)
     /\ \E outer \in SUBSET Rels : \E inner \in SUBSET (Rels \ outer) : Explore(outer, inner)

Spec == Init /\ [][Next]_vars

------------------------------------------------------------------------------
(* Properties *)

Within(rel) == {e \in Exprs : relids[e] \subseteq rel}

TypeOK ==
  /\ query \in Queries /\ todo \subseteq query /\ ec_merging_done \in BOOLEAN
  /\ \A ec \in eq_classes : ec.members \in Seq(Exprs) /\ ec.broken \in BOOLEAN
  /\ \A p \in forest : p.rel \subseteq Rels /\ p.req \subseteq Rels \ p.rel
  /\ \A p, q \in forest : p = q \/ p.rel \cap q.rel = {}

\* Two constants are compared at the top only.
Comparable(ec, rel) == rel = Rels \/ \A a, b \in ToSet(ec.members) : IsConst(a) /\ IsConst(b) => a = b

\* The sides of a join may take parameters from different relations of one expression: the
\* clause tied to it leaves an expression of the outer side free.  The class needs two more.
Tangled(ec) == ~ec.has_const /\ Len(ec.members) > 3 /\ \E e \in ToSet(ec.members) : Multiple(relids[e])

\* Of a class broken or not, what a tree of the relations rel has to make equal by clauses.
MakesEqual(clauses, ec, rel) ==
  LET here == ToSet(ec.members) \cap Within(rel)
  IN Comparable(ec, rel) =>
       /\ \A c \in query : {c[1], c[2]} \subseteq here => Equated(Sides(clauses), ec, {c[1], c[2]})
       /\ ~ec.broken => Equated(Sides(clauses), ec, here)

\* A tree that needs nothing from outside makes equal all the expressions of its relations
\* that a clause of the query equates, and all that a class does unless it is broken;
\* wherever the clauses were moved, dropped, replaced by others or tied again.  If a class
\* is broken this is said only of trees that pass no parameters.
EqualityEnforced ==
  \A p \in forest : p.req = {} /\ (p.given = {} \/ \A ec \in eq_classes : ~ec.broken) =>
    \A ec \in eq_classes : p.given = {} \/ ~Tangled(ec) => MakesEqual(p.enforced, ec, p.rel)

\* Of the other join clauses a tree enforces all that can be evaluated there, though a nested
\* loop drops them, or a parameterised path takes them over from the joins above it.
EnforcesOthers(p) ==
  \A c \in OtherClauses : c.required \subseteq p.rel \cup p.req /\ c.required \cap p.rel # {} => c \in p.enforced

\* Every tree does, no other clause equates what is not of one class, and none is applied
\* twice in one tree.
ClausesPlaced ==
  \A p \in forest :
    /\ EnforcesOthers(p)
    /\ \A c \in p.enforced : clause_relids(c) \subseteq p.rel \cup p.req
    /\ \A c \in p.enforced \ OtherClauses : \E ec \in eq_classes : {c.left, c.right} \subseteq ToSet(ec.members)
    /\ p.twice = {}

\* A parameterised path enforces everything that can be evaluated there, whichever way it
\* was built: the row count of the parameterisation is taken to be the same for all.
ParameterisedAlike ==
  \A p \in forest : p.req # {} =>
    /\ EnforcesOthers(p)
    /\ (\A ec \in eq_classes : ~ec.broken) => \A ec \in eq_classes : ~ec.has_const /\ ~Tangled(ec) =>
         LET given == Within(p.req) \X Within(p.req)
         IN Equated(Sides(p.enforced) \cup given, ec, ToSet(ec.members) \cap Within(p.rel \cup p.req))

\* The text of a join names no column of another relation, makes equal whatever the join
\* does and has every other clause of it, though most come from whichever paths are cheapest
\* for its sides; except when a foreign key or a Material node hides clauses, or a nested
\* loop has left some to a scan that is not printed.
TextNamesJoin ==
  \A p \in forest : p.text.known /\ p.req = {} /\ Cardinality(p.rel) > 1 =>
    /\ \A c \in p.text.clauses : clause_relids(c) \subseteq p.rel
    /\ ~p.text.lost /\ (p.given = {} \/ \A ec \in eq_classes : ~ec.broken) =>
         /\ {c \in OtherClauses : c.required \subseteq p.rel} \subseteq p.text.clauses
         /\ \A ec \in eq_classes : p.given = {} \/ ~Tangled(ec) => MakesEqual(p.text.clauses, ec, p.rel)

\* Classes and trees are well formed, and the classes are what the clauses make equal; what
\* the joins do to a class leaves its members alone.
ClassesSound == TypeOK /\ (forest = {} => ClassesAreComponents)
===============================================================================
