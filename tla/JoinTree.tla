------------------------------ MODULE JoinTree ------------------------------
(***************************************************************************)
(* From the joins a statement is written with to the facts the join search *)
(* works with (deconstruct_jointree of optimizer/plan/initsplan.c): which  *)
(* relations every outer, semi- and antijoin needs on its two sides, and   *)
(* where in any join tree each condition is to be evaluated.               *)
(*                                                                         *)
(* A statement is its joins from the innermost to the outermost, records   *)
(* [jointype, left, right, quals] with the relations of each side, and the *)
(* conditions of its WHERE.  A condition is a record [on, strict, equal,   *)
(* forced_null, test]: the relations it mentions, those for which a null   *)
(* row makes it false, whether it is an equality of one relation with      *)
(* another that can be hashed or sorted, whether it is IS NULL, and what   *)
(* it tests.  Lateral references, placeholders, conditions without         *)
(* columns, equivalence classes (module EquivClasses) and FROM lists with  *)
(* commas are left out; RIGHT joins are LEFT joins by then.                *)
(***************************************************************************)
EXTENDS ListOps, FiniteSets

CONSTANTS
  Rels,
  Statements,
  CollapseLimits   \* settings of join_collapse_limit

Types == {"INNER", "LEFT", "FULL", "SEMI", "ANTI"}

Overlap(a, b) == a \cap b # {}
Scope(j) == j.left \cup j.right

ASSUME LimitAssumption == CollapseLimits \subseteq Nat \ {0}
\* A side of a join is a relation or the whole of a lower join; no join is used twice.
ASSUME StatementsAssumption ==
  \A s \in Statements :
    /\ Len(s.joins) \in Nat \ {0} /\ DOMAIN s.joins = 1..Len(s.joins)
    /\ \A i \in DOMAIN s.joins : LET j == s.joins[i] IN
         /\ j.jointype \in Types /\ Scope(j) \subseteq Rels
         /\ ~Overlap(j.left, j.right) /\ j.left # {} /\ j.right # {}
         /\ \A side \in {j.left, j.right} :
              /\ (\E r \in Rels : side = {r}) \/ \E k \in 1..i - 1 : side = Scope(s.joins[k])
              /\ \A k \in 1..i - 1 : Overlap(Scope(s.joins[k]), side) => Scope(s.joins[k]) \subseteq side
         /\ \A c \in j.quals : c.on # {} /\ c.on \subseteq Scope(j)
    /\ \A c \in s.where : c.on # {} /\ c.on \subseteq Scope(Last(s.joins))

VARIABLES
  statement,
  join_collapse_limit,
  next,            \* the join to take apart next
  join_info_list,  \* SpecialJoinInfo: [jointype, syn_lefthand, syn_righthand, min_lefthand,
                   \*   min_righthand, lhs_strict, delay_upper_joins, semi_can, semi_rhs]
  rinfos,          \* RestrictInfo: [clause, required_relids, is_pushed_down]
  joinlist,        \* for each join tree taken apart, the relations or subproblems to be joined
  problems,        \* subproblems of the join search, inner ones first
  failed           \* an error was raised or an assertion did not hold

treeVars == <<statement, join_collapse_limit, next, join_info_list, rinfos, joinlist, problems, failed>>

------------------------------------------------------------------------------
On(quals) == UNION {c.on : c \in quals}
find_nonnullable_rels(quals) == UNION {c.strict : c \in quals}
Info == {join_info_list[i] : i \in DOMAIN join_info_list}
RelsInQuery == Scope(Last(statement.joins))

\* Relations of the inner joins at or below a join.
inner_join_rels(j) ==
  UNION {Scope(k) : k \in {k \in ToSet(statement.joins) : k.jointype = "INNER" /\ Scope(k) \subseteq Scope(j)}}

------------------------------------------------------------------------------
(* compute_semijoin_info *)

\* Conditions across the join that are no hashable or sortable equality rule it out that
\* the right side is made unique.
Across(j) == {c \in j.quals : Overlap(c.on, j.right) /\ ~(c.on \subseteq j.right)}
semi_can(j) == j.jointype = "SEMI" /\ Across(j) # {} /\ \A c \in Across(j) : c.equal
semi_rhs_exprs(j) == On(Across(j)) \cap j.right

------------------------------------------------------------------------------
(* make_outerjoininfo *)

\* A lower join in our left side has to be done before: we use its nullable side and would
\* not reject its nulls.
MustFollow(j, other) ==
  /\ Overlap(j.left, other.syn_righthand) /\ Overlap(On(j.quals), other.syn_righthand)
  /\ \/ j.jointype \in {"SEMI", "ANTI"}
     \/ ~Overlap(find_nonnullable_rels(j.quals), other.min_righthand)

\* The same of one in our right side, unless outer joins may be exchanged.
MustPrecede(j, other) ==
  /\ Overlap(j.right, other.syn_righthand)
  /\ \/ Overlap(On(j.quals), other.syn_righthand) \/ ~Overlap(On(j.quals), other.min_lefthand)
     \/ j.jointype \in {"SEMI", "ANTI"} \/ other.jointype \in {"SEMI", "ANTI"}
     \/ ~other.lhs_strict \/ other.delay_upper_joins

Syn(infos) == UNION {o.syn_lefthand \cup o.syn_righthand : o \in infos}

\* Full joins below stay where they are.
FullIn(side) == {o \in Info : o.jointype = "FULL" /\ Overlap(side, o.syn_lefthand \cup o.syn_righthand)}
NotFull == {o \in Info : o.jointype # "FULL"}

NonEmpty(set, default) == IF set = {} THEN default ELSE set

make_outerjoininfo(j) ==
  LET full == j.jointype = "FULL"
      min_lefthand == (On(j.quals) \cap j.left) \cup Syn(FullIn(j.left))
                        \cup Syn({o \in NotFull : MustFollow(j, o)})
      min_righthand == ((On(j.quals) \cup inner_join_rels(j)) \cap j.right) \cup Syn(FullIn(j.right))
                        \cup Syn({o \in NotFull : MustPrecede(j, o)})
  IN [jointype |-> j.jointype, syn_lefthand |-> j.left, syn_righthand |-> j.right,
      min_lefthand |-> IF full THEN j.left ELSE NonEmpty(min_lefthand, j.left),
      min_righthand |-> IF full THEN j.right ELSE NonEmpty(min_righthand, j.right),
      lhs_strict |-> ~full /\ Overlap(find_nonnullable_rels(j.quals), j.left),
      delay_upper_joins |-> FALSE,
      semi_can |-> semi_can(j), semi_rhs |-> semi_rhs_exprs(j)]

------------------------------------------------------------------------------
(* distribute_qual_to_rels *)

\* An outer join that can null what a condition on the relations mentions.
Nulls(info, relids) ==
  \/ Overlap(relids, info.min_righthand)
  \/ info.jointype = "FULL" /\ Overlap(relids, info.min_lefthand)

\* Without looking again what the joins found call for.
check_outerjoin_delay_Once(relids) ==
  relids \cup UNION {o.min_lefthand \cup o.min_righthand : o \in {i \in Info : Nulls(i, relids)}}

\* check_outerjoin_delay: the condition waits for those joins, and for those their
\* relations then call for.
check_outerjoin_delay(relids) ==
  LET waits(s) == relids \subseteq s /\ \A o \in Info : Nulls(o, s) => o.min_lefthand \cup o.min_righthand \subseteq s
  IN CHOOSE s \in SUBSET Rels : waits(s) /\ \A t \in SUBSET Rels : waits(t) => s \subseteq t

\* Outer joins below a condition that rejects none of their nulls are not to be exchanged
\* with joins above it.
Delays(info, pushed) ==
  /\ info.jointype # "FULL"
  /\ \E c \in pushed : LET relids == check_outerjoin_delay(c.on)
                       IN Nulls(info, relids) /\ Overlap(relids, info.min_lefthand)

\* IS NULL above an antijoin says nothing new.
check_redundant_nullability_qual(c) ==
  c.forced_null /\ \E o \in Info : o.jointype = "ANTI" /\ c.on \subseteq o.syn_righthand

OwnQuals(quals, nonnullable) == {c \in quals : Overlap(c.on, nonnullable)}
Redundant(c) == check_outerjoin_delay(c.on) # c.on /\ check_redundant_nullability_qual(c)

\* Conditions of an outer join on its left side belong to that join, all others are
\* evaluated as low as they can be.
Distributed(quals, ojscope, nonnullable) ==
  {[clause |-> c, required_relids |-> ojscope, is_pushed_down |-> FALSE] : c \in OwnQuals(quals, nonnullable)}
  \cup {[clause |-> c, required_relids |-> check_outerjoin_delay(c.on), is_pushed_down |-> TRUE] :
          c \in {c \in quals \ OwnQuals(quals, nonnullable) : ~Redundant(c)}}

Marked(pushed) ==
  [i \in DOMAIN join_info_list |->
     [join_info_list[i] EXCEPT !.delay_upper_joins = @ \/ Delays(join_info_list[i], pushed)]]

\* "JOIN qualification cannot refer to other relations", and the assertions around it.
Fits(quals, scope, ojscope, nonnullable) ==
  /\ ojscope # {} => \A c \in quals : c.on \subseteq ojscope
  /\ \A c \in quals \ OwnQuals(quals, nonnullable) :
       LET relids == check_outerjoin_delay(c.on)
       IN relids # c.on => relids \subseteq scope /\ (ojscope # {} => relids \subseteq ojscope)

------------------------------------------------------------------------------
(* deconstruct_recurse *)

nonnullable_rels(j) ==
  CASE j.jointype \in {"LEFT", "ANTI"} -> j.left
    [] j.jointype = "FULL" -> Scope(j)
    [] OTHER -> {}

\* A part of the join tree that is planned on its own.
Planned(parts) == IF Len(parts) > 1 THEN <<parts>> ELSE <<>>

Joinlist(j) ==
  LET left == joinlist[j.left]
      right == joinlist[j.right]
      sides == <<j.left, j.right>>
  IN CASE j.jointype = "FULL" ->
            [list |-> <<Scope(j)>>, own |-> Planned(left) \o Planned(right) \o <<sides>>]
       [] j.jointype # "FULL" /\ Len(left) + Len(right) <= join_collapse_limit ->
            [list |-> left \o right, own |-> <<>>]
       [] OTHER -> [list |-> sides, own |-> Planned(left) \o Planned(right)]

DeconstructJoin ==
  LET j == statement.joins[next]
      info == make_outerjoininfo(j)
      ojscope == IF j.jointype \in {"INNER", "SEMI"} THEN {} ELSE info.min_lefthand \cup info.min_righthand
      marked == Marked(j.quals \ OwnQuals(j.quals, nonnullable_rels(j)))
  IN /\ next <= Len(statement.joins)
     /\ next' = next + 1
     /\ rinfos' = rinfos \cup Distributed(j.quals, ojscope, nonnullable_rels(j))
     /\ join_info_list' = IF j.jointype = "INNER" THEN marked ELSE Append(marked, info)
     /\ joinlist' = [s \in DOMAIN joinlist \cup {Scope(j)} |->
                       IF s = Scope(j) THEN Joinlist(j).list ELSE joinlist[s]]
     /\ problems' = problems \o Joinlist(j).own
     /\ failed' = (failed \/ ~Fits(j.quals, Scope(j), ojscope, nonnullable_rels(j))
                          \/ (j.jointype # "INNER" /\ Overlap(info.min_lefthand, info.min_righthand)))
     /\ UNCHANGED <<statement, join_collapse_limit>>

\* The conditions of WHERE, and the join problem at the top.
DeconstructWhere ==
  /\ next = Len(statement.joins) + 1
  /\ next' = next + 1
  /\ rinfos' = rinfos \cup Distributed(statement.where, {}, {})
  /\ join_info_list' = Marked(statement.where)
  /\ problems' = problems \o Planned(joinlist[RelsInQuery])
  /\ failed' = (failed \/ ~Fits(statement.where, RelsInQuery, {}, {}))
  /\ UNCHANGED <<statement, join_collapse_limit, joinlist>>

Deconstructed == next > Len(statement.joins) + 1

TreeInit ==
  /\ statement \in Statements /\ join_collapse_limit \in CollapseLimits /\ next = 1
  /\ join_info_list = <<>> /\ rinfos = {} /\ problems = <<>> /\ failed = FALSE
  /\ joinlist = [s \in {{r} : r \in Rels} |-> <<s>>]

TreeNext == DeconstructJoin \/ DeconstructWhere
===============================================================================
