---------------------------- MODULE SubqueryText ----------------------------
(***************************************************************************)
(* utils/subplanquery.c: which clauses the text of a sub-query names, on    *)
(* which the answer for it and the lookup of a replaced cardinality depend. *)
(* The text of a relation is "select count( * ) from" its base relations    *)
(* "where" these clauses; the model keeps the clauses as a set.  How a      *)
(* clause is printed, and the order of clauses, are left out.               *)
(*                                                                         *)
(* A path carries what get_path() will print of it: named, the clauses of   *)
(* its joins; ppi, those a scan has for its parameters; lost, whether some  *)
(* clause that it enforces is printed for neither.                          *)
(***************************************************************************)
EXTENDS EquivClasses

CONSTANT ForeignKeys  \* sequence of records [con, ref, keys]: relations, pairs of columns

ASSUME ForeignKeysAssumption ==
  ForeignKeys \in Seq([con : Rels, ref : Rels, keys : Seq(Exprs \X Exprs)])

\* The class that makes a column of a foreign key equal to the one it refers to.
match_eclasses_to_foreign_key_col(ecs, key) == {ec \in ecs : {key[1], key[2]} \subseteq ToSet(ec.members)}
\* Foreign keys, here their positions, of whose columns all have such a class.
match_foreign_keys_to_quals(ecs) ==
  {i \in DOMAIN ForeignKeys :
     \A n \in DOMAIN ForeignKeys[i].keys : match_eclasses_to_foreign_key_col(ecs, ForeignKeys[i].keys[n]) # {}}

\* Clauses a foreign key accounts for are taken out of the list that is printed, unless
\* one for each of its columns cannot be found.
OfClass(c, ecs) == c.derived /\ \E ec \in ecs : c.left \in ToSet(ec.members)
get_foreign_key_join_selectivity(ecs, restrictlist, outer, inner) ==
  LET Connects(fk) == (fk.con \in outer /\ fk.ref \in inner) \/ (fk.ref \in outer /\ fk.con \in inner)
      Removed(fk, work) ==
        {c \in work : \E n \in DOMAIN fk.keys : OfClass(c, match_eclasses_to_foreign_key_col(ecs, fk.keys[n]))}
      Applies(i, work) ==
        /\ i \in match_foreign_keys_to_quals(ecs) /\ Connects(ForeignKeys[i])
        /\ Cardinality(Removed(ForeignKeys[i], work)) = Len(ForeignKeys[i].keys)
      worklist[i \in 0..Len(ForeignKeys)] ==
        IF i = 0 THEN restrictlist
        ELSE LET work == worklist[i - 1]
             IN IF Applies(i, work) THEN work \ Removed(ForeignKeys[i], work) ELSE work
  IN worklist[Len(ForeignKeys)]

----
\* A join prints the clauses it tests itself, or, if it tests none, those of a scan its inner
\* side takes values for; then what its two sides print.  Under a Material node nothing is.
get_path(clauses, outer, inner, material) ==
  IF material THEN clauses \cup outer.named
  ELSE (IF clauses # {} THEN clauses ELSE inner.ppi) \cup outer.named \cup inner.named
Loses(clauses, outer, inner, material) ==
  outer.lost \/ inner.lost \/ (material /\ inner.named # {}) \/ outer.ppi # {} \/ (clauses # {} /\ inner.ppi # {})

\* What the sides print is that of their cheapest path, which takes no parameters; of a path
\* that does it is known only for base relations, which print nothing.
Cheapest(path) == path.req = {} \/ Cardinality(path.rel) = 1
get_base_restrictclauses_OfOuter(base, outer, inner) == {c \in base : c.required \subseteq outer.rel}
get_base_restrictclauses(base, outer, inner) ==
  {c \in base : ~Multiple(c.required) /\ c.required \subseteq outer.rel \cup inner.rel}
get_join_rel(ecs, restrictlist, outer, inner, base) ==
  LET printed == get_foreign_key_join_selectivity(ecs, restrictlist, outer.rel, inner.rel)
  IN IF Cheapest(outer) /\ Cheapest(inner)
     THEN [known |-> TRUE, lost |-> outer.lost \/ inner.lost \/ printed # restrictlist,
           clauses |-> printed \cup outer.named \cup inner.named \cup get_base_restrictclauses(base, outer, inner)]
     ELSE [known |-> FALSE, lost |-> TRUE, clauses |-> {}]
get_single_rel(base) == [known |-> TRUE, lost |-> FALSE, clauses |-> base]
=============================================================================
